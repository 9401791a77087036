------------------------ MODULE OperatorConsoleProofs ------------------------
(***************************************************************************)
(* Theorems about OperatorConsole, for any operators and capabilities, any *)
(* number of requests under way and any number of sessions, and about the  *)
(* SupportDesk behind it, for any number of operators, overlapping calls,  *)
(* images and messages.                                                    *)
(***************************************************************************)
EXTENDS OperatorConsole, SupportDesk, FiniteSetTheorems, TLAPS

LoginCalls == {"verify", "stepup", "who"}
Away == {"loading", "phone"}

\* A request under way fits the page: one of the login carries the operator typed in, one
\* of the work the operator shown, and a session number it brings was given out to him.
CallFits(c) ==
  /\ calls[c].sid <= Len(issued)
  /\ calls[c].kind # "logout"
  /\ calls[c].ok /\ calls[c].kind \in {"boot"} \cup WorkKinds => calls[c].sid # 0
  /\ calls[c].kind = "boot" => c = First /\ step = "loading" /\ calls[c].sid = cookie
  /\ calls[c].kind = "otp" => phone # Nobody /\ step # "loading"
  /\ calls[c].kind \in LoginCalls =>
       phone # Nobody /\ calls[c].by = phone /\ step \notin Away
  /\ calls[c].kind = "who" \/ (calls[c].kind = "stepup" /\ calls[c].ok) =>
       calls[c].sid # 0 /\ issued[calls[c].sid] = calls[c].by
  /\ calls[c].kind = "who" => cookie # 0 /\ issued[cookie] = phone
  /\ calls[c].kind \in WorkKinds =>
       /\ session # Nobody /\ calls[c].by = session /\ step \notin Away
       /\ calls[c].sid # 0 => issued[calls[c].sid] = session

\* Only a logout is sent from the place of the logout.
ExitFits ==
  /\ calls[Exit] = NoCall \/ calls[Exit].kind = "logout"
  /\ calls[Exit].sid <= Len(issued)

\* The page belongs to one operator: who is typed in, who is signing in and whose session
\* it shows are the same, and so is the one of the browser's cookie.
PageFits ==
  /\ token \in {Nobody, phone}
  /\ session # Nobody => phone \in {Nobody, session}
  /\ session # Nobody /\ cookie # 0 => issued[cookie] = session
  /\ step = "loading" => phone = Nobody /\ \A c \in Ids \ {First} : calls[c] = NoCall
  /\ step \in Away => session = Nobody /\ token = Nobody
  /\ step = "ready" => page \in Offered(session) \cup {Nowhere}

ShownFits ==
  /\ \A s \in Slots : shown[s] \in {Nobody, session}
  /\ step \in Away => shown = Blank

\* A request of the operator shown, with the browser's cookie.
Works(r) == r.kind \in WorkKinds /\ ~r.ok /\ r.by = session /\ r.sid = cookie

Owned == TypeOK /\ (\A c \in Ids : CallFits(c)) /\ ExitFits /\ PageFits /\ ShownFits

-----------------------------------------------------------------------------
\* The place of the logout is none of the others.
LEMMA ExitApart == Exit \notin Ids /\ Callers = Ids \cup {Exit} /\ Nobody \notin Operators
BY ConsoleAssumption DEF Exit, Callers

\* Requests are calls.
LEMMA RequestTypes ==
  /\ NoCall \in Call
  /\ \A k \in LoginKinds \cup WorkKinds \cup {"none", "logout"}, p \in Pages \cup {Nowhere},
        who \in Operators \cup {Nobody}, n \in Nat :
       /\ Request(k, p, who, n) \in Call
       /\ Request(k, p, who, n) =
            [kind |-> k, page |-> p, by |-> who, sid |-> n, ok |-> FALSE]
<1>1. NoCall \in Call
  BY DEF NoCall, Call
<1>2. ASSUME NEW k \in LoginKinds \cup WorkKinds \cup {"none", "logout"},
             NEW p \in Pages \cup {Nowhere},
             NEW who \in Operators \cup {Nobody}, NEW n \in Nat
      PROVE  /\ Request(k, p, who, n) \in Call
             /\ Request(k, p, who, n) =
                  [kind |-> k, page |-> p, by |-> who, sid |-> n, ok |-> FALSE]
  <2>1. Request(k, p, who, n) =
          [kind |-> k, page |-> p, by |-> who, sid |-> n, ok |-> FALSE]
    BY DEF Request, NoCall
  <2>2. [kind |-> k, page |-> p, by |-> who, sid |-> n, ok |-> FALSE] \in Call
    BY DEF Call
  <2> QED
    BY <2>1, <2>2
<1> QED
  BY <1>1, <1>2

\* The first page of an operator is one of the navigation's, or none.
LEMMA InitialPageOffered ==
  ASSUME NEW who
  PROVE  InitialPage(who) \in (Offered(who) \cup {Nowhere}) \cap (Pages \cup {Nowhere})
<1>1. CASE Has(who, "SUPPORT")
  BY <1>1 DEF InitialPage, Offered, Pages
<1>2. CASE ~Has(who, "SUPPORT") /\ Has(who, "DISPUTE")
  BY <1>2 DEF InitialPage, Offered, Pages
<1>3. CASE ~Has(who, "SUPPORT") /\ ~Has(who, "DISPUTE") /\ Has(who, "MODERATION")
  BY <1>3 DEF InitialPage, Offered, Pages
<1>4. CASE ~Has(who, "SUPPORT") /\ ~Has(who, "DISPUTE") /\ ~Has(who, "MODERATION")
  BY <1>4 DEF InitialPage, Offered, Pages
<1> QED
  BY <1>1, <1>2, <1>3, <1>4

\* A page that has been opened belongs to nobody.
LEMMA InitOwned == Init => Owned
<1> SUFFICES ASSUME Init PROVE Owned
  OBVIOUS
<1>1. /\ Request("boot", Nowhere, Nobody, 0) \in Call
      /\ Request("boot", Nowhere, Nobody, 0) =
           [kind |-> "boot", page |-> Nowhere, by |-> Nobody, sid |-> 0, ok |-> FALSE]
  BY RequestTypes DEF LoginKinds
<1>2. /\ \A c \in Callers : calls[c] = IF c = First THEN Request("boot", Nowhere, Nobody, 0)
                                       ELSE NoCall
      /\ calls \in [Callers -> Call]
  BY <1>1, RequestTypes DEF Init
<1>6. TypeOK
  <2>1. shown \in [Slots -> Operators \cup {Nobody}]
    BY DEF Init, Blank
  <2>2. issued \in Seq(Operators) /\ Len(issued) = 0 /\ cookie \in 0 .. Len(issued)
    BY DEF Init
  <2>3. live \subseteq 1 .. Len(issued)
    BY DEF Init
  <2> QED
    BY <1>2, <2>1, <2>2, <2>3 DEF Init, TypeOK
<1>3. \A c \in Ids : CallFits(c)
  BY <1>1, <1>2, ExitApart DEF Init, CallFits, NoCall, WorkKinds, LoginCalls
<1>4. ExitFits
  BY <1>1, <1>2, ExitApart, ConsoleAssumption DEF Init, ExitFits, NoCall, First, Exit
<1>5. PageFits /\ ShownFits
  BY <1>2, ExitApart DEF Init, PageFits, ShownFits, Blank, Away
<1> QED
  BY <1>3, <1>4, <1>5, <1>6 DEF Owned

-----------------------------------------------------------------------------
(* What each kind of step keeps. *)

\* A reset leaves an empty page and no request.
LEMMA ResetKeeps ==
  ASSUME Owned, Forget, calls' = [c \in Callers |-> NoCall], step' = "phone",
         cookie' \in 0 .. Len(issued), UNCHANGED server
  PROVE  Owned'
<1> USE ExitApart, RequestTypes DEF Owned
<1>1. TypeOK'
  BY DEF TypeOK, Forget, server, Blank
<1>2. \A c \in Ids : CallFits(c)'
  BY DEF CallFits, NoCall, server, TypeOK, WorkKinds, LoginCalls
<1>3. ExitFits'
  BY DEF ExitFits, NoCall, server, TypeOK
<1>4. PageFits' /\ ShownFits'
  BY DEF PageFits, ShownFits, Forget, Blank, Away
<1> QED
  BY <1>1, <1>2, <1>3, <1>4

\* The cookies a browser may be left with were given out.
LEMMA CookiesExist == Owned => CookiesLeft \subseteq 0 .. Len(issued)
<1> SUFFICES ASSUME Owned PROVE CookiesLeft \subseteq 0 .. Len(issued)
  OBVIOUS
<1>1. \A c \in Ids : calls[c].sid \in 0 .. Len(issued)
  BY ExitApart DEF Owned, CallFits, TypeOK, Call
<1>2. cookie \in 0 .. Len(issued) /\ 0 \in 0 .. Len(issued)
  BY DEF Owned, TypeOK
<1> QED
  BY <1>1, <1>2 DEF CookiesLeft, StepUpCookies

\* The answer of a logout, a refused command and a reload of the page.
LEMMA LeavingKeeps ==
  ASSUME Owned, LogoutAnswered \/ Reload \/ \E c \in Ids : WorkDenied(c)
  PROVE  Owned'
<1>1. CASE LogoutAnswered \/ \E c \in Ids : WorkDenied(c)
  BY <1>1, CookiesExist, ResetKeeps DEF LogoutAnswered, WorkDenied, ResetToLogin
<1>2. CASE Reload
  <2> USE ExitApart, RequestTypes DEF Owned
  <2> DEFINE boot == Request("boot", Nowhere, Nobody, cookie')
  <2>1. /\ cookie' \in 0 .. Len(issued) /\ UNCHANGED server /\ Len(issued) \in Nat
        /\ Forget /\ step' = "loading"
        /\ calls' = [c \in Callers |-> IF c = First THEN boot ELSE NoCall]
    BY <1>2, CookiesExist DEF Reload, TypeOK
  <2>2. boot \in Call /\ boot = [kind |-> "boot", page |-> Nowhere, by |-> Nobody,
                                 sid |-> cookie', ok |-> FALSE]
    BY <2>1 DEF Request, Call, LoginKinds
  <2> HIDE DEF boot
  <2>3. TypeOK'
    BY <2>1, <2>2 DEF TypeOK, Forget, server, Blank
  <2>4. \A c \in Ids : CallFits(c)'
    BY <2>1, <2>2 DEF CallFits, NoCall, server, WorkKinds, LoginCalls
  <2>5. ExitFits'
    BY <2>1, <2>2, ConsoleAssumption DEF ExitFits, NoCall, server, First, Exit
  <2>6. PageFits' /\ ShownFits'
    BY <2>1 DEF PageFits, ShownFits, Forget, Blank, Away
  <2> QED
    BY <2>3, <2>4, <2>5, <2>6
<1> QED
  BY <1>1, <1>2

\* Requests the operator sends at a login step, and what is typed or chosen.
LEMMA TypingKeeps ==
  ASSUME Owned, ChooseFiles \/ \E who \in Operators : TypePhone(who)
  PROVE  Owned'
<1> USE ExitApart DEF Owned
<1>1. CASE ChooseFiles
  <2>1. shown' = [shown EXCEPT !["files"] = session] /\ step = "ready"
        /\ UNCHANGED <<step, page, phone, token, session, armed, calls, cookie, issued, live>>
    BY <1>1 DEF ChooseFiles, server
  <2>4. \A c \in Ids : CallFits(c)'
    BY <2>1 DEF CallFits
  <2>5. TypeOK'
    BY <2>1 DEF TypeOK
  <2>2. TypeOK' /\ (\A c \in Ids : CallFits(c)') /\ ExitFits' /\ PageFits'
    BY <2>1, <2>4, <2>5 DEF ExitFits, PageFits
  <2>3. ShownFits'
    BY <2>1 DEF ShownFits, TypeOK, Away
  <2> QED
    BY <2>2, <2>3
<1>2. ASSUME NEW who \in Operators, TypePhone(who) PROVE Owned'
  <2>1. phone' = who /\ step = "phone"
        /\ UNCHANGED <<step, page, token, session, shown, armed, calls, cookie, issued, live>>
    BY <1>2 DEF TypePhone, server
  <2>2. \A c \in Ids : CallFits(c)'
    BY <2>1 DEF CallFits, Away, LoginCalls, WorkKinds
  <2> QED
    BY <2>1, <2>2 DEF TypeOK, ExitFits, PageFits, ShownFits, Away
<1> QED
  BY <1>1, <1>2

\* The button and the timer send a logout.
LEMMA QuitKeeps ==
  ASSUME Owned, Quit \/ SessionTimer
  PROVE  Owned'
<1> USE ExitApart DEF Owned
<1>1. /\ UNCHANGED <<step, page, phone, token, session, shown, cookie, issued, live>>
      /\ armed' \in BOOLEAN /\ SendLogout
  BY DEF Quit, SessionTimer, memory, server, TypeOK
<1>2. /\ calls' \in [Callers -> Call] /\ \A c \in Ids : calls'[c] = calls[c]
      /\ calls'[Exit].kind = "logout" /\ calls'[Exit].sid <= Len(issued)
  BY <1>1 DEF SendLogout, Request, TypeOK, Call, ExitFits
<1> QED
  BY <1>1, <1>2 DEF TypeOK, CallFits, ExitFits, PageFits, ShownFits

\* Requests that end, and nothing else.
LEMMA DoneKeeps ==
  ASSUME Owned, NEW c \in Ids, Done(c), calls[c].kind # "boot",
         UNCHANGED <<step, page, phone, token, session, shown, cookie, issued, live>>,
         armed' \in BOOLEAN
  PROVE  Owned'
<1> USE ExitApart DEF Owned
<1>1. calls' = [calls EXCEPT ![c] = NoCall] /\ calls' \in [Callers -> Call]
  BY RequestTypes DEF Done, TypeOK
<1>2. \A k \in Ids : CallFits(k)'
  BY <1>1 DEF CallFits, NoCall, TypeOK, WorkKinds, LoginCalls
<1>3. PageFits' /\ ExitFits' /\ ShownFits' /\ TypeOK'
  BY <1>1 DEF PageFits, ExitFits, ShownFits, TypeOK
<1> QED
  BY <1>2, <1>3

\* A request that begins, or is followed by another one, keeps the page's owner if it fits.
LEMMA CallKeeps ==
  ASSUME Owned, NEW c \in Ids, NEW r \in Call, calls' = [calls EXCEPT ![c] = r],
         UNCHANGED <<phone, token, session, shown, cookie, issued, live>>,
         armed' \in BOOLEAN, step' \in {"loading", "phone", "otp", "mfa", "ready"},
         step \notin Away => step' \notin Away, step = "phone" => step' # "loading",
         step' \in Away => step' = step,
         step # "loading", page' \in Pages \cup {Nowhere},
         step' = "ready" => page' \in Offered(session) \cup {Nowhere},
         CallFits(c)'
  PROVE  Owned'
<1> USE ExitApart DEF Owned
<1>1. \A k \in Ids : calls'[k] = IF k = c THEN r ELSE calls[k]
  BY DEF TypeOK
<1>2. \A k \in Ids : CallFits(k)'
  <2> SUFFICES ASSUME NEW k \in Ids, k # c PROVE CallFits(k)'
    OBVIOUS
  <2>1. calls'[k] = calls[k] /\ CallFits(k)
    BY <1>1
  <2> QED
    BY <2>1 DEF CallFits, Away
<1>3. TypeOK' /\ ExitFits'
  BY DEF TypeOK, ExitFits
<1>4. PageFits' /\ ShownFits'
  BY DEF PageFits, ShownFits, Away
<1> QED
  BY <1>2, <1>3, <1>4

\* submit sends what the login step asks for, for the operator typed in.
LEMMA SubmitKeeps ==
  ASSUME Owned, NEW c \in Ids, Submit(c)
  PROVE  Owned'
<1> USE ExitApart
<1>1. PICK r \in Submitted : calls' = [calls EXCEPT ![c] = r]
  BY DEF Submit
<1>2. UNCHANGED <<step, page, phone, token, session, shown, armed, cookie, issued, live>>
  BY DEF Submit, memory, server
<1>3. /\ r \in Call /\ r.sid = cookie /\ ~r.ok /\ step \in {"phone", "otp", "mfa"}
      /\ r.kind \in {"otp", "verify", "stepup"} /\ r.by = phone /\ phone # Nobody
      /\ r.kind # "otp" => step \notin Away
  <2>1. cookie \in Nat /\ phone \in Operators \cup {Nobody} /\ token \in {Nobody, phone}
    BY DEF Owned, TypeOK, PageFits
  <2>2. \/ r = Request("otp", Nowhere, phone, cookie) /\ phone # Nobody /\ step = "phone"
        \/ r = Request("verify", Nowhere, phone, cookie) /\ phone # Nobody /\ step = "otp"
        \/ r = Request("stepup", Nowhere, token, cookie) /\ token # Nobody /\ step = "mfa"
    BY <1>1 DEF Submitted
  <2>3. r \in Call /\ r.sid = cookie /\ ~r.ok
    <3>1. \A k \in {"otp", "verify", "stepup"}, who \in Operators \cup {Nobody} :
            Request(k, Nowhere, who, cookie) \in Call
      BY <2>1, RequestTypes DEF LoginKinds
    <3> QED
      BY <2>1, <2>2, <3>1 DEF Request
  <2>4. r.kind \in {"otp", "verify", "stepup"} /\ r.by = phone /\ phone # Nobody
    BY <2>1, <2>2 DEF Request
  <2>5. r.kind # "otp" => step \notin Away
    BY <2>2 DEF Request, Away
  <2> QED
    BY <2>2, <2>3, <2>4, <2>5
<1>4. CallFits(c)'
  <2>1. calls'[c] = r
    BY <1>1 DEF Owned, TypeOK
  <2> QED
    BY <1>2, <1>3, <2>1 DEF CallFits, Owned, TypeOK, WorkKinds, LoginCalls, Away
<1> QED
  BY <1>1, <1>2, <1>3, <1>4, CallKeeps DEF Owned, TypeOK, PageFits, Away

\* A call of the work that is made for the operator shown, with the browser's cookie, fits.
LEMMA WorkFits ==
  ASSUME Owned, NEW c \in Ids, NEW r \in Call, calls' = [calls EXCEPT ![c] = r],
         UNCHANGED <<phone, token, session, shown, cookie, issued, live, step>>,
         armed' \in BOOLEAN, page' \in Pages \cup {Nowhere},
         step = "ready" => page' \in Offered(session) \cup {Nowhere},
         Works(r), session # Nobody, step \notin Away
  PROVE  Owned'
<1>1. calls'[c] = r
  BY ExitApart DEF Owned, TypeOK
<1>2. CallFits(c)'
  BY <1>1 DEF CallFits, Works, Owned, TypeOK, PageFits, WorkKinds, LoginCalls
<1> QED
  BY <1>2, CallKeeps DEF Owned, TypeOK, Away

\* The operator opens a page or gives a command.
LEMMA CommandKeeps ==
  ASSUME Owned, NEW c \in Ids,
         (\E p \in Pages : OpenPage(c, p)) \/ (\E k \in WorkKinds : Command(c, k))
  PROVE  Owned'
<1>1. ASSUME NEW p \in Pages, OpenPage(c, p) PROVE Owned'
  <2> DEFINE r == Request("load", p, session, cookie)
  <2>1. r \in Call /\ Works(r)
    BY DEF Works, Request, Call, WorkKinds, Owned, TypeOK
  <2>2. /\ calls' = [calls EXCEPT ![c] = r]
        /\ UNCHANGED <<phone, token, session, shown, cookie, issued, live, step, armed>>
        /\ page' = p /\ p \in Offered(session) /\ session # Nobody /\ step = "ready"
    BY <1>1 DEF OpenPage, server
  <2> HIDE DEF r
  <2> QED
    BY <2>1, <2>2, WorkFits DEF Owned, TypeOK, Away
<1>2. ASSUME NEW k \in WorkKinds, Command(c, k) PROVE Owned'
  <2> DEFINE r == Request(k, Reloads(k), session, cookie)
  <2>1. r \in Call /\ Works(r)
    BY DEF Works, Request, Call, Owned, TypeOK, Reloads
  <2>2. /\ calls' = [calls EXCEPT ![c] = r]
        /\ UNCHANGED <<phone, token, session, shown, cookie, issued, live, step, armed, page>>
        /\ session # Nobody /\ step = "ready"
    BY <1>2 DEF Command, server, memory
  <2> HIDE DEF r
  <2> QED
    BY <2>1, <2>2, WorkFits DEF Owned, TypeOK, PageFits, Away
<1> QED
  BY <1>1, <1>2

\* An answer to a request of the work comes from the session of the operator shown.
LEMMA WorkAnswerKeeps ==
  ASSUME Owned, NEW c \in Ids, WorkAnswered(c)
  PROVE  Owned'
<1> USE ExitApart
<1>1. /\ calls[c].kind \in WorkKinds /\ calls[c].by = session /\ session # Nobody
      /\ step \notin Away /\ Owner(c) = session /\ calls[c].page \in Pages \cup {Nowhere}
  BY DEF Owned, CallFits, WorkAnswered, Owner, TypeOK, Call
<1>2. UNCHANGED <<step, page, phone, token, session, armed, cookie, issued, live>>
  BY DEF WorkAnswered, server
<1>3. /\ \/ Done(c)
         \/ \E k \in {"load", "message", "refresh"} : Go(c, k)
      /\ \/ UNCHANGED shown
         \/ \E slot \in Slots, who \in {Nobody, session} : Show(slot, who)
         \/ \E q \in Pages \cup {Nowhere} : shown' = Loaded(q, session)
  <2>1. AfterWork(c)
    BY DEF WorkAnswered
  <2>2. CASE calls[c].kind = "load"
    BY <1>1, <2>1, <2>2 DEF AfterWork
  <2>3. CASE calls[c].kind \in {"act", "upload"}
    BY <1>1, <2>1, <2>3 DEF AfterWork
  <2>4. CASE calls[c].kind \in {"message", "refresh"}
    BY <1>1, <2>1, <2>4 DEF AfterWork, Slots
  <2>5. CASE calls[c].kind \in {"thread", "context", "open"}
    BY <1>1, <2>1, <2>5 DEF AfterWork, Slots
  <2> QED
    BY <1>1, <2>2, <2>3, <2>4, <2>5 DEF WorkKinds
\* What is shown afterwards is the operator's.
<1>4. shown' \in [Slots -> {Nobody, session}] /\ session \in Operators
  <2>1. shown \in [Slots -> {Nobody, session}] /\ session \in Operators
    BY <1>1 DEF Owned, TypeOK, ShownFits
  <2> QED
    BY <1>3, <2>1 DEF Show, Loaded
<1>5. \E r \in Call : /\ calls' = [calls EXCEPT ![c] = r]
                      /\ r = NoCall \/ Works(r)
  <2>1. CASE Done(c)
    BY <2>1, RequestTypes DEF Done
  <2>2. ASSUME NEW k \in {"load", "message", "refresh"}, Go(c, k)
        PROVE  \E r \in Call : /\ calls' = [calls EXCEPT ![c] = r]
                               /\ Works(r)
    <3> DEFINE r == Request(k, calls[c].page, calls[c].by, cookie)
    <3>1. calls' = [calls EXCEPT ![c] = r]
      BY <2>2 DEF Go
    <3>2. r \in Call /\ Works(r)
      BY <1>1, <1>4 DEF Works, Request, Call, WorkKinds, Owned, TypeOK
    <3> QED
      BY <3>1, <3>2
  <2> QED
    BY <1>3, <2>1, <2>2
<1>6. PICK r \in Call : /\ calls' = [calls EXCEPT ![c] = r]
                        /\ r = NoCall \/ Works(r)
  BY <1>5
<1>7. \A k \in Ids : calls'[k] = IF k = c THEN r ELSE calls[k]
  BY <1>6 DEF Owned, TypeOK
<1>8. CallFits(c)'
  <2>1. calls'[c] = r
    BY <1>7
  <2>2. CASE r = NoCall
    BY <1>2, <2>1, <2>2 DEF CallFits, NoCall, Owned, TypeOK, WorkKinds, LoginCalls
  <2>3. CASE r # NoCall
    BY <1>1, <1>2, <1>6, <2>1, <2>3
       DEF CallFits, Works, Owned, TypeOK, PageFits, WorkKinds, LoginCalls
  <2> QED
    BY <2>2, <2>3
<1>9. \A k \in Ids : CallFits(k)'
  <2> SUFFICES ASSUME NEW k \in Ids, k # c PROVE CallFits(k)'
    BY <1>8
  <2>1. calls'[k] = calls[k] /\ CallFits(k)
    BY <1>7 DEF Owned
  <2> QED
    BY <1>2, <2>1 DEF CallFits
<1>10. TypeOK' /\ ExitFits'
  BY <1>2, <1>4, <1>6 DEF TypeOK, ExitFits, Owned
<1>11. PageFits' /\ ShownFits'
  BY <1>1, <1>2, <1>4, <1>6 DEF PageFits, ShownFits, Away, Owned
<1> QED
  BY <1>9, <1>10, <1>11 DEF Owned

\* The profile that is shown belongs to the operator who is signing in, if there is one.
LEMMA EnterKeeps ==
  ASSUME Owned, NEW c \in Ids, calls[c].kind \in {"boot", "who"}, calls[c].ok,
         Enter(c), UNCHANGED server
  PROVE  Owned'
<1> USE ExitApart
<1> DEFINE who == issued[calls[c].sid]
           loads == InitialPage(who) # Nowhere /\ (step # "ready" \/ page # InitialPage(who))
           r == IF loads THEN Request("load", InitialPage(who), who, cookie) ELSE NoCall
<1>1. /\ session' = who /\ page' = InitialPage(who) /\ token' = Nobody
      /\ step' = "ready" /\ armed' = TRUE
      /\ calls' = [calls EXCEPT ![c] = r]
      /\ UNCHANGED <<phone, shown, cookie, issued, live>>
  BY DEF Enter, server
<1>2. calls[c].sid \in 1 .. Len(issued) /\ who \in Operators /\ cookie \in 0 .. Len(issued)
  <2>1. calls[c].sid \in Nat /\ calls[c].sid <= Len(issued) /\ calls[c].sid # 0
    BY DEF Owned, TypeOK, CallFits, Call
  <2> QED
    BY <2>1 DEF Owned, TypeOK
\* Whose session is shown before, whose request brings the profile, and whose cookie it is.
<1>3. /\ calls[c].kind = "who" => phone = who /\ session \in {Nobody, who} /\ issued[cookie] = who
      /\ calls[c].kind = "boot" =>
           /\ phone = Nobody /\ session = Nobody /\ issued[cookie] = who
           /\ \A k \in Ids \ {c} : calls[k] = NoCall
  <2>1. CASE calls[c].kind = "who"
    BY <1>2, <2>1 DEF Owned, CallFits, PageFits, LoginCalls
  <2>2. CASE calls[c].kind = "boot"
    BY <1>2, <2>2 DEF Owned, CallFits, PageFits, Away
  <2> QED
    BY <2>1, <2>2
<1>4. r \in Call /\ (r = NoCall \/ (/\ r.kind = "load" /\ ~r.ok /\ r.by = who /\ r.sid = cookie))
  <2>1. Request("load", InitialPage(who), who, cookie) \in Call
    BY <1>2, InitialPageOffered DEF Request, Call, WorkKinds
  <2> QED
    BY <2>1, RequestTypes DEF Request
<1>5. InitialPage(who) \in Offered(who) \cup {Nowhere} /\ InitialPage(who) \in Pages \cup {Nowhere}
  BY InitialPageOffered
<1> HIDE DEF who, r, loads
<1>6. \A k \in Ids : calls'[k] = IF k = c THEN r ELSE calls[k]
  BY <1>1 DEF Owned, TypeOK
<1>7. CallFits(c)'
  <2>1. calls'[c] = r
    BY <1>6
  <2>2. CASE r = NoCall
    BY <1>1, <1>2, <2>1, <2>2 DEF CallFits, NoCall, Owned, TypeOK, WorkKinds, LoginCalls
  <2>3. CASE r # NoCall
    BY <1>1, <1>2, <1>3, <1>4, <2>1, <2>3 DEF CallFits, Owned, TypeOK, WorkKinds, LoginCalls, Away
  <2> QED
    BY <2>2, <2>3
<1>8. ASSUME NEW k \in Ids, k # c PROVE CallFits(k)'
  <2>1. calls'[k] = calls[k] /\ CallFits(k)
    BY <1>6, <1>8 DEF Owned
  <2>2. CASE calls[c].kind = "who"
    <3>1. step \notin Away
      BY <2>2 DEF Owned, CallFits, LoginCalls
    <3> QED
      BY <1>1, <1>2, <1>3, <2>1, <2>2, <3>1 DEF CallFits, Away, WorkKinds, LoginCalls
  <2>3. CASE calls[c].kind = "boot"
    BY <1>1, <1>2, <1>3, <1>8, <2>1, <2>3 DEF CallFits, NoCall, Owned, TypeOK, WorkKinds, LoginCalls
  <2> QED
    BY <2>2, <2>3
<1>9. TypeOK' /\ ExitFits'
  BY <1>1, <1>2, <1>4, <1>5 DEF TypeOK, ExitFits, Owned
<1>10. PageFits'
  BY <1>1, <1>3, <1>5 DEF PageFits, Away
<1>11. ShownFits'
  BY <1>1, <1>3 DEF ShownFits, Away, Owned
<1> QED
  BY <1>7, <1>8, <1>9, <1>10, <1>11 DEF Owned

\* Answers of the login, and requests of it that fail.
LEMMA LoginKeeps ==
  ASSUME Owned, NEW c \in Ids, LoginAnswered(c) \/ LoginFails(c)
  PROVE  Owned'
<1> USE ExitApart
<1>1. CASE LoginFails(c)
  <2>1. /\ UNCHANGED <<armed, cookie, page, phone, token, session, shown, issued, live>>
        /\ Done(c) /\ step' = IF calls[c].kind = "boot" THEN "phone" ELSE step
    BY <1>1 DEF LoginFails, memory, server
  <2>2. CASE calls[c].kind # "boot"
    BY <2>1, <2>2, DoneKeeps DEF Owned, TypeOK
  <2>3. CASE calls[c].kind = "boot"
    <3>1. step = "loading" /\ step' = "phone" /\ \A k \in Ids \ {c} : calls[k] = NoCall
      BY <2>1, <2>3 DEF Owned, CallFits, PageFits
    <3>2. \A k \in Ids : calls'[k] = NoCall
      BY <2>1, <3>1 DEF Done, Owned, TypeOK
    <3>3. \A k \in Ids : CallFits(k)'
      BY <2>1, <3>2 DEF CallFits, NoCall, Owned, TypeOK, WorkKinds, LoginCalls
    <3>4. TypeOK' /\ ExitFits'
      BY <2>1, <3>1, RequestTypes DEF TypeOK, ExitFits, Owned, Done
    <3>5. PageFits' /\ ShownFits'
      BY <2>1, <3>1 DEF PageFits, ShownFits, Owned, Away
    <3> QED
      BY <3>3, <3>4, <3>5 DEF Owned
  <2> QED
    BY <2>2, <2>3
<1>2. CASE LoginAnswered(c) /\ calls[c].kind \in {"boot", "who"}
  <2>1. Enter(c) /\ UNCHANGED server /\ calls[c].ok
    BY <1>2 DEF LoginAnswered, AfterLogin
  <2> QED
    BY <1>2, <2>1, EnterKeeps
<1>3. CASE LoginAnswered(c) /\ calls[c].kind = "otp"
  <2>1. /\ UNCHANGED <<cookie, page, phone, token, session, shown, issued, live>>
        /\ Done(c) /\ step' = "otp" /\ armed' = FALSE
    BY <1>3 DEF LoginAnswered, AfterLogin, ShowStep, memory, server
  <2>2. step # "loading" /\ CallFits(c)
    BY <1>3 DEF Owned, CallFits
  <2>3. NoCall \in Call /\ calls' = [calls EXCEPT ![c] = NoCall] /\ calls'[c] = NoCall
    BY <2>1, RequestTypes DEF Done, Owned, TypeOK
  <2>4. CallFits(c)'
    BY <2>1, <2>3 DEF CallFits, NoCall, Owned, TypeOK, WorkKinds, LoginCalls
  <2> QED
    BY <2>1, <2>2, <2>3, <2>4, CallKeeps DEF Owned, TypeOK, Away
<1>4. CASE LoginAnswered(c) /\ calls[c].kind = "verify"
  <2>1. /\ UNCHANGED <<cookie, page, phone, session, shown, issued, live>>
        /\ Done(c) /\ step' = "mfa" /\ armed' = FALSE /\ token' = calls[c].by
    BY <1>4 DEF LoginAnswered, AfterLogin, ShowStep, server
  <2>2. step \notin Away /\ calls[c].by = phone /\ phone # Nobody
    BY <1>4 DEF Owned, CallFits, LoginCalls
  <2>3. NoCall \in Call /\ \A k \in Ids : calls'[k] = IF k = c THEN NoCall ELSE calls[k]
    BY <2>1, RequestTypes DEF Done, Owned, TypeOK
  <2>4. CallFits(c)'
    BY <2>1, <2>3 DEF CallFits, NoCall, Owned, TypeOK, WorkKinds, LoginCalls
  <2>5. ASSUME NEW k \in Ids, k # c PROVE CallFits(k)'
    <3>1. calls'[k] = calls[k] /\ CallFits(k)
      BY <2>3, <2>5 DEF Owned
    <3> QED
      BY <2>1, <2>2, <3>1 DEF CallFits, Away
  <2>6. TypeOK' /\ ExitFits'
    BY <2>1, <2>2, <2>3 DEF TypeOK, ExitFits, Owned, Done
  <2>7. PageFits' /\ ShownFits'
    BY <2>1, <2>2 DEF PageFits, ShownFits, Owned, Away
  <2> QED
    BY <2>4, <2>5, <2>6, <2>7 DEF Owned
<1>5. CASE LoginAnswered(c) /\ calls[c].kind = "stepup"
  <2> DEFINE r == Request("who", Nowhere, calls[c].by, calls[c].sid)
  <2>1. /\ UNCHANGED <<step, armed, page, phone, token, session, shown, issued, live>>
        /\ cookie' = calls[c].sid /\ calls' = [calls EXCEPT ![c] = r]
    BY <1>5 DEF LoginAnswered, AfterLogin, memory, server
  <2>2. /\ step \notin Away /\ calls[c].by = phone /\ phone # Nobody
        /\ calls[c].sid # 0 /\ issued[calls[c].sid] = phone
        /\ calls[c].sid \in Nat /\ calls[c].sid <= Len(issued) /\ phone \in Operators
    BY <1>5 DEF Owned, CallFits, LoginCalls, TypeOK, Call, LoginAnswered
  <2>3. /\ r \in Call /\ r.kind = "who" /\ ~r.ok /\ r.by = phone /\ r.sid = calls[c].sid
    BY <2>2 DEF Request, Call, LoginKinds
  <2> HIDE DEF r
  <2>4. \A k \in Ids : calls'[k] = IF k = c THEN r ELSE calls[k]
    BY <2>1 DEF Owned, TypeOK
  <2>5. CallFits(c)'
    <3>1. calls'[c] = r
      BY <2>4
    <3> QED
      BY <2>1, <2>2, <2>3, <3>1 DEF CallFits, WorkKinds, LoginCalls
  <2>6. ASSUME NEW k \in Ids, k # c PROVE CallFits(k)'
    <3>1. calls'[k] = calls[k] /\ CallFits(k)
      BY <2>4, <2>6 DEF Owned
    <3> QED
      BY <2>1, <2>2, <3>1 DEF CallFits, Away
  <2>7. TypeOK' /\ ExitFits'
    BY <2>1, <2>2, <2>3 DEF TypeOK, ExitFits, Owned
  <2>8. PageFits' /\ ShownFits'
    BY <2>1, <2>2 DEF PageFits, ShownFits, Owned, Away
  <2> QED
    BY <2>5, <2>6, <2>7, <2>8 DEF Owned
<1> QED
  BY <1>1, <1>2, <1>3, <1>4, <1>5 DEF LoginAnswered, LoginKinds

\* The server accepts a request, and may open or end sessions; the page does not change.
LEMMA ServerKeeps ==
  ASSUME Owned,
         \/ \E c \in Ids : ServeLogin(c) \/ Serve(c)
         \/ ServeLogout
         \/ \E n \in live : EndSession(n)
  PROVE  Owned'
<1> USE ExitApart
<1>1. ASSUME NEW c \in Callers, Accept(c), live' \subseteq live,
             UNCHANGED <<step, armed, cookie, page, phone, token, session, shown, issued>>,
             calls[c].kind \in {"boot", "who"} \cup WorkKinds => calls[c].sid # 0,
             calls[c].kind \notin {"none", "stepup"}
      PROVE  Owned'
  <2>1. \A k \in Callers : calls'[k] = IF k = c THEN [calls[c] EXCEPT !.ok = TRUE] ELSE calls[k]
    BY <1>1 DEF Accept, Owned, TypeOK
  <2>2. [calls[c] EXCEPT !.ok = TRUE] \in Call
    <3>1. calls[c] \in Call
      BY DEF Owned, TypeOK
    <3> HIDE DEF Owned
    <3> QED BY <3>1 DEF Call
  <2>3. \A k \in Callers : /\ calls'[k].kind = calls[k].kind /\ calls'[k].sid = calls[k].sid
                           /\ calls'[k].by = calls[k].by
                           /\ calls'[k].ok => calls[k].ok \/ k = c
    BY <2>1 DEF Owned, TypeOK, Call
  <2>4. \A k \in Ids : CallFits(k)'
    BY <1>1, <2>3 DEF CallFits, Owned
  <2>5. TypeOK' /\ ExitFits'
    <3>1. calls' \in [Callers -> Call]
      BY <1>1, <2>2 DEF Accept, Owned, TypeOK
    <3>2. TypeOK'
      BY <1>1, <3>1 DEF TypeOK, Owned
    <3>3. calls'[Exit] = calls[Exit] \/ calls[Exit].kind # "none"
      BY <1>1, <2>1
    <3> QED
      BY <1>1, <2>3, <3>2, <3>3 DEF ExitFits, Owned, NoCall
  <2>6. PageFits' /\ ShownFits'
    <3>1. ASSUME step = "loading", NEW k \in Ids \ {First} PROVE calls'[k] = NoCall
      <4>1. calls[k] = NoCall
        BY <3>1 DEF Owned, PageFits
      <4>2. k # c
        BY <1>1, <4>1 DEF NoCall
      <4> QED
        BY <2>1, <4>1, <4>2
    <3> QED
      BY <1>1, <3>1 DEF PageFits, ShownFits, Owned, Away
  <2> QED
    BY <2>4, <2>5, <2>6 DEF Owned
<1>2. ASSUME NEW c \in Ids, Serve(c) PROVE Owned'
  <2>1. calls[c].sid \in live /\ calls[c].sid # 0
    BY <1>2 DEF Serve, Owned, TypeOK
  <2> QED
    BY <1>1, <1>2, <2>1 DEF Serve, Pending, WorkKinds, memory, server
<1>3. CASE ServeLogout
  <2>1. /\ Accept(Exit) /\ live' \subseteq live /\ Exit \in Callers
        /\ UNCHANGED <<step, armed, cookie, page, phone, token, session, shown, issued>>
    BY <1>3 DEF ServeLogout, memory
  <2>2. calls[Exit].kind = "logout"
    BY <1>3 DEF ServeLogout, Pending, ExitFits, Owned, NoCall
  <2> QED
    BY <1>1, <2>1, <2>2 DEF WorkKinds
<1>4. ASSUME NEW n \in live, EndSession(n) PROVE Owned'
  <2>1. /\ UNCHANGED <<step, armed, calls, cookie, issued, page, phone, token, session, shown>>
        /\ live' \subseteq live
    BY <1>4 DEF EndSession, memory
  <2>2. \A k \in Ids : CallFits(k)'
    BY <2>1 DEF CallFits, Owned
  <2>3. TypeOK'
    BY <2>1 DEF TypeOK, Owned
  <2> QED
    BY <2>1, <2>2, <2>3 DEF ExitFits, PageFits, ShownFits, Owned
<1>5. ASSUME NEW c \in Ids, ServeLogin(c) PROVE Owned'
  <2>1. CASE calls[c].kind # "stepup"
    BY <1>1, <1>5, <2>1 DEF ServeLogin, Pending, WorkKinds, memory, server
  <2>2. CASE calls[c].kind = "stepup"
    <3> DEFINE n == Len(issued) + 1
               r == [kind |-> "stepup", page |-> Nowhere, by |-> phone, sid |-> n, ok |-> TRUE]
    <3>1. /\ issued' = Append(issued, calls[c].by) /\ live' = live \cup {n} /\ ~calls[c].ok
          /\ calls' = [calls EXCEPT ![c] = [kind |-> "stepup", page |-> Nowhere, by |-> calls[c].by,
                                             sid |-> n, ok |-> TRUE]]
          /\ UNCHANGED <<step, armed, cookie, page, phone, token, session, shown>>
      BY <1>5, <2>2 DEF ServeLogin, Pending, memory
    <3>2. /\ calls[c].by = phone /\ phone \in Operators /\ step \notin Away /\ phone # Nobody
          /\ Len(issued) \in Nat /\ issued \in Seq(Operators) /\ calls[c] \in Call
      BY <2>2 DEF Owned, CallFits, LoginCalls, TypeOK
    <3>3. /\ r \in Call /\ r.sid = n /\ r.by = phone /\ r.kind = "stepup"
          /\ calls' = [calls EXCEPT ![c] = r]
      <4>1. r \in Call /\ r.sid = n /\ r.by = phone /\ r.kind = "stepup"
        BY <3>2 DEF Call, LoginKinds
      <4>2. calls' = [calls EXCEPT ![c] = r]
        BY <3>1, <3>2 DEF Owned, TypeOK
      <4> QED
        BY <4>1, <4>2
    <3>4. /\ issued' \in Seq(Operators) /\ Len(issued') = n /\ issued'[n] = phone
          /\ \A m \in Nat : m <= Len(issued) => m <= n /\ (m # 0 => issued'[m] = issued[m])
          /\ n \in Nat /\ n # 0
      BY <3>1, <3>2
    <3> HIDE DEF r, n
    <3>5. \A k \in Callers : calls'[k] = IF k = c THEN r ELSE calls[k]
      BY <3>3 DEF Owned, TypeOK
    <3>6. CallFits(c)'
      <4>1. calls'[c] = r
        BY <3>5
      <4> QED
        BY <3>1, <3>2, <3>3, <3>4, <4>1 DEF CallFits, LoginCalls, WorkKinds
    <3>7. ASSUME NEW k \in Ids, k # c PROVE CallFits(k)'
      <4>1. /\ calls'[k] = calls[k] /\ CallFits(k) /\ calls[k].sid \in Nat
            /\ cookie \in 0 .. Len(issued)
        BY <3>5, <3>7 DEF Owned, TypeOK, Call
      <4> QED
        BY <3>1, <3>2, <3>4, <4>1 DEF CallFits
    <3>8. TypeOK'
      <4>1. live' \subseteq 1 .. Len(issued') /\ cookie' \in 0 .. Len(issued')
        BY <3>1, <3>2, <3>4 DEF Owned, TypeOK
      <4>2. calls' \in [Callers -> Call]
        BY <3>3 DEF Owned, TypeOK
      <4>3. /\ step' \in {"loading", "phone", "otp", "mfa", "ready"}
            /\ page' \in Pages \cup {Nowhere}
            /\ phone' \in Operators \cup {Nobody} /\ token' \in Operators \cup {Nobody}
            /\ session' \in Operators \cup {Nobody}
            /\ shown' \in [Slots -> Operators \cup {Nobody}] /\ armed' \in BOOLEAN
        BY <3>1, <3>2 DEF Owned, TypeOK
      <4> QED
        BY <3>4, <4>1, <4>2, <4>3 DEF TypeOK
    <3>9. ExitFits'
      BY <3>2, <3>4, <3>5 DEF ExitFits, Owned, TypeOK, Call
    <3>10. PageFits' /\ ShownFits'
      BY <3>1, <3>2, <3>4 DEF PageFits, ShownFits, Owned, Away, TypeOK
    <3> QED
      BY <3>6, <3>7, <3>8, <3>9, <3>10 DEF Owned
  <2> QED
    BY <2>1, <2>2
<1> QED
  BY <1>2, <1>3, <1>4, <1>5

\* A request of the work that fails ends.
LEMMA WorkFailureKeeps ==
  ASSUME Owned, NEW c \in Ids, WorkFails(c)
  PROVE  Owned'
BY DoneKeeps DEF WorkFails, memory, server, WorkKinds, Owned, TypeOK

\* Every step keeps the page with its owner.
LEMMA StepOwned == Owned /\ [Next]_vars => Owned'
<1> SUFFICES ASSUME Owned, [Next]_vars PROVE Owned'
  OBVIOUS
<1>1. ASSUME NEW c \in Ids, Answered(c) PROVE Owned'
  BY <1>1, LoginKeeps, WorkAnswerKeeps, WorkFailureKeeps, LeavingKeeps DEF Answered
<1>2. ASSUME NEW c \in Ids, ServerStep(c) PROVE Owned'
  BY <1>2, ServerKeeps DEF ServerStep
<1>3. ASSUME NEW c \in Ids, Operator(c) PROVE Owned'
  BY <1>3, SubmitKeeps, CommandKeeps DEF Operator
<1>4. CASE ChooseFiles \/ \E who \in Operators : TypePhone(who)
  BY <1>4, TypingKeeps
<1>5. CASE Quit \/ SessionTimer
  BY <1>5, QuitKeeps
<1>6. CASE LogoutAnswered \/ Reload
  BY <1>6, LeavingKeeps
<1>7. CASE ServeLogout \/ \E n \in live : EndSession(n)
  BY <1>7, ServerKeeps
<1>8. CASE UNCHANGED vars
  <2>1. \A c \in Ids : CallFits(c)'
    BY <1>8 DEF CallFits, Owned, vars
  <2>2. TypeOK'
    BY <1>8 DEF TypeOK, Owned, vars
  <2> QED
    BY <1>8, <2>1, <2>2 DEF ExitFits, PageFits, ShownFits, Owned, vars
<1> QED
  BY <1>1, <1>2, <1>3, <1>4, <1>5, <1>6, <1>7, <1>8 DEF Next

-----------------------------------------------------------------------------
\* The inductive invariant: whatever answers come late, twice or after a loss, the page,
\* the requests under way and the browser's cookie belong to one operator.
THEOREM AlwaysOwned == Spec => []Owned
<1>1. Init => Owned
  BY InitOwned
<1>2. Owned /\ [Next]_vars => Owned'
  BY StepOwned
<1> QED
  BY <1>1, <1>2, PTL DEF Spec

\* What the page shows and what it sends is its operator's, and the login page holds nothing
\* (resetToLogin, the handlers' awaits and the one api client they share).
THEOREM MemoryIsKept == Spec => []MemoryIsTheSessions
<1>1. Owned => MemoryIsTheSessions
  BY DEF Owned, PageFits, ShownFits, CallFits, Away, MemoryIsTheSessions, ShownIsTheSessions,
         CommandsAreTheirs
<1> QED
  BY <1>1, AlwaysOwned, PTL

\* A page that shows a session times it or is leaving it.
THEOREM SessionIsAlwaysTimed == Spec => []SessionIsTimed
<1>1. Init => SessionIsTimed
  BY DEF Init, SessionIsTimed
<1>2. Owned /\ SessionIsTimed /\ [Next]_vars => SessionIsTimed'
  <2> SUFFICES ASSUME Owned, SessionIsTimed, [Next]_vars, step' = "ready"
               PROVE  armed' \/ calls'[Exit].kind = "logout"
    BY DEF SessionIsTimed
  <2> USE ExitApart DEF SessionIsTimed
  <2>1. ASSUME NEW c \in Ids, Answered(c) \/ ServerStep(c) \/ Operator(c)
        PROVE  armed' \/ calls'[Exit].kind = "logout"
    <3>1. CASE LoginAnswered(c) /\ calls[c].kind \in {"boot", "who"}
      BY <3>1 DEF LoginAnswered, AfterLogin, Enter
    <3>2. CASE LoginAnswered(c) /\ calls[c].kind \in {"otp", "verify"}
      BY <3>2 DEF LoginAnswered, AfterLogin, ShowStep
    <3>3. CASE WorkDenied(c)
      BY <3>3 DEF WorkDenied, ResetToLogin
    <3>4. CASE \/ LoginAnswered(c) /\ calls[c].kind = "stepup"
               \/ LoginFails(c) \/ WorkAnswered(c) \/ WorkFails(c)
      <4>1. armed' = armed /\ step = "ready"
        BY <3>4 DEF LoginAnswered, AfterLogin, LoginFails, WorkAnswered, WorkFails
      <4>2. calls'[Exit] = calls[Exit]
        BY <3>4 DEF LoginAnswered, AfterLogin, LoginFails, WorkAnswered, AfterWork, WorkFails,
                    Done, Go, Show, Owned, TypeOK, WorkKinds
      <4> QED
        BY <4>1, <4>2
    <3>5. CASE ServerStep(c) \/ Operator(c)
      <4>1. armed' = armed /\ step = "ready"
        BY <3>5 DEF ServerStep, ServeLogin, Serve, Operator, Submit, OpenPage, Command
      <4>2. calls'[Exit] = calls[Exit]
        BY <3>5 DEF ServerStep, ServeLogin, Serve, Operator, Submit, OpenPage, Command,
                    Accept, Owned, TypeOK
      <4> QED
        BY <4>1, <4>2
    <3> QED
      BY <2>1, <3>1, <3>2, <3>3, <3>4, <3>5 DEF Answered, LoginAnswered, LoginKinds
  <2>2. CASE Quit \/ SessionTimer
    BY <2>2 DEF Quit, SessionTimer, SendLogout, Request, Owned, TypeOK, ExitFits, NoCall
  <2>3. CASE LogoutAnswered \/ Reload
    BY <2>3 DEF LogoutAnswered, ResetToLogin, Reload
  <2>4. CASE ServeLogout
    <3>1. armed' = armed /\ step = "ready"
      BY <2>4 DEF ServeLogout
    <3>2. calls'[Exit].kind = calls[Exit].kind
      BY <2>4 DEF ServeLogout, Accept, Owned, TypeOK, Call
    <3> QED
      BY <3>1, <3>2
  <2>5. CASE \/ ChooseFiles \/ (\E who \in Operators : TypePhone(who))
             \/ (\E n \in live : EndSession(n)) \/ UNCHANGED vars
    BY <2>5 DEF ChooseFiles, TypePhone, EndSession, vars
  <2> QED
    BY <2>1, <2>2, <2>3, <2>4, <2>5 DEF Next
<1> QED
  BY <1>1, <1>2, AlwaysOwned, PTL DEF Spec

-----------------------------------------------------------------------------
(***************************************************************************)
(* The support desk: types.                                                *)
(***************************************************************************)

\* An entry of the operators' log, and a message.
Entry == [operator : Staff, act : Acts]
Post == [author : People, files : SUBSET Intents]

\* What the actor of a call is.
LEMMA Actors ==
  ASSUME DeskTypeOK, NEW c \in Calls
  PROVE  /\ call[c].pc = "verify" =>
              /\ call[c].actor \in People /\ call[c].files \subseteq Intents
              /\ call[c] \in [pc : {"verify"}, actor : People, left : SUBSET Intents,
                              files : SUBSET Intents]
         /\ call[c].pc \in {"assign", "reply", "close"} => call[c].actor \in Staff
<1>1. call[c] \in Work \cup {Idle}
  BY DEF DeskTypeOK
<1> QED
  BY <1>1 DEF Work, Idle

\* Nobody has served the ticket at the start.
LEMMA InitTypes == DeskInit => DeskTypeOK
<1> SUFFICES ASSUME DeskInit PROVE DeskTypeOK
  OBVIOUS
<1>1. ticket \in [status : Statuses, assignee : Staff \cup {NoOne},
                 respondedBy : Staff \cup {NoOne}]
  BY DEF DeskInit, Statuses
<1>2. thread \in Seq([author : People, files : SUBSET Intents]) /\ log \in Seq(Entry)
  BY DEF DeskInit
<1>3. call \in [Calls -> Work \cup {Idle}]
  BY DEF DeskInit
<1> QED
  BY <1>1, <1>2, <1>3 DEF DeskInit, DeskTypeOK, Entry

\* What a call goes on with is work, or nothing.
LEMMA GoTypes ==
  ASSUME DeskTypeOK, NEW c \in Calls, NEW work \in Work \cup {Idle}, Goto(c, work)
  PROVE  call' \in [Calls -> Work \cup {Idle}]
BY DEF DeskTypeOK, Goto

\* A call that has ended does nothing.
LEMMA EndTypes ==
  ASSUME DeskTypeOK, NEW c \in Calls, End(c)
  PROVE  call' \in [Calls -> Work \cup {Idle}]
BY GoTypes DEF End

\* What is written at the end of the thread, the log or the ticket.
LEMMA WriteTypes ==
  ASSUME DeskTypeOK
  PROVE  /\ thread \in Seq(Post) /\ log \in Seq(Entry)
         /\ \A post \in Post : Append(thread, post) \in Seq(Post)
         /\ \A entry \in Entry : Append(log, entry) \in Seq(Entry)
<1>1. thread \in Seq(Post) /\ log \in Seq(Entry)
  BY DEF DeskTypeOK, Post, Entry
<1> QED
  BY <1>1

\* Every step keeps the types.
LEMMA StepTypes == DeskTypeOK /\ [DeskNext]_deskVars => DeskTypeOK'
<1> SUFFICES ASSUME DeskTypeOK, [DeskNext]_deskVars PROVE DeskTypeOK'
  OBVIOUS
<1>1. ASSUME NEW c \in Calls, NEW actor \in People, NEW files \in SUBSET Intents,
             BeginMessage(c, actor, files)
      PROVE  DeskTypeOK'
  <2>1. [pc |-> "verify", actor |-> actor, left |-> files, files |-> files] \in Work
    BY DEF Work
  <2>2. call' \in [Calls -> Work \cup {Idle}]
    BY <1>1, <2>1, GoTypes DEF BeginMessage
  <2> QED
    BY <1>1, <2>2 DEF BeginMessage, DeskTypeOK
<1>2. ASSUME NEW c \in Calls, NEW operator \in Staff,
             BeginAssign(c, operator) \/ BeginReply(c, operator) \/ BeginClose(c, operator)
      PROVE  DeskTypeOK'
  <2>1. \A p \in {"assign", "reply", "close"} : [pc |-> p, actor |-> operator] \in Work
    BY DEF Work
  <2>2. call' \in [Calls -> Work \cup {Idle}]
    BY <1>2, <2>1, GoTypes DEF BeginAssign, BeginReply, BeginClose
  <2> QED
    BY <1>2, <2>2 DEF BeginAssign, BeginReply, BeginClose, DeskTypeOK
<1>3. ASSUME NEW c \in Calls, NEW i \in Intents, Verify(c, i) PROVE DeskTypeOK'
  <2>1. [call[c] EXCEPT !.left = @ \ {i}] \in Work
    BY <1>3, Actors DEF Verify, Work
  <2>2. call' \in [Calls -> Work \cup {Idle}]
    BY <1>3, <2>1, GoTypes, EndTypes DEF Verify
  <2> QED
    BY <1>3, <2>2 DEF Verify, DeskTypeOK
<1>4. ASSUME NEW c \in Calls, Send(c) PROVE DeskTypeOK'
  <2>1. call' \in [Calls -> Work \cup {Idle}]
    BY <1>4, EndTypes DEF Send
  <2>2. call[c].actor \in People /\ call[c].files \subseteq Intents
    BY <1>4, Actors DEF Send
  <2>3. [author |-> call[c].actor, files |-> call[c].files] \in Post
    BY <2>2 DEF Post
  <2>4. /\ thread' = thread
           \/ thread' = Append(thread, [author |-> call[c].actor, files |-> call[c].files])
        /\ intent' = intent
           \/ intent' = [i \in Intents |-> IF i \in call[c].files THEN "used" ELSE intent[i]]
    BY <1>4 DEF Send
  <2>8. thread' \in Seq(Post)
    BY <2>3, <2>4, WriteTypes
  <2>9. intent' \in [Intents -> {"open", "used", "expired"}]
    BY <2>4 DEF DeskTypeOK
  <2>5. call[c].actor \in Staff => [operator |-> call[c].actor, act |-> "message"] \in Entry
    BY DEF Entry, Acts
  <2>6. log' \in Seq(Entry)
    <3>1. log' = log \/ /\ call[c].actor \in Staff
                        /\ log' = Append(log, [operator |-> call[c].actor, act |-> "message"])
      BY <1>4 DEF Send, Record
    <3> QED
      BY <3>1, <2>5, WriteTypes
  <2>7. ticket' \in [status : Statuses, assignee : Staff \cup {NoOne},
                     respondedBy : Staff \cup {NoOne}]
    <3>1. ticket' = ticket
          \/ /\ call[c].actor \in Staff
             /\ ticket' = [ticket EXCEPT !.assignee = call[c].actor, !.status = "IN_PROGRESS"]
      BY <1>4 DEF Send
    <3> QED
      BY <3>1 DEF DeskTypeOK, Statuses
  <2> QED
    BY <1>4, <2>1, <2>8, <2>9, <2>6, <2>7 DEF Send, DeskTypeOK, Post, Entry
<1>5. ASSUME NEW c \in Calls, CommitAssign(c) \/ CommitReply(c) \/ CommitClose(c)
      PROVE  DeskTypeOK'
  <2>1. call' \in [Calls -> Work \cup {Idle}]
    BY <1>5, EndTypes DEF CommitAssign, CommitReply, CommitClose
  <2>2. call[c].actor \in Staff
    BY <1>5, Actors DEF CommitAssign, CommitReply, CommitClose
  <2>3. \A act \in Acts : [operator |-> call[c].actor, act |-> act] \in Entry
    BY <2>2 DEF Entry
  <2>4. log' \in Seq(Entry)
    <3>1. \/ log' = log
          \/ \E act \in Acts : log' = Append(log, [operator |-> call[c].actor, act |-> act])
      BY <1>5 DEF CommitAssign, CommitReply, CommitClose, Record, Acts
    <3> QED
      BY <3>1, <2>3, WriteTypes
  <2>5. [author |-> call[c].actor, files |-> {}] \in Post
    BY <2>2 DEF Post, People
  <2>6. thread' \in Seq(Post)
    <3>1. thread' = thread \/ thread' = Append(thread, [author |-> call[c].actor, files |-> {}])
      BY <1>5 DEF CommitAssign, CommitReply, CommitClose
    <3> QED
      BY <3>1, <2>5, WriteTypes
  <2>7. ticket' \in [status : Statuses, assignee : Staff \cup {NoOne},
                     respondedBy : Staff \cup {NoOne}]
    <3>1. CASE CommitAssign(c)
      BY <3>1, <2>2 DEF CommitAssign, DeskTypeOK, Statuses
    <3>2. CASE CommitReply(c)
      BY <3>2, <2>2 DEF CommitReply, DeskTypeOK, Statuses
    <3>3. CASE CommitClose(c)
      BY <3>3, <2>2 DEF CommitClose, DeskTypeOK, Statuses
    <3> QED
      BY <1>5, <3>1, <3>2, <3>3
  <2>8. keys' \subseteq {"first-reply", "closed"} /\ intent' = intent
    BY <1>5 DEF CommitAssign, CommitReply, CommitClose, DeskTypeOK
  <2> QED
    BY <2>1, <2>4, <2>6, <2>7, <2>8 DEF DeskTypeOK, Post, Entry
<1>6. ASSUME NEW i \in Intents, IntentExpires(i) PROVE DeskTypeOK'
  BY <1>6 DEF IntentExpires, DeskTypeOK
<1>7. CASE UNCHANGED deskVars
  BY <1>7 DEF deskVars, DeskTypeOK
<1> QED
  BY <1>1, <1>2, <1>3, <1>4, <1>5, <1>6, <1>7 DEF DeskNext

\* Every variable keeps its type.
THEOREM DeskTypeCorrect == DeskSpec => []DeskTypeOK
BY InitTypes, StepTypes, PTL DEF DeskSpec

-----------------------------------------------------------------------------
(***************************************************************************)
(* The log of the desk.                                                    *)
(***************************************************************************)

\* The log agrees with the ticket and the keys of its events: whoever has served the ticket
\* has it, what was answered or closed holds its key, and after `closed' it is closed until
\* the next entry.
Traced ==
  /\ DeskHistory
  /\ log # <<>> => ticket.assignee # NoOne
  /\ \A n \in DOMAIN log :
       /\ log[n].act = "replied" => "first-reply" \in keys
       /\ log[n].act = "closed" => "closed" \in keys
       /\ log[n].act = "closed" /\ n = Len(log) => ticket.status = "CLOSED"

\* One more entry keeps this if it is one that the handlers may make.
LEMMA EntryTraced ==
  ASSUME DeskTypeOK, Traced, NEW operator \in Staff, NEW act \in Acts, Record(operator, act),
         keys \subseteq keys', ticket'.assignee # NoOne,
         act = "assigned" => log = <<>>,
         act \in {"assigned", "replied", "closed"} => log = <<>> \/ ticket.status # "CLOSED",
         act = "replied" => "first-reply" \notin keys /\ "first-reply" \in keys',
         act = "closed" => /\ "closed" \notin keys /\ "closed" \in keys'
                           /\ ticket'.status = "CLOSED"
  PROVE  Traced'
<1> DEFINE last == Len(log) + 1
<1>1. /\ DOMAIN log = 1 .. Len(log) /\ DOMAIN log' = 1 .. last /\ Len(log') = last
      /\ Len(log) \in Nat /\ log' # <<>>
      /\ \A n \in 1 .. Len(log) : log'[n] = log[n]
      /\ log'[last] = [operator |-> operator, act |-> act]
  BY WriteTypes DEF Record
<1>2. log = <<>> => Len(log) = 0
  OBVIOUS
<1>3. \A n \in DOMAIN log : log[n].act # act \/ act = "message" \/ act = "assigned"
  BY DEF Traced, Acts
<1>4. ASSUME NEW n \in DOMAIN log', log'[n].act = "assigned" PROVE n = 1
  BY <1>1, <1>2, <1>4 DEF Traced, DeskHistory
<1>5. ASSUME NEW n \in DOMAIN log', log'[n].act \in {"replied", "closed"},
             NEW k \in DOMAIN log', log'[k].act = log'[n].act
      PROVE  k = n
  BY <1>1, <1>3, <1>5 DEF Traced, DeskHistory
<1>6. ASSUME NEW n \in DOMAIN log', log'[n].act = "closed", n + 1 \in DOMAIN log'
      PROVE  log'[n + 1].act = "message"
  <2>1. n \in DOMAIN log /\ log[n].act = "closed"
    BY <1>1, <1>6
  <2>2. CASE n = Len(log)
    BY <1>1, <1>2, <2>1, <2>2 DEF Traced, Acts
  <2>3. CASE n # Len(log)
    BY <1>1, <2>1, <2>3 DEF Traced, DeskHistory
  <2> QED
    BY <2>2, <2>3
<1>7. ASSUME NEW n \in DOMAIN log'
      PROVE  /\ log'[n].act = "replied" => "first-reply" \in keys'
             /\ log'[n].act = "closed" => "closed" \in keys'
             /\ log'[n].act = "closed" /\ n = Len(log') => ticket'.status = "CLOSED"
  BY <1>1, <1>7 DEF Traced
<1> QED
  BY <1>1, <1>4, <1>5, <1>6, <1>7 DEF Traced, DeskHistory

\* A step that leaves log, ticket and keys alone.
LEMMA NothingTraced ==
  ASSUME Traced, UNCHANGED <<log, ticket, keys>>
  PROVE  Traced'
BY DEF Traced, DeskHistory

\* The log stays traced, whatever the operators have read before.
LEMMA StepTraced == DeskTypeOK /\ Traced /\ [DeskNext]_deskVars => Traced'
<1> SUFFICES ASSUME DeskTypeOK, Traced, [DeskNext]_deskVars PROVE Traced'
  OBVIOUS
<1>1. ASSUME NEW c \in Calls, Send(c) PROVE Traced'
  <2>1. CASE UNCHANGED <<log, ticket>>
    BY <1>1, <2>1, NothingTraced DEF Send
  <2>2. CASE ~UNCHANGED <<log, ticket>>
    <3>1. /\ call[c].actor \in Staff /\ Record(call[c].actor, "message")
          /\ ticket' = [ticket EXCEPT !.assignee = call[c].actor, !.status = "IN_PROGRESS"]
          /\ keys' = keys
      BY <1>1, <2>2 DEF Send
    <3>2. ticket'.assignee # NoOne
      BY <3>1, DeskAssumption DEF DeskTypeOK, People
    <3> QED
      BY <3>1, <3>2, EntryTraced DEF Acts
  <2> QED
    BY <2>1, <2>2
<1>2. ASSUME NEW c \in Calls, CommitAssign(c) PROVE Traced'
  <2>1. CASE ticket.assignee # NoOne
    BY <1>2, <2>1, NothingTraced DEF CommitAssign
  <2>2. CASE ticket.assignee = NoOne
    <3>1. /\ call[c].actor \in Staff /\ Record(call[c].actor, "assigned")
          /\ ticket' = [ticket EXCEPT !.assignee = call[c].actor, !.status = "IN_PROGRESS"]
          /\ keys' = keys
      BY <1>2, <2>2, Actors DEF CommitAssign
    <3>2. ticket'.assignee # NoOne /\ log = <<>>
      BY <2>2, <3>1, DeskAssumption DEF DeskTypeOK, People, Traced
    <3> QED
      BY <3>1, <3>2, EntryTraced DEF Acts
  <2> QED
    BY <2>1, <2>2
<1>3. ASSUME NEW c \in Calls, CommitReply(c) PROVE Traced'
  <2>1. CASE UNCHANGED <<log, ticket, keys>>
    BY <2>1, NothingTraced
  <2>2. CASE ~UNCHANGED <<log, ticket, keys>>
    <3>1. /\ call[c].actor \in Staff /\ Record(call[c].actor, "replied")
          /\ ticket.status # "CLOSED" /\ "first-reply" \notin keys
          /\ keys' = keys \cup {"first-reply"}
          /\ ticket' = [status |-> "IN_PROGRESS", assignee |-> call[c].actor,
                        respondedBy |-> call[c].actor]
      BY <1>3, <2>2, Actors DEF CommitReply
    <3>2. ticket'.assignee # NoOne
      BY <3>1, DeskAssumption DEF People
    <3> QED
      BY <3>1, <3>2, EntryTraced DEF Acts
  <2> QED
    BY <2>1, <2>2
<1>4. ASSUME NEW c \in Calls, CommitClose(c) PROVE Traced'
  <2>1. CASE UNCHANGED <<log, ticket, keys>>
    BY <2>1, NothingTraced
  <2>2. CASE ~UNCHANGED <<log, ticket, keys>>
    <3>1. /\ call[c].actor \in Staff /\ Record(call[c].actor, "closed")
          /\ ticket.status # "CLOSED" /\ "closed" \notin keys
          /\ keys' = keys \cup {"closed"}
          /\ ticket' = [ticket EXCEPT !.status = "CLOSED", !.assignee = call[c].actor]
      BY <1>4, <2>2, Actors DEF CommitClose
    <3>2. ticket'.assignee # NoOne /\ ticket'.status = "CLOSED"
      BY <3>1, DeskAssumption DEF DeskTypeOK, People
    <3> QED
      BY <3>1, <3>2, EntryTraced DEF Acts
  <2> QED
    BY <2>1, <2>2
<1>5. ASSUME NEW c \in Calls,
             \/ \E actor \in People, files \in SUBSET Intents : BeginMessage(c, actor, files)
             \/ \E operator \in Staff :
                  BeginAssign(c, operator) \/ BeginReply(c, operator) \/ BeginClose(c, operator)
             \/ \E i \in Intents : Verify(c, i)
      PROVE  Traced'
  BY <1>5, NothingTraced DEF BeginMessage, BeginAssign, BeginReply, BeginClose, Verify
<1>6. ASSUME NEW i \in Intents, IntentExpires(i) PROVE Traced'
  BY <1>6, NothingTraced DEF IntentExpires
<1>7. CASE UNCHANGED deskVars
  BY <1>7, NothingTraced DEF deskVars
<1> QED
  BY <1>1, <1>2, <1>3, <1>4, <1>5, <1>6, <1>7 DEF DeskNext

\* Operators who have read the ticket before others wrote it assign it before anybody has
\* served it, answer it once and close it once, and nothing but a message follows `closed'.
THEOREM HistoryIsKept == DeskSpec => []DeskHistory
<1>1. DeskInit => Traced
  BY DEF DeskInit, Traced, DeskHistory
<1>2. Traced => DeskHistory
  BY DEF Traced
<1> QED
  BY <1>1, <1>2, StepTraced, DeskTypeCorrect, PTL DEF DeskSpec

-----------------------------------------------------------------------------
(***************************************************************************)
(* Images.                                                                 *)
(***************************************************************************)

\* The messages that show an image.
Showing(i) == {n \in DOMAIN thread : i \in thread[n].files}

\* A confirmed image is shown by one message, and no other image by any.
Placed ==
  \A i \in Intents :
    /\ intent[i] = "used" => \E n \in DOMAIN thread : Showing(i) = {n}
    /\ intent[i] # "used" => Showing(i) = {}

\* A step that leaves the thread and what is confirmed alone.
LEMMA NothingPlaced ==
  ASSUME Placed, UNCHANGED thread, \A i \in Intents : (intent'[i] = "used") = (intent[i] = "used")
  PROVE  Placed'
BY DEF Placed, Showing

\* A message with images that are still open, which it confirms.
LEMMA PostPlaced ==
  ASSUME DeskTypeOK, Placed, NEW author \in People, NEW files \in SUBSET Intents,
         \A i \in files : intent[i] # "used",
         thread' = Append(thread, [author |-> author, files |-> files]),
         intent' = [i \in Intents |-> IF i \in files THEN "used" ELSE intent[i]]
  PROVE  Placed'
<1> DEFINE last == Len(thread) + 1
<1>1. /\ DOMAIN thread = 1 .. Len(thread) /\ DOMAIN thread' = 1 .. last /\ Len(thread) \in Nat
      /\ \A n \in DOMAIN thread : thread'[n] = thread[n]
      /\ thread'[last].files = files
  BY WriteTypes
<1> HIDE DEF last
<1>2. last \in DOMAIN thread' /\ DOMAIN thread' = DOMAIN thread \cup {last}
      /\ last \notin DOMAIN thread
  BY <1>1 DEF last
<1>3. ASSUME NEW i \in Intents, i \in files
      PROVE  intent'[i] = "used" /\ Showing(i)' = {last}
  BY <1>1, <1>2, <1>3 DEF Placed, Showing
<1>4. ASSUME NEW i \in Intents, i \notin files
      PROVE  intent'[i] = intent[i] /\ Showing(i)' = Showing(i)
  BY <1>1, <1>2, <1>4 DEF Showing
<1> QED
  BY <1>2, <1>3, <1>4 DEF Placed

\* Every step keeps images in their places, although a call checks them one by one, and
\* others confirm them or they expire meanwhile.
LEMMA StepPlaced == DeskTypeOK /\ Placed /\ [DeskNext]_deskVars => Placed'
<1> SUFFICES ASSUME DeskTypeOK, Placed, [DeskNext]_deskVars PROVE Placed'
  OBVIOUS
<1>1. ASSUME NEW c \in Calls, Send(c) PROVE Placed'
  <2> DEFINE files == call[c].files
  <2>1. call[c].actor \in People /\ files \in SUBSET Intents
    BY <1>1, Actors DEF Send
  <2>2. CASE \E i \in files : intent[i] # "open"
    BY <1>1, <2>2, NothingPlaced DEF Send
  <2>3. CASE ~\E i \in files : intent[i] # "open"
    <3>1. /\ thread' = Append(thread, [author |-> call[c].actor, files |-> files])
          /\ intent' = [i \in Intents |-> IF i \in files THEN "used" ELSE intent[i]]
      BY <1>1, <2>3 DEF Send
    <3> QED
      BY <2>1, <2>3, <3>1, PostPlaced
  <2> QED
    BY <2>2, <2>3
<1>2. ASSUME NEW c \in Calls, CommitReply(c) PROVE Placed'
  <2>1. call[c].actor \in People /\ intent' = intent
    BY <1>2, Actors DEF CommitReply, People
  <2>2. CASE thread' = thread
    BY <2>1, <2>2, NothingPlaced
  <2>3. CASE thread' # thread
    <3>1. thread' = Append(thread, [author |-> call[c].actor, files |-> {}])
      BY <1>2, <2>3 DEF CommitReply
    <3>2. intent' = [i \in Intents |-> IF i \in {} THEN "used" ELSE intent[i]]
      BY <2>1 DEF DeskTypeOK
    <3> QED
      BY <2>1, <3>1, <3>2, PostPlaced
  <2> QED
    BY <2>2, <2>3
<1>3. ASSUME NEW c \in Calls,
             \/ \E actor \in People, files \in SUBSET Intents : BeginMessage(c, actor, files)
             \/ \E operator \in Staff :
                  BeginAssign(c, operator) \/ BeginReply(c, operator) \/ BeginClose(c, operator)
             \/ \E i \in Intents : Verify(c, i)
             \/ CommitAssign(c) \/ CommitClose(c)
      PROVE  Placed'
  <2>1. UNCHANGED <<thread, intent>>
    BY <1>3 DEF BeginMessage, BeginAssign, BeginReply, BeginClose, Verify, CommitAssign, CommitClose
  <2> QED
    BY <2>1, NothingPlaced
<1>4. ASSUME NEW i \in Intents, IntentExpires(i) PROVE Placed'
  <2>1. UNCHANGED thread /\ \A j \in Intents : (intent'[j] = "used") = (intent[j] = "used")
    BY <1>4 DEF IntentExpires, DeskTypeOK
  <2> QED
    BY <2>1, NothingPlaced
<1>5. CASE UNCHANGED deskVars
  BY <1>5, NothingPlaced DEF deskVars
<1> QED
  BY <1>1, <1>2, <1>3, <1>4, <1>5 DEF DeskNext

\* An image is confirmed exactly if it belongs to one message, and belongs to none otherwise.
THEOREM ImagesAreUsedOnce == DeskSpec => []AttachmentsUsedOnce
<1>1. DeskInit => Placed
  BY DEF DeskInit, Placed, Showing
<1>2. Placed => AttachmentsUsedOnce
  <2>1. Cardinality({}) = 0 /\ \A n : Cardinality({n}) = 1
    BY FS_EmptySet, FS_Singleton
  <2> QED
    BY <2>1 DEF Placed, Showing, AttachmentsUsedOnce
<1> QED
  BY <1>1, <1>2, StepPlaced, DeskTypeCorrect, PTL DEF DeskSpec

=============================================================================
