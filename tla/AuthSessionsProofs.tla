------------------------- MODULE AuthSessionsProofs -------------------------
(***************************************************************************)
(* Theorems about AuthSessions, for any number of calls under way, and of  *)
(* codes, tokens, grants and revocations.                                  *)
(***************************************************************************)
EXTENDS AuthSessions, TLAPS

Token == [session : Sessions, version : Versions, origin : Origins]
GrantRow == [version : Versions, code : Codes]

-----------------------------------------------------------------------------
(***************************************************************************)
(* What a step does to its call.                                           *)
(***************************************************************************)

\* The record r takes the place of the call's.
Puts(c, r) == call' = [call EXCEPT ![c] = r]

\* Only the one call changes.
LEMMA Put ==
  ASSUME call \in [Calls -> Call], NEW c \in Calls, NEW r \in Call, Puts(c, r)
  PROVE  /\ call' \in [Calls -> Call] /\ call'[c] = r
         /\ \A d \in Calls : d # c => call'[d] = call[d]
BY DEF Puts

\* A call that has not begun holds nothing.
LEMMA IdleTyped ==
  /\ Idle \in Call
  /\ Idle.pc = "idle" /\ Idle.session = 0 /\ Idle.version = 0 /\ Idle.origin = NoOrigin
BY AuthAssumption DEF Idle, Call, Pcs, Origins, Versions, NoOrigin, Sessions, Tokens

\* A call that goes on elsewhere keeps what it holds.
LEMMA Gone ==
  ASSUME call \in [Calls -> Call], NEW c \in Calls, NEW p \in Pcs, Goto(c, p)
  PROVE  \E r \in Call :
           /\ Puts(c, r)
           /\ r.pc = p /\ r.session = call[c].session /\ r.version = call[c].version
           /\ r.origin = call[c].origin /\ r.code = call[c].code
<1> DEFINE r == [call[c] EXCEPT !.pc = p]
<1>1. call[c] \in Call
  OBVIOUS
<1>2. /\ r \in Call /\ r.pc = p /\ r.session = call[c].session /\ r.version = call[c].version
      /\ r.origin = call[c].origin /\ r.code = call[c].code
  BY <1>1 DEF Call
<1>3. Puts(c, r)
  BY DEF Goto, Puts
<1> QED
  BY <1>2, <1>3

\* The call goes on elsewhere with the version v of its user.
Reads(c, p, v) == call' = [call EXCEPT ![c].pc = p, ![c].version = v]

\* The same, with the version of the user that was read.
LEMMA GoneWithVersion ==
  ASSUME call \in [Calls -> Call], NEW c \in Calls, NEW p \in Pcs, NEW v \in Versions,
         Reads(c, p, v)
  PROVE  \E r \in Call :
           /\ Puts(c, r)
           /\ r.pc = p /\ r.session = call[c].session /\ r.version = v
           /\ r.origin = call[c].origin /\ r.code = call[c].code
<1> DEFINE r == [call[c] EXCEPT !.pc = p, !.version = v]
<1>1. call[c] \in Call
  OBVIOUS
<1>2. /\ r \in Call /\ r.pc = p /\ r.session = call[c].session /\ r.version = v
      /\ r.origin = call[c].origin /\ r.code = call[c].code
  BY <1>1 DEF Call
<1>3. Puts(c, r)
  BY DEF Puts, Reads
<1> QED
  BY <1>2, <1>3

\* A code was presented.
LEMMA BegunWithCode ==
  ASSUME NEW n \in 0 .. MaxCodes, NEW p \in Pcs, NEW for \in {"none", "login", "stepUp"}
  PROVE  LET r == [Idle EXCEPT !.pc = p, !.code = n, !.for = for]
         IN  /\ r \in Call /\ r.pc = p /\ r.session = 0 /\ r.version = 0
             /\ r.origin = NoOrigin /\ r.code = n
BY IdleTyped DEF Call, Idle

\* A code is about to be sent.
LEMMA BegunSms ==
  ASSUME NEW n \in 0 .. MaxCodes
  PROVE  LET r == [Idle EXCEPT !.pc = "sms", !.code = n]
         IN  r \in Call /\ r.pc = "sms" /\ r.version = 0
BY IdleTyped DEF Call, Pcs, Idle

\* A refresh token was presented.
LEMMA BegunWithToken ==
  ASSUME NEW p \in Pcs, NEW s \in Sessions, NEW o \in Origins
  PROVE  LET r == [Idle EXCEPT !.pc = p, !.session = s, !.origin = o]
         IN  /\ r \in Call /\ r.pc = p /\ r.session = s /\ r.version = 0 /\ r.origin = o
BY IdleTyped DEF Call, Idle

\* A token is about to be removed, and then its session.
LEMMA BegunForget ==
  ASSUME NEW s \in Sessions \cup {0}, NEW J \in SUBSET Tokens
  PROVE  LET r == [Idle EXCEPT !.pc = "forget", !.jtis = J, !.session = s]
         IN  r \in Call /\ r.pc = "forget" /\ r.version = 0
BY IdleTyped DEF Call, Pcs, Idle

\* A session without a record was found.
LEMMA BegunUnlist ==
  ASSUME NEW s \in Sessions
  PROVE  LET r == [Idle EXCEPT !.pc = "unlist", !.session = s]
         IN  r \in Call /\ r.pc = "unlist" /\ r.version = 0
BY IdleTyped DEF Call, Pcs, Idle

\* All sessions were read.
LEMMA BegunSweep ==
  ASSUME NEW S \in SUBSET Sessions, NEW J \in SUBSET Tokens
  PROVE  LET r == [Idle EXCEPT !.pc = "bump", !.listed = S, !.jtis = J]
         IN  r \in Call /\ r.pc = "bump" /\ r.version = 0
BY IdleTyped DEF Call, Pcs, Idle

\* The user was read for a sign-in.
LEMMA Loaded ==
  ASSUME call \in [Calls -> Call], NEW c \in Calls, NEW v \in Versions, NEW o \in Origins
  PROVE  LET r == [call[c] EXCEPT !.pc = "issue", !.version = v, !.origin = o]
         IN  /\ r \in Call /\ r.pc = "issue" /\ r.version = v /\ r.origin = o
             /\ r.session = call[c].session /\ r.code = call[c].code
<1>1. call[c] \in Call
  OBVIOUS
<1> QED
  BY <1>1 DEF Call, Pcs

-----------------------------------------------------------------------------
(***************************************************************************)
(* Types.                                                                  *)
(***************************************************************************)

\* The places at which a call holds neither a code nor a token.
QuietPcs == Pcs \ {"compare", "consume", "user", "grantUser", "grant", "owner", "issue"}

\* Steps that end with the call at such a place.
QuietStep(c) ==
  \/ RequestOtp(c) \/ SendOtp(c)
  \/ \E j \in DOMAIN tokens : Logout(c, j)
  \/ \E s \in Sessions : FindSession(c, s) \/ FindStale(c, s)
  \/ DropSession(c) \/ ForgetToken(c) \/ EndSession(c)
  \/ ReadAll(c) \/ SweepAll(c) \/ Unlist(c)
  \/ Grant(c)
  \/ \E g \in DOMAIN grants : PresentGrant(c, g)
  \/ TakeGrant(c) \/ Fails(c)

\* What the fields of a call are filled from.
LEMMA Ranges ==
  ASSUME TypeOK
  PROVE  /\ call \in [Calls -> Call] /\ (\A c \in Calls : call[c] \in Call) /\ version \in Versions
         /\ Range(session) \subseteq Tokens /\ DOMAIN tokens \subseteq Tokens
         /\ \A j \in DOMAIN tokens : tokens[j] \in Token
         /\ DOMAIN grants \subseteq 0 .. MaxGrants
         /\ members \subseteq Sessions
<1>1. tokens \in Seq(Token) /\ Len(tokens) \in Nat /\ Len(tokens) <= MaxTokens
  BY DEF TypeOK, Stored, Token
<1>2. DOMAIN tokens \subseteq Tokens /\ \A j \in DOMAIN tokens : tokens[j] \in Token
  BY <1>1, AuthAssumption DEF Tokens
<1>3. DOMAIN grants \subseteq 0 .. MaxGrants
  BY AuthAssumption DEF TypeOK, Stored
<1> QED
  BY <1>1, <1>2, <1>3 DEF TypeOK, Stored

\* What such a step leaves in its call, and what it leaves alone.
LEMMA QuietCall ==
  ASSUME TypeOK, NEW c \in Calls, QuietStep(c)
  PROVE  /\ \E r \in Call : /\ Puts(c, r) /\ r.pc \in QuietPcs
                           /\ r.version \in {0, version, call[c].version}
         /\ UNCHANGED <<version, blocked, tokens, revoked>>
<1>0. /\ call \in [Calls -> Call] /\ call[c] \in Call /\ version \in Versions
      /\ Range(session) \subseteq Tokens /\ DOMAIN tokens \subseteq Tokens
      /\ \A j \in DOMAIN tokens : tokens[j] \in Token
      /\ DOMAIN grants \subseteq 0 .. MaxGrants
      /\ members \subseteq Sessions
  BY Ranges
<1>1. UNCHANGED <<version, blocked, tokens, revoked>>
  BY DEF QuietStep, RequestOtp, SendOtp, Logout, FindSession, FindStale, DropSession, ForgetToken,
         EndSession, ReadAll, SweepAll, Unlist, Grant, PresentGrant, TakeGrant, Fails,
         user
<1>2. ASSUME End(c) PROVE Puts(c, Idle)
  BY <1>2 DEF End, Puts
<1>3. Idle \in Call /\ Idle.pc \in QuietPcs /\ Idle.version = 0
  BY IdleTyped DEF QuietPcs, Pcs
<1>4. {"sms", "drop", "forget", "end", "bump", "sweep", "unlist", "take"} \subseteq QuietPcs
      /\ QuietPcs \subseteq Pcs
  BY DEF QuietPcs, Pcs
<1>5. CASE RequestOtp(c)
  <2>1. codes + 1 \in 0 .. MaxCodes
    BY <1>5, AuthAssumption DEF RequestOtp, TypeOK, Stored
  <2>2. Puts(c, [Idle EXCEPT !.pc = "sms", !.code = codes + 1])
    BY <1>5 DEF RequestOtp, Puts
  <2> QED
    BY <1>1, <1>4, <2>1, <2>2, BegunSms
<1>6. CASE \/ SendOtp(c) \/ DropSession(c) \/ EndSession(c) \/ SweepAll(c) \/ Unlist(c) \/ Grant(c)
           \/ TakeGrant(c) \/ Fails(c)
  <2>1. End(c)
    BY <1>6 DEF SendOtp, DropSession, EndSession, SweepAll, Unlist, Grant, TakeGrant, Fails
  <2> QED
    BY <1>1, <1>2, <1>3, <2>1
<1>7. ASSUME NEW j \in DOMAIN tokens, Logout(c, j)
      PROVE  \E r \in Call : Puts(c, r) /\ r.pc \in QuietPcs /\ r.version = 0
  <2> DEFINE s == IF j \in refresh THEN tokens[j].session ELSE 0
  <2>1. s \in Sessions \cup {0} /\ {j} \in SUBSET Tokens
    BY <1>0 DEF Token
  <2>2. Puts(c, [Idle EXCEPT !.pc = "forget", !.jtis = {j}, !.session = s])
    BY <1>7 DEF Logout, Puts
  <2> HIDE DEF s
  <2> QED
    BY <1>4, <2>1, <2>2, BegunForget
<1>8. ASSUME NEW s \in Sessions, FindSession(c, s)
      PROVE  \E r \in Call : Puts(c, r) /\ r.pc \in QuietPcs /\ r.version = 0
  <2>1. CASE s \in DOMAIN session
    <3>1. {session[s]} \in SUBSET Tokens
      BY <1>0, <2>1 DEF Range
    <3>2. Puts(c, [Idle EXCEPT !.pc = "drop", !.session = s, !.jtis = {session[s]}])
      BY <1>8, <2>1 DEF FindSession, Puts
    <3> DEFINE J == {session[s]}
    <3>3. "drop" \in Pcs /\ s \in Sessions \cup {0} /\ J \in SUBSET Tokens
      BY <1>4, <3>1
    <3> HIDE DEF J
    <3>4. LET r == [Idle EXCEPT !.pc = "drop", !.session = s, !.jtis = J]
          IN  r \in Call /\ r.pc = "drop" /\ r.version = 0
      BY <3>3, IdleTyped DEF Call, Idle
    <3>5. Puts(c, [Idle EXCEPT !.pc = "drop", !.session = s, !.jtis = J])
      BY <3>2 DEF J
    <3> QED
      BY <1>4, <3>4, <3>5
  <2>2. CASE s \notin DOMAIN session
    BY <1>2, <1>3, <1>8, <2>2 DEF FindSession
  <2> QED
    BY <2>1, <2>2
<1>9. ASSUME NEW s \in Sessions, FindStale(c, s)
      PROVE  \E r \in Call : Puts(c, r) /\ r.pc \in QuietPcs /\ r.version = 0
  <2>1. Puts(c, [Idle EXCEPT !.pc = "unlist", !.session = s])
    BY <1>9 DEF FindStale, Puts
  <2> QED
    BY <1>4, <2>1, BegunUnlist
<1>10. CASE ForgetToken(c)
  <2>1. End(c) \/ Goto(c, "end")
    BY <1>10 DEF ForgetToken
  <2> QED
    BY <1>0, <1>1, <1>2, <1>3, <1>4, <2>1, Gone
<1>11. CASE ReadAll(c)
  <2> DEFINE J == {session[s] : s \in members \cap DOMAIN session}
  <2>1. J \in SUBSET Tokens
    BY <1>0 DEF Range
  <2>2. Puts(c, [Idle EXCEPT !.pc = "bump", !.listed = members, !.jtis = J])
    BY <1>11 DEF ReadAll, Puts
  <2> HIDE DEF J
  <2> QED
    BY <1>0, <1>1, <1>4, <2>1, <2>2, BegunSweep
<1>12. ASSUME NEW g \in DOMAIN grants, PresentGrant(c, g)
       PROVE  \E r \in Call : Puts(c, r) /\ r.pc \in QuietPcs /\ r.version = version
  <2> DEFINE for == IF blocked THEN "none" ELSE "stepUp"
  <2>1. Puts(c, [Idle EXCEPT !.pc = "take", !.grant = g, !.version = version, !.for = for])
    BY <1>12 DEF PresentGrant, Puts
  <2>2. for \in {"none", "login", "stepUp"} /\ g \in 0 .. MaxGrants
    BY <1>0
  <2> HIDE DEF for
  <2>3. LET r == [Idle EXCEPT !.pc = "take", !.grant = g, !.version = version, !.for = for]
        IN  r \in Call /\ r.pc = "take" /\ r.version = version
    BY <1>0, <2>2, IdleTyped DEF Call, Pcs, Idle
  <2> QED
    BY <1>4, <2>1, <2>3
<1> QED
  BY <1>1, <1>5, <1>6, <1>7, <1>8, <1>9, <1>10, <1>11, <1>12 DEF QuietStep

-----------------------------------------------------------------------------
(***************************************************************************)
(* The invariant.  A refresh reads the version of its user and compares it *)
(* with the one in its token, and issues a token a step later, when the    *)
(* sessions may have been revoked: what it then holds is an older version. *)
(***************************************************************************)

\* What the record of a call holds, at each place.
Fit(r) ==
  /\ r.version <= version
  /\ r.pc \in {"compare", "consume", "user", "grantUser", "grant"} => r.code \in Codes
  /\ r.pc \in {"compare", "consume", "user"} => r.session = 0
  /\ r.pc = "owner" => r.origin.id \in DOMAIN tokens /\ tokens[r.origin.id].session = r.session
  /\ r.pc = "issue" => /\ r.session \in 0 .. Len(tokens)
                       /\ r.session \in revoked => r.version < version

Versioned ==
  /\ revoked \subseteq 1 .. Len(tokens)
  /\ \A j \in DOMAIN tokens : tokens[j].version <= version /\ tokens[j].session \in 1 .. Len(tokens)
  /\ RevokedForGood
  /\ \A c \in Calls : Fit(call[c])

\* Steps of a call that change neither the version nor the tokens.
CallStep(c) ==
  \/ QuietStep(c)
  \/ \E k \in 1 .. codes, for \in {"login", "stepUp"} : PresentCode(c, k, for)
  \/ CompareCode(c) \/ ConsumeCode(c) \/ LoadUser(c) \/ CheckOwner(c) \/ LoadGrantee(c)
  \/ \E j \in DOMAIN tokens : TakeToken(c, j)

\* They leave a record that holds what it must.
LEMMA FitCall ==
  ASSUME TypeOK, Versioned, NEW c \in Calls, CallStep(c)
  PROVE  /\ \E r \in Call : Puts(c, r) /\ Fit(r)
         /\ UNCHANGED <<version, blocked, tokens, revoked>>
<1>0. /\ call \in [Calls -> Call] /\ call[c] \in Call /\ version \in Versions
      /\ DOMAIN tokens \subseteq Tokens /\ \A j \in DOMAIN tokens : tokens[j] \in Token
  BY Ranges
<1>1. Fit(call[c]) /\ version \in Nat
  BY <1>0 DEF Versioned, Versions
<1>2. ASSUME End(c) PROVE Puts(c, Idle)
  BY <1>2 DEF End, Puts
<1>3. Idle \in Call /\ Fit(Idle)
  BY <1>1, IdleTyped DEF Fit
<1>4. {"consume", "user", "grantUser", "grant", "issue", "owner", "find", "compare"} \subseteq Pcs
  BY DEF Pcs
<1>13. "issue" \in Pcs /\ "grant" \in Pcs
  BY <1>4
<1>5. ~ QuietStep(c) => UNCHANGED <<version, blocked, tokens, revoked>>
  BY DEF CallStep, PresentCode, CompareCode, ConsumeCode, LoadUser, CheckOwner, LoadGrantee,
         TakeToken, user
<1>6. CASE QuietStep(c)
  <2>1. PICK r \in Call : /\ Puts(c, r) /\ r.pc \in QuietPcs
                          /\ r.version \in {0, version, call[c].version}
    BY <1>6, QuietCall
  <2>2. Fit(r)
    BY <1>1, <2>1 DEF Fit, QuietPcs
  <2> QED
    BY <1>6, <2>1, <2>2, QuietCall
<1>7. ASSUME NEW k \in 1 .. codes, NEW for \in {"login", "stepUp"}, PresentCode(c, k, for)
      PROVE  \E r \in Call : Puts(c, r) /\ Fit(r)
  <2> DEFINE r == [Idle EXCEPT !.pc = "compare", !.code = k, !.for = for]
  <2>1. k \in Codes /\ k \in 0 .. MaxCodes
    BY AuthAssumption DEF TypeOK, Stored, Codes
  <2>2. r \in Call /\ r.pc = "compare" /\ r.session = 0 /\ r.version = 0 /\ r.code = k
    BY <1>4, <2>1, IdleTyped DEF Call, Idle
  <2>3. Puts(c, r)
    BY <1>7 DEF PresentCode, Puts
  <2> HIDE DEF r
  <2>4. Fit(r)
    BY <1>1, <2>1, <2>2 DEF Fit
  <2> QED
    BY <2>2, <2>3, <2>4
<1>8. CASE CompareCode(c) \/ ConsumeCode(c)
  <2>1. \/ End(c)
        \/ call[c].pc = "compare" /\ Goto(c, "consume")
        \/ call[c].pc = "consume" /\ (Goto(c, "user") \/ Goto(c, "grantUser"))
    BY <1>8 DEF CompareCode, ConsumeCode
  <2>2. ASSUME NEW p \in {"consume", "user", "grantUser"}, Goto(c, p),
               call[c].pc \in {"compare", "consume"}
        PROVE  \E r \in Call : Puts(c, r) /\ Fit(r)
    <3>1. PICK r \in Call :
            /\ Puts(c, r)
            /\ r.pc = p /\ r.session = call[c].session /\ r.version = call[c].version
            /\ r.origin = call[c].origin /\ r.code = call[c].code
      BY <1>0, <1>4, <2>2, Gone
    <3>2. Fit(r)
      BY <1>1, <2>2, <3>1 DEF Fit
    <3> QED
      BY <3>1, <3>2
  <2> QED
    BY <1>2, <1>3, <1>5, <1>6, <2>1, <2>2
<1>9. CASE LoadUser(c)
  <2> DEFINE o == [kind |-> "code", id |-> call[c].code]
  <2> DEFINE r == [call[c] EXCEPT !.pc = "issue", !.version = version, !.origin = o]
  <2>1. End(c) \/ Puts(c, r)
    BY <1>9 DEF LoadUser, Puts
  <2>2. call[c].pc = "user" /\ call[c].code \in Codes /\ call[c].session = 0
    BY <1>1, <1>9 DEF LoadUser, Fit
  <2>3. o \in Origins
    BY <2>2 DEF Origins
  <2> HIDE DEF o
  <2>4. /\ r \in Call /\ r.pc = "issue" /\ r.version = version /\ r.session = 0
    BY <1>0, <1>4, <2>2, <2>3 DEF Call
  <2>5. 0 \notin revoked /\ 0 \in 0 .. Len(tokens)
    BY DEF Versioned, TypeOK, Stored
  <2> HIDE DEF r
  <2>6. Fit(r)
    BY <1>1, <2>4, <2>5 DEF Fit
  <2> QED
    BY <1>2, <1>3, <1>5, <1>6, <2>1, <2>4, <2>6
<1>10. CASE CheckOwner(c)
  <2>1. CASE End(c)
    BY <1>2, <1>3, <1>5, <1>6, <2>1
  <2>2. CASE ~ End(c)
    <3> DEFINE j == call[c].origin.id
    <3>1. /\ call[c].pc = "owner" /\ tokens[j].version = version
          /\ Reads(c, "issue", version)
      BY <1>10, <2>2 DEF CheckOwner, Reads
    <3>2. j \in DOMAIN tokens /\ tokens[j].session = call[c].session
      BY <1>1, <3>1 DEF Fit
    <3> HIDE DEF j
    <3>3. call[c].session \in 1 .. Len(tokens)
      BY <3>2 DEF Versioned
    <3>4. call[c].session \notin revoked
      BY <1>1, <3>1, <3>2 DEF Versioned, RevokedForGood
    <3>5. PICK r \in Call : /\ Puts(c, r) /\ r.pc = "issue" /\ r.version = version
                            /\ r.session = call[c].session
      BY <1>0, <1>13, <3>1, GoneWithVersion
    <3>6. Fit(r)
      BY <1>1, <3>3, <3>4, <3>5 DEF Fit
    <3> QED
      BY <1>5, <1>6, <3>5, <3>6
  <2> QED
    BY <2>1, <2>2
<1>11. CASE LoadGrantee(c)
  <2>1. CASE End(c)
    BY <1>2, <1>3, <1>5, <1>6, <2>1
  <2>2. CASE ~ End(c)
    <3>1. /\ call[c].pc = "grantUser"
          /\ Reads(c, "grant", version)
      BY <1>11, <2>2 DEF LoadGrantee, Reads
    <3>2. PICK r \in Call : Puts(c, r) /\ r.pc = "grant" /\ r.version = version /\ r.code = call[c].code
      BY <1>0, <1>13, <3>1, GoneWithVersion
    <3>3. Fit(r)
      BY <1>1, <3>1, <3>2 DEF Fit
    <3> QED
      BY <1>5, <1>6, <3>2, <3>3
  <2> QED
    BY <2>1, <2>2
<1>12. ASSUME NEW j \in DOMAIN tokens, TakeToken(c, j)
       PROVE  \E r \in Call : Puts(c, r) /\ Fit(r)
  <2> DEFINE p == IF j \in refresh THEN "owner" ELSE "find"
  <2> DEFINE s == tokens[j].session
  <2> DEFINE o == [kind |-> "token", id |-> j]
  <2> DEFINE r == [Idle EXCEPT !.pc = p, !.session = s, !.origin = o]
  <2>1. p \in {"owner", "find"} /\ s \in Sessions /\ o \in Origins /\ o.id = j
    BY <1>0 DEF Token, Origins
  <2>2. Puts(c, r)
    BY <1>12 DEF TakeToken, Puts
  <2> HIDE DEF p, o
  <2>3. /\ r \in Call /\ r.pc = p /\ r.session = s /\ r.version = 0 /\ r.origin = o
    BY <1>4, <2>1, IdleTyped DEF Call, Idle
  <2> HIDE DEF r
  <2>4. Fit(r)
    BY <1>1, <2>1, <2>3 DEF Fit
  <2> QED
    BY <2>2, <2>3, <2>4
<1> QED
  BY <1>5, <1>6, <1>7, <1>8, <1>9, <1>10, <1>11, <1>12 DEF CallStep

-----------------------------------------------------------------------------
(***************************************************************************)
(* The steps.                                                              *)
(***************************************************************************)

\* What is stored, without what may expire or be removed.
LEMMA Fewer ==
  ASSUME TypeOK, NEW S,
         refresh' \subseteq refresh, members' \subseteq members,
         session' = Restrict(session, DOMAIN session \ S),
         UNCHANGED <<version, blocked, code, codes, tokens, grants, stepUp, accepted, revoked>>
  PROVE  Stored'
<1>1. DOMAIN session' \subseteq DOMAIN session /\ \A s \in DOMAIN session' : session'[s] = session[s]
  BY DEF Restrict
<1>2. DOMAIN session' \subseteq Sessions /\ Range(session') \subseteq DOMAIN tokens
  BY <1>1 DEF TypeOK, Stored, Range
<1> QED
  BY <1>2 DEF TypeOK, Stored

\* Steps that store nothing but a code.
LEMMA Sameness ==
  ASSUME TypeOK, codes' \in 0 .. MaxCodes, code' \in 0 .. codes',
         UNCHANGED <<version, blocked, tokens, refresh, session, members, grants, stepUp, accepted,
                     revoked>>
  PROVE  Stored'
BY DEF TypeOK, Stored

\* A step of the one call, which keeps version and tokens, keeps the stored keys in their ranges.
LEMMA CallStepStored ==
  ASSUME TypeOK, Versioned, NEW c \in Calls, CallStep(c)
  PROVE  Stored'
<1>0. /\ codes \in 0 .. MaxCodes /\ code \in 0 .. codes /\ MaxCodes \in Nat
  BY AuthAssumption DEF TypeOK, Stored
<1>1. CASE RequestOtp(c)
  <2>1. codes' \in 0 .. MaxCodes /\ code' \in 0 .. codes'
    BY <1>0, <1>1 DEF RequestOtp
  <2> QED
    BY <1>1, <2>1, Sameness DEF RequestOtp, user, redis, granting
<1>2. CASE SendOtp(c)
  <2>1. codes' \in 0 .. MaxCodes /\ code' \in 0 .. codes'
    BY <1>0, <1>2 DEF SendOtp
  <2> QED
    BY <1>2, <2>1, Sameness DEF SendOtp, user, redis, granting
<1>3. CASE ConsumeCode(c)
  <2>1. codes' \in 0 .. MaxCodes /\ code' \in 0 .. codes'
    BY <1>0, <1>3 DEF ConsumeCode
  <2> QED
    BY <1>3, <2>1, Sameness DEF ConsumeCode, user, redis, granting
<1>4. CASE UNCHANGED <<version, blocked, tokens, revoked, code, codes, refresh, session, members,
                       grants, stepUp, accepted>>
  BY <1>0, <1>4, Sameness
<1>5. CASE TakeGrant(c)
  <2>1. accepted' \in Seq(Nat) /\ Len(accepted') = Len(accepted)
    BY <1>5 DEF TakeGrant, TypeOK, Stored
  <2>2. stepUp' \subseteq stepUp
    BY <1>5 DEF TakeGrant
  <2> QED
    BY <1>5, <2>1, <2>2 DEF TakeGrant, TypeOK, Stored, user, otp, redis
<1>6. CASE Grant(c)
  <2> DEFINE g == Len(grants) + 1
  <2> DEFINE row == [version |-> call[c].version, code |-> call[c].code]
  <2>0. call[c] \in Call /\ Fit(call[c]) /\ call[c].pc = "grant"
    BY <1>6 DEF TypeOK, Versioned, Grant
  <2>1. row \in GrantRow
    BY <2>0 DEF Call, Fit, GrantRow
  <2> HIDE DEF row
  <2>2. grants \in Seq(GrantRow) /\ grants' = Append(grants, row) /\ g <= MaxGrants
    BY <1>6, AuthAssumption DEF Grant, TypeOK, Stored, GrantRow, Grants, row
  <2>3. grants' \in Seq(GrantRow) /\ Len(grants') = g /\ DOMAIN grants' = DOMAIN grants \cup {g}
    BY <2>1, <2>2
  <2>4. stepUp' \subseteq DOMAIN grants'
    BY <1>6, <2>3 DEF Grant, TypeOK, Stored
  <2>5. accepted' \in Seq(Nat) /\ Len(accepted') = g
    BY <1>6 DEF Grant, TypeOK, Stored
  <2> QED
    BY <1>6, <2>2, <2>3, <2>4, <2>5 DEF Grant, TypeOK, Stored, user, otp, redis, GrantRow
<1>7. CASE \/ DropSession(c) \/ EndSession(c) \/ SweepAll(c) \/ Unlist(c) \/ ForgetToken(c)
           \/ \E j \in DOMAIN tokens : TakeToken(c, j)
  <2>1. /\ UNCHANGED <<version, blocked, code, codes, tokens, grants, stepUp, accepted, revoked>>
        /\ refresh' \subseteq refresh /\ members' \subseteq members
    BY <1>7 DEF DropSession, EndSession, SweepAll, Unlist, ForgetToken, TakeToken, user, otp, granting
  <2>2. \/ session' = session
        \/ \E S : session' = Restrict(session, DOMAIN session \ S)
    BY <1>7 DEF DropSession, EndSession, SweepAll, Unlist, ForgetToken, TakeToken, Without
  <2>3. CASE session' = session
    BY <2>1, <2>3 DEF TypeOK, Stored
  <2> QED
    BY <2>1, <2>2, <2>3, Fewer
<1>8. \/ RequestOtp(c) \/ SendOtp(c) \/ ConsumeCode(c) \/ TakeGrant(c) \/ Grant(c)
      \/ DropSession(c) \/ EndSession(c) \/ SweepAll(c) \/ Unlist(c) \/ ForgetToken(c)
      \/ \E j \in DOMAIN tokens : TakeToken(c, j)
      \/ UNCHANGED <<version, blocked, tokens, revoked, code, codes, refresh, session, members,
                     grants, stepUp, accepted>>
  BY DEF CallStep, QuietStep, Logout, FindSession, FindStale, ReadAll, LoadGrantee, PresentGrant,
         Fails, PresentCode, CompareCode, LoadUser, CheckOwner, user, otp, redis, granting
<1> QED
  BY <1>1, <1>2, <1>3, <1>4, <1>5, <1>6, <1>7, <1>8

\* The record of one call changes, and neither the version nor the tokens do.
LEMMA SameTokens ==
  ASSUME TypeOK, Versioned, NEW c \in Calls, NEW r \in Call, Puts(c, r), Fit(r),
         UNCHANGED <<version, tokens, revoked>>
  PROVE  call' \in [Calls -> Call] /\ Versioned'
<1>1. call' \in [Calls -> Call] /\ call'[c] = r /\ \A d \in Calls : d # c => call'[d] = call[d]
  BY Put DEF TypeOK
<1>2. \A d \in Calls : Fit(call'[d])
  BY <1>1 DEF Versioned
<1>3. \A d \in Calls : Fit(call[d])'
  BY <1>2 DEF Fit
<1> QED
  BY <1>1, <1>3 DEF Versioned, RevokedForGood

\* All sessions are revoked.
LEMMA Raised ==
  ASSUME TypeOK, Versioned, RaiseVersion, UNCHANGED tokens,
         \A c \in Calls : \/ call'[c] = call[c]
                          \/ call'[c].pc = "sweep" /\ call'[c].version = call[c].version
  PROVE  Versioned'
<1>0. version \in Nat /\ version' = version + 1 /\ \A c \in Calls : call[c].version \in Nat
  BY DEF TypeOK, Stored, Call, Versions, RaiseVersion
<1>1. revoked' \subseteq 1 .. Len(tokens)
  BY DEF Versioned, RaiseVersion
<1>2. \A j \in DOMAIN tokens : tokens[j].version < version'
  <2>1. \A j \in DOMAIN tokens : tokens[j].version \in Nat
    BY Ranges DEF Token, Versions
  <2> QED
    BY <1>0, <2>1 DEF Versioned
<1>3. \A c \in Calls : Fit(call[c])'
  BY <1>0 DEF Versioned, Fit
<1> QED
  BY <1>0, <1>1, <1>2, <1>3, Ranges DEF Versioned, RevokedForGood, Token, Versions

\* A token is issued.
LEMMA Issued ==
  ASSUME TypeOK, Versioned, NEW c \in Calls, IssueTokens(c)
  PROVE  TypeOK' /\ Versioned'
<1> DEFINE j == Len(tokens) + 1
<1> DEFINE s == IF call[c].session = 0 THEN j ELSE call[c].session
<1> DEFINE t == [session |-> s, version |-> call[c].version, origin |-> call[c].origin]
<1>0. /\ call \in [Calls -> Call] /\ call[c] \in Call /\ version \in Nat
      /\ tokens \in Seq(Token) /\ Len(tokens) \in Nat
      /\ \A i \in DOMAIN tokens : tokens[i] \in Token
  BY Ranges DEF TypeOK, Stored, Token, Versions
<1>1. /\ call[c].pc = "issue" /\ j \in Tokens /\ tokens' = Append(tokens, t)
      /\ refresh' = refresh \cup {j} /\ members' = members \cup {s}
      /\ session' = [k \in DOMAIN session \cup {s} |-> IF k = s THEN j ELSE session[k]]
      /\ End(c) /\ UNCHANGED <<version, blocked, code, codes, grants, stepUp, accepted, revoked>>
  BY DEF IssueTokens, user, otp, granting
<1>2. call[c].version <= version /\ call[c].version \in Nat
      /\ call[c].session \in 0 .. Len(tokens) /\ (call[c].session \in revoked => call[c].version < version)
  BY <1>0, <1>1 DEF Versioned, Fit, Call, Versions
<1>3. s \in 1 .. j /\ s \in Sessions
  BY <1>0, <1>1, <1>2, AuthAssumption DEF Sessions, Tokens
<1>4. s \in revoked => call[c].version < version
  BY <1>0, <1>2 DEF Versioned
<1> HIDE DEF s
<1>5. t \in Token /\ t.session = s /\ t.version = call[c].version
  BY <1>0, <1>3 DEF Token, Call
<1> HIDE DEF t
<1>6. /\ tokens' \in Seq(Token) /\ Len(tokens') = j /\ DOMAIN tokens' = DOMAIN tokens \cup {j}
      /\ tokens'[j] = t /\ \A i \in DOMAIN tokens : tokens'[i] = tokens[i]
  BY <1>0, <1>1, <1>5
<1>7. Puts(c, Idle)
  BY <1>1 DEF End, Puts
<1>8. call' \in [Calls -> Call] /\ call'[c] = Idle /\ \A d \in Calls : d # c => call'[d] = call[d]
  BY <1>0, <1>7, Put, IdleTyped
<1>9. DOMAIN session' \subseteq Sessions /\ Range(session') \subseteq DOMAIN tokens'
  <2>1. DOMAIN session \subseteq Sessions /\ \A k \in DOMAIN session : session[k] \in DOMAIN tokens
    BY DEF TypeOK, Stored, Range
  <2>2. DOMAIN session' = DOMAIN session \cup {s}
        /\ \A k \in DOMAIN session' : session'[k] = IF k = s THEN j ELSE session[k]
    BY <1>1
  <2>3. \A k \in DOMAIN session' : session'[k] \in DOMAIN tokens'
    BY <1>6, <2>1, <2>2
  <2> QED
    BY <1>3, <2>1, <2>2, <2>3 DEF Range
<1>10. Stored'
  <2>1. Len(tokens') <= MaxTokens
    BY <1>1, <1>6, AuthAssumption DEF Tokens
  <2>2. refresh' \subseteq DOMAIN tokens' /\ members' \subseteq Sessions
    BY <1>1, <1>3, <1>6 DEF TypeOK, Stored
  <2> QED
    BY <1>1, <1>6, <1>9, <2>1, <2>2 DEF TypeOK, Stored, Token
<1>11. revoked' \subseteq 1 .. Len(tokens')
  BY <1>0, <1>1, <1>6 DEF Versioned
<1>12. \A i \in DOMAIN tokens' : tokens'[i].version <= version /\ tokens'[i].session \in 1 .. j
  <2>1. ASSUME NEW i \in DOMAIN tokens
        PROVE  tokens[i].version <= version /\ tokens[i].session \in 1 .. j
    BY <1>0, <2>1 DEF Versioned
  <2> QED
    BY <1>2, <1>3, <1>5, <1>6, <2>1
<1>13. RevokedForGood'
  BY <1>1, <1>4, <1>5, <1>6 DEF Versioned, RevokedForGood
<1>14. ASSUME NEW d \in Calls PROVE Fit(call[d])'
  <2>1. CASE d = c
    BY <1>0, <1>1, <1>8, <2>1, IdleTyped DEF Fit
  <2>2. CASE d # c
    <3>1. Fit(call[d]) /\ call'[d] = call[d]
      BY <1>8, <2>2 DEF Versioned
    <3>2. 0 .. Len(tokens) \subseteq 0 .. Len(tokens')
      BY <1>0, <1>6
    <3> QED
      BY <1>1, <1>6, <3>1, <3>2 DEF Fit
  <2> QED
    BY <2>1, <2>2
<1> QED
  BY <1>1, <1>6, <1>8, <1>10, <1>11, <1>12, <1>13, <1>14 DEF TypeOK, Versioned

\* Every step keeps types and invariant.
LEMMA StepVersioned == TypeOK /\ Versioned /\ [Next]_vars => TypeOK' /\ Versioned'
<1> SUFFICES ASSUME TypeOK, Versioned, [Next]_vars PROVE TypeOK' /\ Versioned'
  OBVIOUS
<1>1. ASSUME NEW c \in Calls, CallStep(c) PROVE TypeOK' /\ Versioned'
  <2>1. PICK r \in Call : Puts(c, r) /\ Fit(r)
    BY <1>1, FitCall
  <2>2. UNCHANGED <<version, tokens, revoked>>
    BY <1>1, FitCall
  <2>3. call' \in [Calls -> Call] /\ Versioned'
    BY <2>1, <2>2, SameTokens
  <2> QED
    BY <1>1, <2>3, CallStepStored DEF TypeOK
<1>2. ASSUME NEW c \in Calls, IssueTokens(c) PROVE TypeOK' /\ Versioned'
  BY <1>2, Issued
<1>3. ASSUME RaiseVersion, blocked' \in BOOLEAN,
             UNCHANGED <<tokens, code, codes, refresh, session, members, grants, stepUp, accepted>>
      PROVE  Stored'
  <2>1. version' \in Versions
    BY <1>3, AuthAssumption DEF RaiseVersion, TypeOK, Stored, Versions
  <2>2. revoked' \subseteq Sessions
    BY <1>3, Ranges DEF RaiseVersion, TypeOK, Stored, Token
  <2> QED
    BY <1>3, <2>1, <2>2 DEF TypeOK, Stored
<1>4. ASSUME NEW c \in Calls, BumpVersion(c) PROVE TypeOK' /\ Versioned'
  <2>1. /\ RaiseVersion /\ blocked' \in BOOLEAN /\ Goto(c, "sweep")
        /\ UNCHANGED <<tokens, code, codes, refresh, session, members, grants, stepUp, accepted>>
    BY <1>4 DEF BumpVersion, otp, redis, granting, TypeOK, Stored
  <2>2. call \in [Calls -> Call] /\ "sweep" \in Pcs
    BY DEF TypeOK, Pcs
  <2>3. PICK r \in Call : Puts(c, r) /\ r.pc = "sweep" /\ r.version = call[c].version
    BY <2>1, <2>2, Gone
  <2>4. call' \in [Calls -> Call] /\ call'[c] = r /\ \A d \in Calls : d # c => call'[d] = call[d]
    BY <2>2, <2>3, Put
  <2>5. Versioned'
    BY <2>1, <2>3, <2>4, Raised
  <2> QED
    BY <1>3, <2>1, <2>4, <2>5 DEF TypeOK
<1>5. CASE BlockUser
  <2>1. /\ RaiseVersion /\ blocked' \in BOOLEAN /\ UNCHANGED call
        /\ UNCHANGED <<tokens, code, codes, refresh, session, members, grants, stepUp, accepted>>
    BY <1>5 DEF BlockUser, otp, redis, granting
  <2>2. Versioned'
    BY <2>1, Raised
  <2> QED
    BY <1>3, <2>1, <2>2 DEF TypeOK
<1>6. ASSUME Stored', UNCHANGED <<version, tokens, revoked, call>> PROVE TypeOK' /\ Versioned'
  BY <1>6 DEF TypeOK, Versioned, RevokedForGood, Fit
<1>7. CASE CodeExpires
  <2>1. codes' \in 0 .. MaxCodes /\ code' \in 0 .. codes'
    BY <1>7, AuthAssumption DEF CodeExpires, TypeOK, Stored
  <2> QED
    BY <1>6, <1>7, <2>1, Sameness DEF CodeExpires, user, redis, granting
<1>8. ASSUME NEW s \in Sessions, SessionExpires(s) PROVE TypeOK' /\ Versioned'
  <2>1. /\ refresh' \subseteq refresh /\ members' \subseteq members
        /\ session' = Restrict(session, DOMAIN session \ {s})
        /\ UNCHANGED <<version, blocked, code, codes, tokens, grants, stepUp, accepted, revoked, call>>
    BY <1>8 DEF SessionExpires, Without, user, otp, granting
  <2> QED
    BY <1>6, <2>1, Fewer
<1>9. CASE UNCHANGED vars
  BY <1>6, <1>9 DEF vars, TypeOK, Stored
<1>10. \/ \E c \in Calls : CallStep(c) \/ IssueTokens(c) \/ BumpVersion(c)
       \/ \E s \in Sessions : SessionExpires(s)
       \/ CodeExpires \/ BlockUser \/ UNCHANGED vars
  BY DEF Next, CallStep, QuietStep
<1> QED
  BY <1>1, <1>2, <1>4, <1>5, <1>7, <1>8, <1>9, <1>10

\* At the start there are no tokens and no calls.
LEMMA InitVersioned == Init => TypeOK /\ Versioned
<1> SUFFICES ASSUME Init PROVE TypeOK /\ Versioned
  OBVIOUS
<1>1. Stored
  <2>1. tokens = <<>> /\ grants = <<>> /\ session = <<>> /\ accepted = <<>>
    BY DEF Init
  <2>2. /\ tokens \in Seq(Token) /\ grants \in Seq(GrantRow) /\ accepted \in Seq(Nat)
        /\ Len(tokens) = 0 /\ Len(grants) = 0 /\ Len(accepted) = 0 /\ DOMAIN session = {}
    BY <2>1
  <2>3. Range(session) = {}
    BY <2>2 DEF Range
  <2>4. blocked \in BOOLEAN
    BY DEF Init
  <2>5. version \in Versions /\ codes \in 0 .. MaxCodes /\ code \in 0 .. codes
    BY AuthAssumption DEF Init, Versions
  <2> QED
    BY <2>2, <2>3, <2>4, <2>5, AuthAssumption DEF Init, Stored, Token, GrantRow
<1>2. call \in [Calls -> Call]
  BY IdleTyped DEF Init
<1>3. Versioned
  BY IdleTyped DEF Init, Versioned, RevokedForGood, Fit
<1> QED
  BY <1>1, <1>2, <1>3 DEF TypeOK

\* Every variable stays in its range.
THEOREM TypeCorrect == Spec => []TypeOK
<1> QED
  BY InitVersioned, StepVersioned, PTL DEF Spec

\* However many refreshes overlap revocations of all sessions, a blocking of the user, expiry
\* and crashes, no session that had a token at a revocation ever holds one of the current
\* version again.
THEOREM RevocationIsFinal == Spec => []RevokedForGood
<1>1. Versioned => RevokedForGood
  BY DEF Versioned
<1> QED
  BY <1>1, InitVersioned, StepVersioned, PTL DEF Spec

-----------------------------------------------------------------------------
(***************************************************************************)
(* Credentials.  A code or a refresh token is spent when the one command   *)
(* that takes it out of Redis has run; what was bought with it is then     *)
(* held by the call that ran the command, until it is a token or a grant.  *)
(***************************************************************************)

OfCode(k) == [kind |-> "code", id |-> k]
OfToken(j) == [kind |-> "token", id |-> j]

Spent == {OfCode(k) : k \in (1 .. codes) \ {code}} \cup {OfToken(j) : j \in DOMAIN tokens \ refresh}

\* The record of a call that has taken a credential, the credential, and the session that the
\* call will give its next token.
Holding(r) == r.pc \in {"user", "grantUser", "grant", "owner", "issue"}
Holds(r) == IF r.pc \in {"owner", "issue"} THEN r.origin ELSE OfCode(r.code)
HoldsSession(r) == IF r.pc \in {"owner", "issue"} THEN r.session ELSE 0

\* A spent credential has one holder: a call, a token, or a grant.
OneHolder ==
  /\ \A c \in Calls : Holding(call[c]) => Holds(call[c]) \in Spent
  /\ \A c, d \in Calls : c # d /\ Holding(call[c]) /\ Holding(call[d]) =>
                          Holds(call[c]) # Holds(call[d])
  /\ \A j \in DOMAIN tokens : tokens[j].origin \in Spent
  /\ \A g \in DOMAIN grants : OfCode(grants[g].code) \in Spent
  /\ \A c \in Calls : Holding(call[c]) =>
       /\ \A j \in DOMAIN tokens : tokens[j].origin # Holds(call[c])
       /\ \A g \in DOMAIN grants : OfCode(grants[g].code) # Holds(call[c])
  /\ SpentOnce
  /\ \A g \in stepUp : accepted[g] = 0

\* A session goes on in one refresh token or in one call.
OneEnd ==
  /\ OneTokenPerSession
  /\ \A c \in Calls : HoldsSession(call[c]) # 0 =>
       \A i \in refresh : tokens[i].session # HoldsSession(call[c])
  /\ \A c, d \in Calls : c # d /\ HoldsSession(call[c]) # 0 =>
                          HoldsSession(call[c]) # HoldsSession(call[d])

\* What is spent stays spent: numbers of codes and tokens are never used again.
LEMMA SpentStays ==
  ASSUME TypeOK,
         \/ codes' = codes /\ code' \in {code, 0}
         \/ codes' = codes + 1 /\ code' = codes + 1,
         DOMAIN tokens \subseteq DOMAIN tokens', refresh' \cap DOMAIN tokens \subseteq refresh
  PROVE  Spent \subseteq Spent'
<1>1. codes \in Nat /\ code \in Nat
  BY AuthAssumption DEF TypeOK, Stored
<1>2. ASSUME NEW k \in 1 .. codes, k # code PROVE k \in 1 .. codes' /\ k # code'
  BY <1>1, <1>2
<1>3. ASSUME NEW j \in DOMAIN tokens, j \notin refresh PROVE j \in DOMAIN tokens' /\ j \notin refresh'
  BY <1>3
<1> QED
  BY <1>2, <1>3 DEF Spent

\* Nothing is taken and nothing is bought.
LEMMA NothingTaken ==
  ASSUME OneHolder, OneEnd, Spent \subseteq Spent',
         UNCHANGED <<tokens, grants, accepted>>, refresh' \subseteq refresh, stepUp' \subseteq stepUp,
         \A c \in Calls :
           \/ ~ Holding(call'[c]) /\ HoldsSession(call'[c]) = 0
           \/ /\ Holding(call[c]) /\ Holding(call'[c]) /\ Holds(call'[c]) = Holds(call[c])
              /\ HoldsSession(call'[c]) = HoldsSession(call[c])
  PROVE  OneHolder' /\ OneEnd'
<1>1. SpentOnce'
  BY DEF OneHolder, SpentOnce
<1>2. /\ \A c \in Calls : Holding(call'[c]) => Holds(call'[c]) \in Spent'
      /\ \A c, d \in Calls : c # d /\ Holding(call'[c]) /\ Holding(call'[d]) =>
                              Holds(call'[c]) # Holds(call'[d])
      /\ \A c \in Calls : Holding(call'[c]) =>
           /\ \A j \in DOMAIN tokens : tokens[j].origin # Holds(call'[c])
           /\ \A g \in DOMAIN grants : OfCode(grants[g].code) # Holds(call'[c])
  BY DEF OneHolder
<1>3. /\ \A j \in DOMAIN tokens : tokens[j].origin \in Spent'
      /\ \A g \in DOMAIN grants : OfCode(grants[g].code) \in Spent'
      /\ \A g \in stepUp' : accepted[g] = 0
  BY DEF OneHolder
<1>4. OneHolder'
  BY <1>1, <1>2, <1>3 DEF OneHolder
<1>5. OneEnd'
  BY DEF OneEnd, OneTokenPerSession
<1> QED
  BY <1>4, <1>5

\* A credential that nobody has spent is taken.
LEMMA Taken ==
  ASSUME OneHolder, NEW c \in Calls, NEW x, x \notin Spent, x \in Spent', Spent \subseteq Spent',
         UNCHANGED <<tokens, grants, accepted, stepUp>>,
         Holding(call'[c]), Holds(call'[c]) = x,
         \A d \in Calls : d # c => call'[d] = call[d]
  PROVE  OneHolder'
<1>1. SpentOnce'
  BY DEF OneHolder, SpentOnce
<1>2. \A d \in Calls : Holding(call'[d]) => Holds(call'[d]) \in Spent'
  BY DEF OneHolder
<1>3. \A d \in Calls : d # c /\ Holding(call'[d]) => Holds(call'[d]) \in Spent
  BY DEF OneHolder
<1>4. ASSUME NEW d \in Calls, NEW e \in Calls, d # e, Holding(call'[d]), Holding(call'[e])
      PROVE  Holds(call'[d]) # Holds(call'[e])
  <2>1. CASE d = c
    BY <1>3, <1>4, <2>1
  <2>2. CASE e = c
    BY <1>3, <1>4, <2>2
  <2>3. CASE d # c /\ e # c
    BY <1>4, <2>3 DEF OneHolder
  <2> QED
    BY <2>1, <2>2, <2>3
<1>5. ASSUME NEW d \in Calls, Holding(call'[d])
      PROVE  /\ \A j \in DOMAIN tokens : tokens[j].origin # Holds(call'[d])
             /\ \A g \in DOMAIN grants : OfCode(grants[g].code) # Holds(call'[d])
  <2>1. CASE d = c
    BY <2>1 DEF OneHolder
  <2>2. CASE d # c
    BY <1>5, <2>2 DEF OneHolder
  <2> QED
    BY <2>1, <2>2
<1>6. /\ \A j \in DOMAIN tokens : tokens[j].origin \in Spent'
      /\ \A g \in DOMAIN grants : OfCode(grants[g].code) \in Spent'
      /\ \A g \in stepUp : accepted[g] = 0
  BY DEF OneHolder
<1> QED
  BY <1>1, <1>2, <1>4, <1>5, <1>6 DEF OneHolder

\* The stored code, and a stored refresh token, have not been spent.
LEMMA StoredIsUnspent ==
  ASSUME TypeOK
  PROVE  /\ OfCode(code) \notin Spent
         /\ \A j \in refresh : OfToken(j) \notin Spent
BY DEF Spent, OfCode, OfToken

\* A call that ends, or starts elsewhere, takes nothing.
LEMMA OthersKeep ==
  ASSUME TypeOK, OneHolder, OneEnd, NEW c \in Calls, NEW r \in Call, Puts(c, r),
         \/ ~ Holding(r) /\ HoldsSession(r) = 0
         \/ /\ Holding(call[c]) /\ Holding(r) /\ Holds(r) = Holds(call[c])
            /\ HoldsSession(r) = HoldsSession(call[c]),
         Spent \subseteq Spent', UNCHANGED <<tokens, grants, accepted>>,
         refresh' \subseteq refresh, stepUp' \subseteq stepUp
  PROVE  OneHolder' /\ OneEnd'
<1>1. call'[c] = r /\ \A d \in Calls : d # c => call'[d] = call[d]
  BY Put DEF TypeOK
<1>2. ASSUME NEW d \in Calls
      PROVE  \/ ~ Holding(call'[d]) /\ HoldsSession(call'[d]) = 0
             \/ /\ Holding(call[d]) /\ Holding(call'[d]) /\ Holds(call'[d]) = Holds(call[d])
                /\ HoldsSession(call'[d]) = HoldsSession(call[d])
  <2>1. CASE d = c
    BY <1>1, <2>1
  <2>2. CASE d # c /\ Holding(call[d])
    BY <1>1, <2>2
  <2>3. CASE d # c /\ ~ Holding(call[d])
    BY <1>1, <2>3 DEF Holding, HoldsSession
  <2> QED
    BY <2>1, <2>2, <2>3
<1> QED
  BY <1>2, NothingTaken

\* The code is consumed.
LEMMA CodeTaken ==
  ASSUME TypeOK, Versioned, OneHolder, OneEnd, NEW c \in Calls, ConsumeCode(c), ~ End(c)
  PROVE  OneHolder' /\ OneEnd'
<1>1. /\ call[c].pc = "consume" /\ code = call[c].code /\ code' = 0 /\ codes' = codes
      /\ Goto(c, "user") \/ Goto(c, "grantUser")
      /\ UNCHANGED <<tokens, grants, accepted, stepUp, refresh>>
  BY DEF ConsumeCode, granting, redis
<1>2. PICK r \in Call : Puts(c, r) /\ r.pc \in {"user", "grantUser"} /\ r.code = code
  <2>1. call \in [Calls -> Call] /\ "user" \in Pcs /\ "grantUser" \in Pcs
    BY DEF TypeOK, Pcs
  <2>2. ASSUME NEW p \in {"user", "grantUser"}, Goto(c, p)
        PROVE  \E r \in Call : Puts(c, r) /\ r.pc \in {"user", "grantUser"} /\ r.code = code
    <3>1. p \in Pcs
      BY <2>1
    <3>2. PICK r \in Call : Puts(c, r) /\ r.pc = p /\ r.code = call[c].code
      BY <2>1, <2>2, <3>1, Gone
    <3> QED
      BY <1>1, <3>2
  <2> QED
    BY <1>1, <2>2
<1>3. call'[c] = r /\ \A d \in Calls : d # c => call'[d] = call[d]
  BY <1>2, Put DEF TypeOK
<1>4. Holding(r) /\ Holds(r) = OfCode(code) /\ HoldsSession(r) = 0
  BY <1>2 DEF Holding, Holds, HoldsSession
<1>5. code \in 1 .. codes /\ code # 0
  <2>1. code \in Codes
    BY <1>1 DEF Versioned, Fit
  <2> QED
    BY <2>1, AuthAssumption DEF Codes, TypeOK, Stored
<1>6. OfCode(code) \in Spent' /\ OfCode(code) \notin Spent
  BY <1>1, <1>5, StoredIsUnspent DEF Spent
<1>7. Spent \subseteq Spent'
  BY <1>1, SpentStays
<1>8. OneHolder'
  BY <1>1, <1>3, <1>4, <1>6, <1>7, Taken
<1>9. OneEnd'
  <2>1. \A d \in Calls : HoldsSession(call'[d]) # 0 => d # c /\ HoldsSession(call'[d]) = HoldsSession(call[d])
    BY <1>3, <1>4
  <2>2. \A d \in Calls : HoldsSession(call'[d]) \in {0, HoldsSession(call[d])}
    BY <1>3, <1>4
  <2> QED
    BY <1>1, <2>1, <2>2 DEF OneEnd, OneTokenPerSession
<1> QED
  BY <1>8, <1>9

\* The refresh token is taken.
LEMMA TokenTaken ==
  ASSUME TypeOK, Versioned, OneHolder, OneEnd, NEW c \in Calls, NEW j \in refresh, TakeToken(c, j)
  PROVE  OneHolder' /\ OneEnd'
<1> DEFINE s == tokens[j].session
<1> DEFINE o == [kind |-> "token", id |-> j]
<1> DEFINE r == [Idle EXCEPT !.pc = "owner", !.session = s, !.origin = o]
<1>0. j \in DOMAIN tokens /\ j \in Tokens /\ s \in Sessions
  BY Ranges DEF TypeOK, Stored, Token
<1>1. /\ call' = [call EXCEPT ![c] = r] /\ refresh' = refresh \ {j}
      /\ UNCHANGED <<tokens, grants, accepted, stepUp, code, codes>>
  BY DEF TakeToken, granting, otp
<1>2. o \in Origins /\ o = OfToken(j) /\ "owner" \in Pcs
  BY <1>0 DEF Origins, OfToken, Pcs
<1> HIDE DEF s, o
<1>3. r \in Call /\ r.pc = "owner" /\ r.session = s /\ r.origin = OfToken(j)
  BY <1>0, <1>2, IdleTyped DEF Call, Idle
<1>4. call'[c] = r /\ \A d \in Calls : d # c => call'[d] = call[d]
  BY <1>1, <1>3, Put DEF TypeOK, Puts
<1> HIDE DEF r
<1>5. Holding(r) /\ Holds(r) = OfToken(j) /\ HoldsSession(r) = s
  BY <1>3 DEF Holding, Holds, HoldsSession
<1>6. OfToken(j) \in Spent' /\ OfToken(j) \notin Spent
  BY <1>0, <1>1, StoredIsUnspent DEF Spent
<1>7. Spent \subseteq Spent'
  <2>1. refresh' \cap DOMAIN tokens \subseteq refresh
    BY <1>1
  <2>2. codes' = codes /\ code' \in {code, 0} /\ DOMAIN tokens \subseteq DOMAIN tokens'
    BY <1>1
  <2> QED
    BY <2>1, <2>2, SpentStays
<1>8. OneHolder'
  BY <1>1, <1>4, <1>5, <1>6, <1>7, Taken
<1>9. \A i \in refresh' : tokens[i].session # s
  BY <1>1 DEF OneEnd, OneTokenPerSession, s
<1>10. \A d \in Calls : d # c /\ HoldsSession(call'[d]) # 0 =>
         HoldsSession(call'[d]) # s /\ HoldsSession(call'[d]) = HoldsSession(call[d])
  BY <1>4 DEF OneEnd, s
<1>11. \A d \in Calls : HoldsSession(call'[d]) # 0 =>
         \A i \in refresh' : tokens'[i].session # HoldsSession(call'[d])
  BY <1>1, <1>4, <1>5, <1>9, <1>10 DEF OneEnd
<1>12. ASSUME NEW d \in Calls, NEW e \in Calls, d # e, HoldsSession(call'[d]) # 0
       PROVE  HoldsSession(call'[d]) # HoldsSession(call'[e])
  <2>1. CASE d = c
    <3>1. HoldsSession(call'[e]) # s
      BY <1>10, <1>12, <2>1, <1>4, <1>5
    <3> QED
      BY <1>4, <1>5, <2>1, <3>1
  <2>2. CASE e = c
    BY <1>4, <1>5, <1>10, <1>12, <2>2
  <2>3. CASE d # c /\ e # c
    BY <1>4, <1>12, <2>3 DEF OneEnd
  <2> QED
    BY <2>1, <2>2, <2>3
<1>13. OneTokenPerSession'
  BY <1>1 DEF OneEnd, OneTokenPerSession
<1> QED
  BY <1>8, <1>11, <1>12, <1>13 DEF OneEnd

\* The call ends, and nobody else changes.
LEMMA Ended ==
  ASSUME TypeOK, NEW c \in Calls, End(c)
  PROVE  \A d \in Calls : IF d = c THEN ~ Holding(call'[d]) /\ HoldsSession(call'[d]) = 0
                                  ELSE call'[d] = call[d]
<1>1. Puts(c, Idle)
  BY DEF End, Puts
<1>2. call'[c] = Idle /\ \A d \in Calls : d # c => call'[d] = call[d]
  BY <1>1, Put, IdleTyped DEF TypeOK
<1> QED
  BY <1>2, IdleTyped DEF Holding, HoldsSession

\* What the call has taken becomes a token.
LEMMA TokenBought ==
  ASSUME TypeOK, Versioned, OneHolder, OneEnd, NEW c \in Calls, IssueTokens(c)
  PROVE  OneHolder' /\ OneEnd'
<1> DEFINE j == Len(tokens) + 1
<1> DEFINE s == IF call[c].session = 0 THEN j ELSE call[c].session
<1> DEFINE t == [session |-> s, version |-> call[c].version, origin |-> call[c].origin]
<1>1. /\ call[c].pc = "issue" /\ tokens' = Append(tokens, t) /\ End(c)
      /\ refresh' = refresh \cup {j}
      /\ UNCHANGED <<code, codes, grants, stepUp, accepted>>
  BY DEF IssueTokens, otp, granting
<1>2. t.session = s /\ t.origin = call[c].origin
  OBVIOUS
<1>3. Holding(call[c]) /\ Holds(call[c]) = t.origin /\ HoldsSession(call[c]) = call[c].session
  BY <1>1, <1>2 DEF Holding, Holds, HoldsSession
<1>4. call[c].session \in 0 .. Len(tokens) /\ tokens \in Seq(Token) /\ Len(tokens) \in Nat
      /\ refresh \subseteq DOMAIN tokens
  BY <1>1 DEF Versioned, Fit, TypeOK, Stored, Token
<1>5. s # 0 /\ (s = call[c].session \/ s = j)
  BY <1>4
<1> HIDE DEF s, t
<1>6. /\ DOMAIN tokens' = DOMAIN tokens \cup {j} /\ tokens'[j] = t /\ j \notin DOMAIN tokens
      /\ \A i \in DOMAIN tokens : tokens'[i] = tokens[i]
  BY <1>1, <1>4
<1> HIDE DEF j
<1>7. Spent \subseteq Spent'
  <2>1. refresh' \cap DOMAIN tokens \subseteq refresh
    BY <1>1, <1>6
  <2>2. codes' = codes /\ code' \in {code, 0} /\ DOMAIN tokens \subseteq DOMAIN tokens'
    BY <1>1, <1>6
  <2> QED
    BY <2>1, <2>2, SpentStays
<1>8. \A d \in Calls : IF d = c THEN ~ Holding(call'[d]) /\ HoldsSession(call'[d]) = 0
                                ELSE call'[d] = call[d]
  BY <1>1, Ended
<1>9. \A i \in DOMAIN tokens : tokens[i].origin # t.origin
  BY <1>3 DEF OneHolder
<1>10. \A g \in DOMAIN grants : OfCode(grants[g].code) # t.origin
  BY <1>3 DEF OneHolder
<1>11. SpentOnce'
  <2>1. \A h, i \in DOMAIN tokens' : tokens'[h].origin = tokens'[i].origin => h = i
    BY <1>6, <1>9 DEF OneHolder, SpentOnce
  <2>2. \A i \in DOMAIN tokens', g \in DOMAIN grants :
          tokens'[i].origin # [kind |-> "code", id |-> grants[g].code]
    BY <1>6, <1>10 DEF OneHolder, SpentOnce, OfCode
  <2> QED
    BY <1>1, <2>1, <2>2 DEF OneHolder, SpentOnce
<1>12. \A d \in Calls : Holding(call'[d]) =>
         /\ d # c /\ call'[d] = call[d]
         /\ Holds(call[d]) \in Spent' /\ Holds(call[d]) # t.origin
  BY <1>3, <1>7, <1>8 DEF OneHolder
<1>13. \A i \in DOMAIN tokens' : tokens'[i].origin \in Spent'
  BY <1>3, <1>6, <1>7 DEF OneHolder
<1>14. OneHolder'
  <2>1. \A d \in Calls : Holding(call'[d]) =>
          /\ \A i \in DOMAIN tokens' : tokens'[i].origin # Holds(call'[d])
          /\ \A g \in DOMAIN grants : OfCode(grants[g].code) # Holds(call'[d])
    BY <1>6, <1>12 DEF OneHolder
  <2>2. \A d, e \in Calls : d # e /\ Holding(call'[d]) /\ Holding(call'[e]) =>
                           Holds(call'[d]) # Holds(call'[e])
    BY <1>12 DEF OneHolder
  <2>3. \A g \in DOMAIN grants : OfCode(grants[g].code) \in Spent'
    BY <1>7 DEF OneHolder
  <2>4. \A g \in stepUp : accepted[g] = 0
    BY DEF OneHolder
  <2> QED
    BY <1>1, <1>11, <1>12, <1>13, <2>1, <2>2, <2>3, <2>4 DEF OneHolder
<1>15. \A i \in refresh : tokens[i].session # s
  <2>1. \A i \in refresh : tokens[i].session # j
    BY <1>4 DEF Versioned, j
  <2>2. call[c].session # 0 => \A i \in refresh : tokens[i].session # call[c].session
    BY <1>3 DEF OneEnd
  <2> QED
    BY <1>5, <2>1, <2>2
<1>16. \A d \in Calls : d # c => HoldsSession(call[d]) # s
  <2>1. \A d \in Calls : HoldsSession(call[d]) \in 0 .. Len(tokens)
    <3>1. \A d \in Calls : /\ call[d].pc = "issue" => call[d].session \in 0 .. Len(tokens)
                           /\ call[d].pc = "owner" => call[d].session \in 1 .. Len(tokens)
      BY DEF Versioned, Fit
    <3> QED
      BY <1>4, <3>1 DEF HoldsSession
  <2>2. \A d \in Calls : HoldsSession(call[d]) # j
    BY <1>4, <2>1 DEF j
  <2>3. call[c].session # 0 => \A d \in Calls : d # c => HoldsSession(call[d]) # call[c].session
    BY <1>3 DEF OneEnd
  <2> QED
    BY <1>5, <2>2, <2>3
<1>17. OneTokenPerSession'
  BY <1>1, <1>2, <1>4, <1>6, <1>15 DEF OneEnd, OneTokenPerSession
<1>18. \A d \in Calls : HoldsSession(call'[d]) # 0 => d # c /\ call'[d] = call[d]
  BY <1>8
<1>19. \A d \in Calls : HoldsSession(call'[d]) # 0 =>
         \A i \in refresh' : tokens'[i].session # HoldsSession(call'[d])
  BY <1>1, <1>2, <1>4, <1>6, <1>16, <1>18 DEF OneEnd
<1>20. \A d, e \in Calls : d # e /\ HoldsSession(call'[d]) # 0 =>
         HoldsSession(call'[d]) # HoldsSession(call'[e])
  BY <1>8, <1>18 DEF OneEnd
<1> QED
  BY <1>14, <1>17, <1>19, <1>20 DEF OneEnd

\* What the call has taken becomes a grant.
LEMMA GrantBought ==
  ASSUME TypeOK, Versioned, OneHolder, OneEnd, NEW c \in Calls, Grant(c)
  PROVE  OneHolder' /\ OneEnd'
<1> DEFINE g == Len(grants) + 1
<1> DEFINE row == [version |-> call[c].version, code |-> call[c].code]
<1>1. /\ call[c].pc = "grant" /\ grants' = Append(grants, row) /\ stepUp' = stepUp \cup {g}
      /\ accepted' = Append(accepted, 0) /\ End(c)
      /\ UNCHANGED <<code, codes, tokens, refresh>>
  BY DEF Grant, otp, redis
<1>2. row.code = call[c].code
  OBVIOUS
<1>3. Holding(call[c]) /\ Holds(call[c]) = OfCode(row.code)
  BY <1>1, <1>2 DEF Holding, Holds
<1>4. /\ grants \in Seq(GrantRow) /\ accepted \in Seq(Nat) /\ Len(accepted) = Len(grants)
      /\ stepUp \subseteq DOMAIN grants
  BY DEF TypeOK, Stored, GrantRow
<1> HIDE DEF row
<1>5. /\ DOMAIN grants' = DOMAIN grants \cup {g} /\ grants'[g] = row /\ g \notin DOMAIN grants
      /\ \A h \in DOMAIN grants : grants'[h] = grants[h]
  BY <1>1, <1>4
<1>6. accepted'[g] = 0 /\ \A h \in DOMAIN grants : accepted'[h] = accepted[h]
  BY <1>1, <1>4
<1> HIDE DEF g
<1>7. Spent' = Spent
  BY <1>1 DEF Spent
<1>8. \A d \in Calls : IF d = c THEN ~ Holding(call'[d]) /\ HoldsSession(call'[d]) = 0
                                ELSE call'[d] = call[d]
  BY <1>1, Ended
<1>9. /\ \A i \in DOMAIN tokens : tokens[i].origin # OfCode(row.code)
      /\ \A h \in DOMAIN grants : grants[h].code # row.code
  BY <1>3 DEF OneHolder, OfCode
<1>10. SpentOnce'
  <2>1. \A h, i \in DOMAIN grants' : grants'[h].code = grants'[i].code => h = i
    BY <1>5, <1>9 DEF OneHolder, SpentOnce
  <2>2. \A i \in DOMAIN tokens, h \in DOMAIN grants' :
          tokens[i].origin # [kind |-> "code", id |-> grants'[h].code]
    BY <1>5, <1>9 DEF OneHolder, SpentOnce, OfCode
  <2>3. \A h \in DOMAIN grants' : accepted'[h] <= 1
    BY <1>5, <1>6 DEF OneHolder, SpentOnce
  <2> QED
    BY <1>1, <2>1, <2>2, <2>3 DEF OneHolder, SpentOnce
<1>11. \A d \in Calls : Holding(call'[d]) =>
         d # c /\ call'[d] = call[d] /\ Holds(call[d]) # OfCode(row.code)
  BY <1>3, <1>8 DEF OneHolder
<1>12. OneHolder'
  <2>1. \A d \in Calls : Holding(call'[d]) =>
          /\ \A i \in DOMAIN tokens : tokens[i].origin # Holds(call'[d])
          /\ \A h \in DOMAIN grants' : OfCode(grants'[h].code) # Holds(call'[d])
    BY <1>5, <1>11 DEF OneHolder
  <2>2. /\ \A d \in Calls : Holding(call'[d]) => Holds(call'[d]) \in Spent
        /\ \A d, e \in Calls : d # e /\ Holding(call'[d]) /\ Holding(call'[e]) =>
                              Holds(call'[d]) # Holds(call'[e])
    BY <1>11 DEF OneHolder
  <2>3. \A h \in DOMAIN grants' : OfCode(grants'[h].code) \in Spent
    BY <1>3, <1>5 DEF OneHolder
  <2>4. \A h \in stepUp' : accepted'[h] = 0
    BY <1>1, <1>4, <1>6 DEF OneHolder
  <2>5. \A j \in DOMAIN tokens : tokens[j].origin \in Spent
    BY DEF OneHolder
  <2> QED
    BY <1>1, <1>7, <1>10, <2>1, <2>2, <2>3, <2>4, <2>5 DEF OneHolder
<1>13. OneEnd'
  <2>1. \A d \in Calls : HoldsSession(call'[d]) # 0 => d # c /\ call'[d] = call[d]
    BY <1>8
  <2>2. \A d \in Calls : HoldsSession(call'[d]) \in {0, HoldsSession(call[d])}
    BY <1>8
  <2> QED
    BY <1>1, <2>1, <2>2 DEF OneEnd, OneTokenPerSession
<1> QED
  BY <1>12, <1>13

\* A grant is taken, and perhaps honoured.
LEMMA GrantSpent ==
  ASSUME TypeOK, OneHolder, OneEnd, NEW c \in Calls, TakeGrant(c)
  PROVE  OneHolder' /\ OneEnd'
<1> DEFINE g == call[c].grant
<1>1. /\ stepUp' = stepUp \ {g}
      /\ \/ accepted' = accepted
         \/ g \in stepUp /\ accepted' = [accepted EXCEPT ![g] = @ + 1]
      /\ End(c) /\ UNCHANGED <<grants, tokens, refresh, code, codes>>
  BY DEF TakeGrant, otp, redis
<1>2. accepted \in Seq(Nat) /\ DOMAIN accepted = DOMAIN grants /\ stepUp \subseteq DOMAIN grants
  BY DEF TypeOK, Stored
<1> HIDE DEF g
<1>3. /\ \A h \in DOMAIN grants : h # g => accepted'[h] = accepted[h]
      /\ accepted'[g] = accepted[g] \/ (g \in stepUp /\ accepted'[g] = accepted[g] + 1)
  BY <1>1, <1>2
<1>4. \A h \in DOMAIN grants : accepted'[h] <= 1
  BY <1>2, <1>3 DEF OneHolder, SpentOnce
<1>5. \A h \in stepUp' : accepted'[h] = 0
  BY <1>1, <1>2, <1>3 DEF OneHolder
<1>6. \A d \in Calls : IF d = c THEN ~ Holding(call'[d]) /\ HoldsSession(call'[d]) = 0
                                ELSE call'[d] = call[d]
  BY <1>1, Ended
<1>7. Spent' = Spent
  BY <1>1 DEF Spent
<1>8. \A d \in Calls : Holding(call'[d]) => d # c /\ call'[d] = call[d]
  BY <1>6
<1>9. SpentOnce'
  BY <1>1, <1>4 DEF OneHolder, SpentOnce
<1>10. OneHolder'
  BY <1>1, <1>5, <1>7, <1>8, <1>9 DEF OneHolder
<1>11. OneEnd'
  <2>1. \A d \in Calls : HoldsSession(call'[d]) # 0 => d # c /\ call'[d] = call[d]
    BY <1>6
  <2>2. \A d \in Calls : HoldsSession(call'[d]) \in {0, HoldsSession(call[d])}
    BY <1>6
  <2> QED
    BY <1>1, <2>1, <2>2 DEF OneEnd, OneTokenPerSession
<1> QED
  BY <1>10, <1>11

\* Every other step of a call takes and buys nothing.
LEMMA NothingBought ==
  ASSUME TypeOK, Versioned, OneHolder, OneEnd, NEW c \in Calls, CallStep(c),
         ~ Grant(c), ~ TakeGrant(c), ConsumeCode(c) => End(c),
         \A j \in refresh : ~ TakeToken(c, j)
  PROVE  OneHolder' /\ OneEnd'
<1>0. call \in [Calls -> Call] /\ call[c] \in Call /\ version \in Versions
  BY Ranges
<1>1. /\ \/ codes' = codes /\ code' \in {code, 0}
         \/ codes' = codes + 1 /\ code' = codes + 1
      /\ UNCHANGED <<tokens, grants, accepted, stepUp>> /\ refresh' \subseteq refresh
  BY DEF CallStep, QuietStep, RequestOtp, SendOtp, Logout, FindSession, FindStale, DropSession,
         ForgetToken, EndSession, ReadAll, SweepAll, Unlist, LoadGrantee, PresentGrant, Fails,
         PresentCode, CompareCode, ConsumeCode, LoadUser, CheckOwner, TakeToken, otp, redis, granting
<1>2. Spent \subseteq Spent'
  <2>1. DOMAIN tokens \subseteq DOMAIN tokens' /\ refresh' \cap DOMAIN tokens \subseteq refresh
    BY <1>1
  <2> QED
    BY <1>1, <2>1, SpentStays
<1>3. ASSUME NEW r \in Call, Puts(c, r),
             \/ ~ Holding(r) /\ HoldsSession(r) = 0
             \/ /\ Holding(call[c]) /\ Holding(r) /\ Holds(r) = Holds(call[c])
                /\ HoldsSession(r) = HoldsSession(call[c])
      PROVE  OneHolder' /\ OneEnd'
  BY <1>1, <1>2, <1>3, OthersKeep
<1>4. ASSUME NEW r \in Call, Puts(c, r), r.pc \notin {"user", "grantUser", "grant", "owner", "issue"}
      PROVE  OneHolder' /\ OneEnd'
  <2>1. ~ Holding(r) /\ HoldsSession(r) = 0
    BY <1>4 DEF Holding, HoldsSession
  <2> QED
    BY <1>3, <1>4, <2>1
<1>5. CASE End(c)
  <2>1. Puts(c, Idle)
    BY <1>5 DEF End, Puts
  <2> QED
    BY <1>4, <2>1, IdleTyped
<1>6. CASE QuietStep(c)
  <2>1. PICK r \in Call : Puts(c, r) /\ r.pc \in QuietPcs
    BY <1>6, QuietCall
  <2> QED
    BY <1>4, <2>1 DEF QuietPcs
<1>7. ASSUME NEW k \in 1 .. codes, NEW for \in {"login", "stepUp"}, PresentCode(c, k, for)
      PROVE  OneHolder' /\ OneEnd'
  <2> DEFINE r == [Idle EXCEPT !.pc = "compare", !.code = k, !.for = for]
  <2>1. k \in 0 .. MaxCodes /\ "compare" \in Pcs
    BY AuthAssumption DEF TypeOK, Stored, Pcs
  <2>2. r \in Call /\ r.pc = "compare"
    BY <2>1, IdleTyped DEF Call, Idle
  <2>3. Puts(c, r)
    BY <1>7 DEF PresentCode, Puts
  <2> HIDE DEF r
  <2> QED
    BY <1>4, <2>2, <2>3
<1>8. CASE CompareCode(c) /\ ~ End(c)
  <2>1. Goto(c, "consume") /\ "consume" \in Pcs
    BY <1>8 DEF CompareCode, Pcs
  <2>2. PICK r \in Call : Puts(c, r) /\ r.pc = "consume"
    BY <1>0, <2>1, Gone
  <2> QED
    BY <1>4, <2>2
<1>9. CASE LoadUser(c) /\ ~ End(c)
  <2> DEFINE o == [kind |-> "code", id |-> call[c].code]
  <2> DEFINE r == [call[c] EXCEPT !.pc = "issue", !.version = version, !.origin = o]
  <2>1. Puts(c, r) /\ call[c].pc = "user"
    BY <1>9 DEF LoadUser, Puts
  <2>2. call[c].code \in Codes /\ call[c].session = 0
    BY <2>1 DEF Versioned, Fit
  <2>3. o \in Origins /\ "issue" \in Pcs /\ o = OfCode(call[c].code)
    BY <2>2 DEF Origins, Pcs, OfCode
  <2> HIDE DEF o
  <2>4. /\ r \in Call /\ r.pc = "issue" /\ r.session = 0 /\ r.origin = o
    BY <1>0, <2>2, <2>3 DEF Call
  <2> HIDE DEF r
  <2>5. /\ Holding(call[c]) /\ Holding(r) /\ Holds(r) = Holds(call[c])
        /\ HoldsSession(r) = HoldsSession(call[c])
    BY <2>1, <2>3, <2>4 DEF Holding, Holds, HoldsSession
  <2> QED
    BY <1>3, <2>1, <2>4, <2>5
<1>10. CASE CheckOwner(c) /\ ~ End(c)
  <2>1. Reads(c, "issue", version) /\ call[c].pc = "owner" /\ "issue" \in Pcs
    BY <1>10 DEF CheckOwner, Reads, Pcs
  <2>2. PICK r \in Call : /\ Puts(c, r) /\ r.pc = "issue" /\ r.session = call[c].session
                          /\ r.origin = call[c].origin
    BY <1>0, <2>1, GoneWithVersion
  <2>3. /\ Holding(call[c]) /\ Holding(r) /\ Holds(r) = Holds(call[c])
        /\ HoldsSession(r) = HoldsSession(call[c])
    BY <2>1, <2>2 DEF Holding, Holds, HoldsSession
  <2> QED
    BY <1>3, <2>2, <2>3
<1>11. CASE LoadGrantee(c) /\ ~ End(c)
  <2>1. Reads(c, "grant", version) /\ call[c].pc = "grantUser" /\ "grant" \in Pcs
    BY <1>11 DEF LoadGrantee, Reads, Pcs
  <2>2. PICK r \in Call : /\ Puts(c, r) /\ r.pc = "grant" /\ r.code = call[c].code
    BY <1>0, <2>1, GoneWithVersion
  <2>3. /\ Holding(call[c]) /\ Holding(r) /\ Holds(r) = Holds(call[c])
        /\ HoldsSession(r) = HoldsSession(call[c])
    BY <2>1, <2>2 DEF Holding, Holds, HoldsSession
  <2> QED
    BY <1>3, <2>2, <2>3
<1>12. ASSUME NEW j \in DOMAIN tokens, TakeToken(c, j) PROVE OneHolder' /\ OneEnd'
  <2> DEFINE s == tokens[j].session
  <2> DEFINE o == [kind |-> "token", id |-> j]
  <2> DEFINE r == [Idle EXCEPT !.pc = "find", !.session = s, !.origin = o]
  <2>0. s \in Sessions /\ o \in Origins /\ "find" \in Pcs
    BY Ranges DEF Token, Origins, Pcs
  <2>1. j \notin refresh
    BY <1>12
  <2>2. Puts(c, r)
    BY <1>12, <2>1 DEF TakeToken, Puts
  <2> HIDE DEF s, o
  <2>3. r \in Call /\ r.pc = "find"
    BY <2>0, IdleTyped DEF Call, Idle
  <2> HIDE DEF r
  <2> QED
    BY <1>4, <2>2, <2>3
<1> QED
  BY <1>5, <1>6, <1>7, <1>8, <1>9, <1>10, <1>11, <1>12 DEF CallStep

\* Steps that concern no holder.
LEMMA HoldersUntouched ==
  ASSUME TypeOK, OneHolder, OneEnd,
         \A c \in Calls : \/ call'[c] = call[c]
                          \/ call'[c].pc = "sweep",
         code' \in {code, 0}, refresh' \subseteq refresh,
         UNCHANGED <<codes, tokens, grants, stepUp, accepted>>
  PROVE  OneHolder' /\ OneEnd'
<1>1. DOMAIN tokens \subseteq DOMAIN tokens' /\ refresh' \cap DOMAIN tokens \subseteq refresh
  OBVIOUS
<1>2. Spent \subseteq Spent'
  BY <1>1, SpentStays
<1>3. ASSUME NEW c \in Calls
      PROVE  \/ ~ Holding(call'[c]) /\ HoldsSession(call'[c]) = 0
             \/ /\ Holding(call[c]) /\ Holding(call'[c]) /\ Holds(call'[c]) = Holds(call[c])
                /\ HoldsSession(call'[c]) = HoldsSession(call[c])
  <2>1. CASE call'[c].pc = "sweep"
    BY <2>1 DEF Holding, HoldsSession
  <2>2. CASE call'[c] = call[c] /\ Holding(call[c])
    BY <2>2
  <2>3. CASE call'[c] = call[c] /\ ~ Holding(call[c])
    BY <2>3 DEF Holding, HoldsSession
  <2> QED
    BY <2>1, <2>2, <2>3
<1> QED
  BY <1>2, <1>3, NothingTaken

\* Every step keeps the holders apart.
LEMMA StepHolders ==
  TypeOK /\ Versioned /\ OneHolder /\ OneEnd /\ [Next]_vars => OneHolder' /\ OneEnd'
<1> SUFFICES ASSUME TypeOK, Versioned, OneHolder, OneEnd, [Next]_vars PROVE OneHolder' /\ OneEnd'
  OBVIOUS
<1>1. ASSUME NEW c \in Calls, CallStep(c) PROVE OneHolder' /\ OneEnd'
  <2>1. CASE Grant(c)
    BY <2>1, GrantBought
  <2>2. CASE TakeGrant(c)
    BY <2>2, GrantSpent
  <2>3. CASE ConsumeCode(c) /\ ~ End(c)
    BY <2>3, CodeTaken
  <2>4. CASE \E j \in refresh : TakeToken(c, j)
    BY <2>4, TokenTaken
  <2>5. CASE /\ ~ Grant(c) /\ ~ TakeGrant(c) /\ (ConsumeCode(c) => End(c))
             /\ \A j \in refresh : ~ TakeToken(c, j)
    BY <1>1, <2>5, NothingBought
  <2> QED
    BY <2>1, <2>2, <2>3, <2>4, <2>5
<1>2. ASSUME NEW c \in Calls, IssueTokens(c) PROVE OneHolder' /\ OneEnd'
  BY <1>2, TokenBought
<1>3. ASSUME NEW c \in Calls, BumpVersion(c) PROVE OneHolder' /\ OneEnd'
  <2>1. call \in [Calls -> Call] /\ "sweep" \in Pcs /\ Goto(c, "sweep")
    BY <1>3 DEF TypeOK, Pcs, BumpVersion
  <2>2. PICK r \in Call : Puts(c, r) /\ r.pc = "sweep"
    BY <2>1, Gone
  <2>3. call'[c].pc = "sweep" /\ \A d \in Calls : d # c => call'[d] = call[d]
    BY <2>1, <2>2, Put
  <2>4. UNCHANGED <<code, codes, refresh, tokens, grants, stepUp, accepted>>
    BY <1>3 DEF BumpVersion, otp, redis, granting
  <2> QED
    BY <2>3, <2>4, HoldersUntouched
<1>4. CASE BlockUser
  <2>1. UNCHANGED <<call, code, codes, refresh, tokens, grants, stepUp, accepted>>
    BY <1>4 DEF BlockUser, otp, redis, granting
  <2> QED
    BY <2>1, HoldersUntouched
<1>5. CASE CodeExpires
  <2>1. code' = 0 /\ UNCHANGED <<call, codes, refresh, tokens, grants, stepUp, accepted>>
    BY <1>5 DEF CodeExpires, redis, granting
  <2> QED
    BY <2>1, HoldersUntouched
<1>6. ASSUME NEW s \in Sessions, SessionExpires(s) PROVE OneHolder' /\ OneEnd'
  <2>1. refresh' \subseteq refresh /\ UNCHANGED <<call, code, codes, tokens, grants, stepUp, accepted>>
    BY <1>6 DEF SessionExpires, otp, granting
  <2> QED
    BY <2>1, HoldersUntouched
<1>7. CASE UNCHANGED vars
  <2>1. UNCHANGED <<call, code, codes, refresh, tokens, grants, stepUp, accepted>>
    BY <1>7 DEF vars
  <2> QED
    BY <2>1, HoldersUntouched
<1>8. \/ \E c \in Calls : CallStep(c) \/ IssueTokens(c) \/ BumpVersion(c)
      \/ \E s \in Sessions : SessionExpires(s)
      \/ CodeExpires \/ BlockUser \/ UNCHANGED vars
  BY DEF Next, CallStep, QuietStep
<1> QED
  BY <1>1, <1>2, <1>3, <1>4, <1>5, <1>6, <1>7, <1>8

\* A code opens one session or gives one grant, a refresh token is exchanged once, a grant is
\* honoured once, and a session never has two refresh tokens that can be exchanged, however many
\* calls with one credential overlap, end half way, or meet a revocation.
THEOREM EachCredentialOnce == Spec => []CredentialsAreSpentOnce
<1>1. Init => OneHolder /\ OneEnd
  <2> SUFFICES ASSUME Init PROVE OneHolder /\ OneEnd
    OBVIOUS
  <2>1. \A c \in Calls : ~ Holding(call[c]) /\ HoldsSession(call[c]) = 0
    BY IdleTyped DEF Init, Holding, HoldsSession
  <2>2. tokens = <<>> /\ grants = <<>> /\ refresh = {} /\ stepUp = {}
    BY DEF Init
  <2>3. DOMAIN tokens = {} /\ DOMAIN grants = {}
    BY <2>2
  <2>4. SpentOnce
    BY <2>3 DEF SpentOnce
  <2>5. OneHolder
    BY <2>1, <2>2, <2>3, <2>4 DEF OneHolder
  <2>6. OneEnd
    BY <2>1, <2>2 DEF OneEnd, OneTokenPerSession
  <2> QED
    BY <2>5, <2>6
<1>2. OneHolder /\ OneEnd => CredentialsAreSpentOnce
  BY DEF OneHolder, OneEnd, CredentialsAreSpentOnce
<1> QED
  BY <1>1, <1>2, InitVersioned, StepVersioned, StepHolders, PTL DEF Spec
=============================================================================
