------------------------------ MODULE AuthSessions ------------------------------
(***************************************************************************)
(* Sign-in of one user: one-time codes, rotated refresh tokens, the        *)
(* sessions kept in Redis, the user's session version in the database, and *)
(* step-up grants.                                                         *)
(*                                                                         *)
(* A call is cut at each of its awaits.  Commands that a call sends to     *)
(* Redis together, over its one connection, are one step.  The pair of an  *)
(* access and a refresh token that one call issues is one entry of         *)
(* `tokens'; a session is named by the first of its tokens.  Limits that   *)
(* only turn requests away (code requests per phone, device and address,   *)
(* wrong codes) are left out, and what expires may go at any time.         *)
(***************************************************************************)
EXTENDS Integers, Sequences, FiniteSets, Functions

CONSTANTS
  Calls,        \* calls that may be under way at one time
  MaxTokens,    \* bound: tokens issued
  MaxCodes,     \* bound: codes sent
  MaxGrants,    \* bound: step-up grants
  MaxVersion    \* bound: where the session version stops growing

ASSUME AuthAssumption ==
  MaxTokens \in Nat /\ MaxCodes \in Nat /\ MaxGrants \in Nat /\ MaxVersion \in Nat

VARIABLES
  version,      \* User.sessionVersion
  blocked,      \* User.isBlocked or deletedAt
  code,         \* auth:otp:code, by its number, 0 when there is none
  codes,        \* codes made so far
  tokens,       \* tokens signed so far: their session, version and origin
  refresh,      \* auth:refresh keys, by token
  session,      \* auth:session keys and their currentJti
  members,      \* auth:sessions
  grants,       \* step-up tokens signed so far: their version and the code they come from
  stepUp,       \* auth:user-step-up keys
  accepted,     \* times each grant was honoured
  revoked,      \* sessions that existed at some revocation of all sessions (history)
  call

vars == <<version, blocked, code, codes, tokens, refresh, session, members, grants, stepUp,
          accepted, revoked, call>>

Tokens == 1 .. MaxTokens
Sessions == Tokens
Codes == 1 .. MaxCodes
Grants == 1 .. MaxGrants
Versions == 0 .. MaxVersion

\* What a token comes from: the code of a sign-in, or the token that was exchanged for it.
NoOrigin == [kind |-> "none", id |-> 0]
Origins == {NoOrigin} \cup [kind : {"code", "token"}, id : Tokens \cup Codes]

\* session 0 stands for one that the call has yet to open; jti and listed are what a call
\* has read of session and members.
Idle == [pc |-> "idle", for |-> "none", code |-> 0, origin |-> NoOrigin, session |-> 0,
         version |-> 0, grant |-> 0, listed |-> {}, jtis |-> {}]

Pcs == {"idle", "sms", "compare", "consume", "user", "issue", "grantUser", "grant",
        "owner", "take", "find", "drop", "forget", "end", "bump", "sweep", "unlist"}

Call == [pc : Pcs, for : {"none", "login", "stepUp"}, code : 0 .. MaxCodes, origin : Origins,
         session : Sessions \cup {0}, version : Versions, grant : 0 .. MaxGrants,
         listed : SUBSET Sessions, jtis : SUBSET Tokens]

Stored ==
  /\ version \in Versions /\ blocked \in BOOLEAN
  /\ codes \in 0 .. MaxCodes /\ code \in 0 .. codes
  /\ tokens \in Seq([session : Sessions, version : Versions, origin : Origins])
  /\ Len(tokens) <= MaxTokens
  /\ refresh \subseteq DOMAIN tokens
  /\ DOMAIN session \subseteq Sessions /\ Range(session) \subseteq DOMAIN tokens
  /\ members \subseteq Sessions
  /\ grants \in Seq([version : Versions, code : Codes])
  /\ Len(grants) <= MaxGrants
  /\ stepUp \subseteq DOMAIN grants
  /\ accepted \in Seq(Nat) /\ Len(accepted) = Len(grants)
  /\ revoked \subseteq Sessions

TypeOK == Stored /\ call \in [Calls -> Call]

Init ==
  /\ version = 0 /\ blocked = FALSE
  /\ code = 0 /\ codes = 0
  /\ tokens = <<>> /\ refresh = {} /\ session = <<>> /\ members = {}
  /\ grants = <<>> /\ stepUp = {} /\ accepted = <<>>
  /\ revoked = {}
  /\ call = [c \in Calls |-> Idle]

user == <<version, blocked>>
otp == <<code, codes>>
redis == <<refresh, session, members>>
granting == <<grants, stepUp, accepted>>

End(c) == call' = [call EXCEPT ![c] = Idle]
Goto(c, pc) == call' = [call EXCEPT ![c].pc = pc]
Without(f, i) == Restrict(f, DOMAIN f \ {i})

(***************************************************************************)
(* One-time codes.                                                         *)
(***************************************************************************)

\* requestOtp stores the hash of a new code over the former one, and then sends it.
RequestOtp(c) ==
  /\ call[c].pc = "idle" /\ codes < MaxCodes
  /\ codes' = codes + 1 /\ code' = codes + 1
  /\ call' = [call EXCEPT ![c] = [Idle EXCEPT !.pc = "sms", !.code = codes + 1]]
  /\ UNCHANGED <<tokens, revoked>> /\ UNCHANGED user /\ UNCHANGED redis /\ UNCHANGED granting

\* A code that could not be sent is taken back, unless another has replaced it meanwhile.
SendOtp(c) ==
  /\ call[c].pc = "sms"
  /\ code' \in {code, IF code = call[c].code THEN 0 ELSE code}
  /\ End(c)
  /\ UNCHANGED <<codes, tokens, revoked>> /\ UNCHANGED user /\ UNCHANGED redis
  /\ UNCHANGED granting

\* verifyOtp or verifyUserStepUpOtp with a code that was sent at some time.
PresentCode(c, k, for) ==
  /\ call[c].pc = "idle"
  /\ call' = [call EXCEPT ![c] = [Idle EXCEPT !.pc = "compare", !.code = k, !.for = for]]
  /\ UNCHANGED <<tokens, revoked>> /\ UNCHANGED user /\ UNCHANGED otp /\ UNCHANGED redis
  /\ UNCHANGED granting

\* The presented code is compared with the stored one.
CompareCode(c) ==
  /\ call[c].pc = "compare"
  /\ IF code = call[c].code THEN Goto(c, "consume") ELSE End(c)
  /\ UNCHANGED <<tokens, revoked>> /\ UNCHANGED user /\ UNCHANGED otp /\ UNCHANGED redis
  /\ UNCHANGED granting

\* As if the stored code were deleted without asking whether it is still there.
ConsumeCodeBlindly(c) ==
  /\ call[c].pc = "consume"
  /\ code' = 0
  /\ Goto(c, IF call[c].for = "login" THEN "user" ELSE "grantUser")
  /\ UNCHANGED <<codes, tokens, revoked>> /\ UNCHANGED user /\ UNCHANGED redis
  /\ UNCHANGED granting

\* consumeOtpCode deletes the stored code if it is still the one that was compared.
ConsumeCode(c) ==
  /\ call[c].pc = "consume"
  /\ IF code = call[c].code
     THEN code' = 0 /\ Goto(c, IF call[c].for = "login" THEN "user" ELSE "grantUser")
     ELSE UNCHANGED code /\ End(c)
  /\ UNCHANGED <<codes, tokens, revoked>> /\ UNCHANGED user /\ UNCHANGED redis
  /\ UNCHANGED granting

CodeExpires ==
  /\ code # 0 /\ code' = 0
  /\ UNCHANGED <<codes, tokens, revoked, call>> /\ UNCHANGED user /\ UNCHANGED redis
  /\ UNCHANGED granting

(***************************************************************************)
(* Tokens.                                                                 *)
(***************************************************************************)

\* verifyOtp reads (or creates) the user, who must be able to sign in.
LoadUser(c) ==
  /\ call[c].pc = "user" /\ call[c].origin = NoOrigin
  /\ IF blocked THEN End(c)
     ELSE call' = [call EXCEPT ![c] = [@ EXCEPT !.pc = "issue", !.version = version,
                      !.origin = [kind |-> "code", id |-> call[c].code]]]
  /\ UNCHANGED <<tokens, revoked>> /\ UNCHANGED user /\ UNCHANGED otp /\ UNCHANGED redis
  /\ UNCHANGED granting

\* refresh takes the token out of Redis in one command; one that is not there any more has
\* been used or revoked, and ends its session.
TakeToken(c, j) ==
  /\ call[c].pc = "idle"
  /\ refresh' = refresh \ {j}
  /\ call' = [call EXCEPT ![c] =
       [Idle EXCEPT !.pc = IF j \in refresh THEN "owner" ELSE "find",
                    !.session = tokens[j].session,
                    !.origin = [kind |-> "token", id |-> j]]]
  /\ UNCHANGED <<session, members, tokens, revoked>> /\ UNCHANGED user /\ UNCHANGED otp
  /\ UNCHANGED granting

\* As if the version in the token were not compared with the user's.
CheckOwnerLeniently(c) ==
  /\ call[c].pc = "owner"
  /\ IF blocked THEN End(c)
     ELSE call' = [call EXCEPT ![c].pc = "issue", ![c].version = version]
  /\ UNCHANGED <<tokens, revoked>> /\ UNCHANGED user /\ UNCHANGED otp /\ UNCHANGED redis
  /\ UNCHANGED granting

\* The user is read; a token of another session version is refused.
CheckOwner(c) ==
  /\ call[c].pc = "owner"
  /\ IF blocked \/ tokens[call[c].origin.id].version # version THEN End(c)
     ELSE call' = [call EXCEPT ![c].pc = "issue", ![c].version = version]
  /\ UNCHANGED <<tokens, revoked>> /\ UNCHANGED user /\ UNCHANGED otp /\ UNCHANGED redis
  /\ UNCHANGED granting

\* issueTokens signs the version that was read, and stores token and session.
IssueTokens(c) ==
  LET j == Len(tokens) + 1
      s == IF call[c].session = 0 THEN j ELSE call[c].session
  IN  /\ call[c].pc = "issue" /\ j \in Tokens
      /\ tokens' = Append(tokens, [session |-> s, version |-> call[c].version,
                                   origin |-> call[c].origin])
      /\ refresh' = refresh \cup {j}
      /\ session' = [k \in DOMAIN session \cup {s} |-> IF k = s THEN j ELSE session[k]]
      /\ members' = members \cup {s}
      /\ End(c)
      /\ UNCHANGED revoked /\ UNCHANGED user /\ UNCHANGED otp /\ UNCHANGED granting

(***************************************************************************)
(* The end of sessions.                                                    *)
(***************************************************************************)

\* revokeSession reads the session, called for by its user or by a refresh ("find").
FindSession(c, s) ==
  /\ \/ call[c].pc = "idle"
     \/ call[c].pc = "find" /\ call[c].session = s
  /\ IF s \in DOMAIN session
     THEN call' = [call EXCEPT ![c] = [Idle EXCEPT !.pc = "drop", !.session = s,
                                                   !.jtis = {session[s]}]]
     ELSE End(c)
  /\ UNCHANGED <<tokens, revoked>> /\ UNCHANGED user /\ UNCHANGED otp /\ UNCHANGED redis
  /\ UNCHANGED granting

\* It removes the session and the token it had then.
DropSession(c) ==
  /\ call[c].pc = "drop"
  /\ refresh' = refresh \ call[c].jtis
  /\ session' = Without(session, call[c].session)
  /\ members' = members \ {call[c].session}
  /\ End(c)
  /\ UNCHANGED <<tokens, revoked>> /\ UNCHANGED user /\ UNCHANGED otp /\ UNCHANGED granting

\* logout reads the token's record, removes it, and then its session.
Logout(c, j) ==
  /\ call[c].pc = "idle"
  /\ call' = [call EXCEPT ![c] =
       [Idle EXCEPT !.pc = "forget", !.jtis = {j},
                    !.session = IF j \in refresh THEN tokens[j].session ELSE 0]]
  /\ UNCHANGED <<tokens, revoked>> /\ UNCHANGED user /\ UNCHANGED otp /\ UNCHANGED redis
  /\ UNCHANGED granting

ForgetToken(c) ==
  /\ call[c].pc = "forget"
  /\ refresh' = refresh \ call[c].jtis
  /\ IF call[c].session = 0 THEN End(c) ELSE Goto(c, "end")
  /\ UNCHANGED <<session, members, tokens, revoked>> /\ UNCHANGED user /\ UNCHANGED otp
  /\ UNCHANGED granting

EndSession(c) ==
  /\ call[c].pc = "end"
  /\ session' = Without(session, call[c].session)
  /\ members' = members \ {call[c].session}
  /\ End(c)
  /\ UNCHANGED <<refresh, tokens, revoked>> /\ UNCHANGED user /\ UNCHANGED otp
  /\ UNCHANGED granting

\* revokeAllSessions reads what there is, raises the version, and removes what it has read.
\* (Its reads are one step: they only say which keys go.)
ReadAll(c) ==
  /\ call[c].pc = "idle"
  /\ call' = [call EXCEPT ![c] = [Idle EXCEPT !.pc = "bump", !.listed = members,
                       !.jtis = {session[s] : s \in members \cap DOMAIN session}]]
  /\ UNCHANGED <<tokens, revoked>> /\ UNCHANGED user /\ UNCHANGED otp /\ UNCHANGED redis
  /\ UNCHANGED granting

\* The sessions that have a token at this moment are over; those of calls that are about to
\* issue a token are among them, unless they have none yet.
RaiseVersion ==
  /\ version < MaxVersion
  /\ version' = version + 1
  /\ revoked' = revoked \cup {tokens[j].session : j \in DOMAIN tokens}

BumpVersion(c) ==
  /\ call[c].pc = "bump" /\ RaiseVersion
  /\ Goto(c, "sweep")
  /\ UNCHANGED <<blocked, tokens>> /\ UNCHANGED otp /\ UNCHANGED redis /\ UNCHANGED granting

SweepAll(c) ==
  /\ call[c].pc = "sweep"
  /\ refresh' = refresh \ call[c].jtis
  /\ session' = Restrict(session, DOMAIN session \ call[c].listed)
  /\ members' = {}
  /\ End(c)
  /\ UNCHANGED <<tokens, revoked>> /\ UNCHANGED user /\ UNCHANGED otp /\ UNCHANGED granting

\* listSessions forgets a session that is listed and has no record.
FindStale(c, s) ==
  /\ call[c].pc = "idle" /\ s \in members \ DOMAIN session
  /\ call' = [call EXCEPT ![c] = [Idle EXCEPT !.pc = "unlist", !.session = s]]
  /\ UNCHANGED <<tokens, revoked>> /\ UNCHANGED user /\ UNCHANGED otp /\ UNCHANGED redis
  /\ UNCHANGED granting

Unlist(c) ==
  /\ call[c].pc = "unlist"
  /\ members' = members \ {call[c].session}
  /\ End(c)
  /\ UNCHANGED <<refresh, session, tokens, revoked>> /\ UNCHANGED user /\ UNCHANGED otp
  /\ UNCHANGED granting

\* Keys expire; an administrator blocks the user, or the account is closed.
SessionExpires(s) ==
  /\ s \in DOMAIN session
  /\ session' = Without(session, s)
  /\ refresh' = refresh \ {session[s]}
  /\ UNCHANGED <<members, tokens, revoked, call>> /\ UNCHANGED user /\ UNCHANGED otp
  /\ UNCHANGED granting

BlockUser ==
  /\ ~ blocked /\ blocked' = TRUE /\ RaiseVersion
  /\ UNCHANGED <<tokens, call>> /\ UNCHANGED otp /\ UNCHANGED redis /\ UNCHANGED granting

(***************************************************************************)
(* Step-up grants.                                                         *)
(***************************************************************************)

\* verifyUserStepUpOtp reads the user, who has consumed a code, and stores the grant.
LoadGrantee(c) ==
  /\ call[c].pc = "grantUser"
  /\ IF blocked THEN End(c)
     ELSE call' = [call EXCEPT ![c].pc = "grant", ![c].version = version]
  /\ UNCHANGED <<tokens, revoked>> /\ UNCHANGED user /\ UNCHANGED otp /\ UNCHANGED redis
  /\ UNCHANGED granting

Grant(c) ==
  LET g == Len(grants) + 1
  IN  /\ call[c].pc = "grant" /\ g \in Grants
      /\ grants' = Append(grants, [version |-> call[c].version, code |-> call[c].code])
      /\ stepUp' = stepUp \cup {g}
      /\ accepted' = Append(accepted, 0)
      /\ End(c)
      /\ UNCHANGED <<tokens, revoked>> /\ UNCHANGED user /\ UNCHANGED otp /\ UNCHANGED redis

\* consumeUserStepUpToken reads the user and then takes the grant out of Redis.
PresentGrant(c, g) ==
  /\ call[c].pc = "idle"
  /\ call' = [call EXCEPT ![c] =
       [Idle EXCEPT !.pc = "take", !.grant = g, !.version = version,
                    !.for = IF blocked THEN "none" ELSE "stepUp"]]
  /\ UNCHANGED <<tokens, revoked>> /\ UNCHANGED user /\ UNCHANGED otp /\ UNCHANGED redis
  /\ UNCHANGED granting

TakeGrant(c) ==
  LET g == call[c].grant
      honoured == g \in stepUp /\ call[c].for = "stepUp" /\ grants[g].version = call[c].version
  IN  /\ call[c].pc = "take"
      /\ stepUp' = stepUp \ {g}
      /\ accepted' = IF honoured THEN [accepted EXCEPT ![g] = @ + 1] ELSE accepted
      /\ End(c)
      /\ UNCHANGED <<grants, tokens, revoked>> /\ UNCHANGED user /\ UNCHANGED otp
      /\ UNCHANGED redis

\* The process of a call ends, or one of its awaits fails.
Fails(c) ==
  /\ call[c].pc # "idle"
  /\ End(c)
  /\ UNCHANGED <<tokens, revoked>> /\ UNCHANGED user /\ UNCHANGED otp /\ UNCHANGED redis
  /\ UNCHANGED granting

(***************************************************************************)
(* The specification.                                                      *)
(***************************************************************************)
Next ==
  \/ \E c \in Calls :
       \/ RequestOtp(c) \/ SendOtp(c)
       \/ \E k \in 1 .. codes, for \in {"login", "stepUp"} : PresentCode(c, k, for)
       \/ CompareCode(c) \/ ConsumeCode(c) \/ LoadUser(c)
       \/ \E j \in DOMAIN tokens : TakeToken(c, j) \/ Logout(c, j)
       \/ CheckOwner(c) \/ IssueTokens(c)
       \/ \E s \in Sessions : FindSession(c, s) \/ FindStale(c, s)
       \/ DropSession(c) \/ ForgetToken(c) \/ EndSession(c)
       \/ ReadAll(c) \/ BumpVersion(c) \/ SweepAll(c) \/ Unlist(c)
       \/ LoadGrantee(c) \/ Grant(c)
       \/ \E g \in DOMAIN grants : PresentGrant(c, g)
       \/ TakeGrant(c) \/ Fails(c)
  \/ \E s \in Sessions : SessionExpires(s)
  \/ CodeExpires \/ BlockUser

Spec == Init /\ [][Next]_vars

(***************************************************************************)
(* Properties.                                                             *)
(***************************************************************************)

\* A session that had a token when all sessions were revoked has no token of the current
\* version, whatever refresh of it was under way: neither the guard of the API nor a refresh
\* accepts one of its tokens again.
RevokedForGood ==
  \A j \in DOMAIN tokens : tokens[j].session \in revoked => tokens[j].version < version

\* A code opens one session or gives one grant, a refresh token is exchanged once, and a
\* grant is honoured once, although calls that present the same one overlap.
SpentOnce ==
  /\ \A i, j \in DOMAIN tokens : tokens[i].origin = tokens[j].origin => i = j
  /\ \A g, h \in DOMAIN grants : grants[g].code = grants[h].code => g = h
  /\ \A j \in DOMAIN tokens, g \in DOMAIN grants :
       tokens[j].origin # [kind |-> "code", id |-> grants[g].code]
  /\ \A g \in DOMAIN grants : accepted[g] <= 1

\* A session does not fork: at most one of its refresh tokens can be exchanged.
OneTokenPerSession ==
  \A i, j \in refresh : tokens[i].session = tokens[j].session => i = j

\* What overlapping calls with one credential must not achieve.
CredentialsAreSpentOnce == SpentOnce /\ OneTokenPerSession
=============================================================================
