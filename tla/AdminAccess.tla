------------------------------ MODULE AdminAccess ------------------------------
(***************************************************************************)
(* Access of one administrator: the bootstrap of the first administrator,  *)
(* the second factor (TOTP and recovery codes), the limit of its attempts, *)
(* and the short administrator sessions.                                   *)
(*                                                                         *)
(* Database rows and Redis keys are read and written in steps of their     *)
(* own, as the calls await them.  A TOTP code is the pair of a secret and  *)
(* a time step; codes are unforgeable, so a call presents a code that its  *)
(* holder can have, or a wrong one.  Cookies, CSRF tokens and encryption   *)
(* are left out.                                                           *)
(***************************************************************************)
EXTENDS Integers, Sequences, FiniteSets

CONSTANTS
  Calls,         \* calls that may be under way at one time
  Recovery,      \* the recovery codes of one enrolment
  MaxAttempts,   \* MAX_MFA_ATTEMPTS
  MaxSecrets,    \* bound: secrets generated
  MaxStep,       \* bound: the last time step
  MaxSessions,   \* bound: sessions opened
  MaxVersion,    \* bound: where the session version stops growing
  FailAt,        \* the places at which a call may fail
  MaxFaults      \* bound: calls that fail

ASSUME AdminAssumption ==
  /\ MaxAttempts \in Nat \ {0} /\ MaxSecrets \in Nat \ {0} /\ MaxStep \in Nat
  /\ MaxSessions \in Nat /\ MaxVersion \in Nat \ {0} /\ MaxFaults \in Nat

VARIABLES
  step,         \* the current TOTP time step
  admin,        \* role ADMIN, neither blocked nor deleted
  version,      \* User.sessionVersion
  made,         \* secrets generated so far
  setup,        \* auth:admin-mfa-setup, 0 when absent
  credential,   \* AdminMfaCredential: its secret, 0 when absent, and lastTotpStep
  unused,       \* AdminRecoveryCode rows without usedAt
  attempts,     \* auth:admin-mfa-attempt
  expiring,     \* that key has a time to live
  opened,       \* sessions opened so far: their version, the code that opened them, and whether
                \* access was withdrawn while the code was being checked
  call,
  faults

vars == <<step, admin, version, made, setup, credential, unused, attempts, expiring, opened,
          call, faults>>

Secrets == 1 .. MaxSecrets
Steps == 0 .. MaxStep
Totp == [kind : {"totp"}, secret : Secrets, step : 0 .. MaxStep + 1]
RecoveryCodes == [kind : {"recovery"}, secret : Secrets, code : Recovery]
Wrong == [kind |-> "wrong"]
Presentable ==
  {[kind |-> "totp", secret |-> credential.secret, step |-> t] :
     t \in IF credential.secret = 0 THEN {} ELSE (step - 1 .. step + 1) \cap Nat}
  \cup unused \cup {Wrong}

Idle == [pc |-> "idle", secret |-> 0, code |-> Wrong, version |-> 0, overtaken |-> FALSE]

Codes == Totp \cup RecoveryCodes \cup {Wrong}
Pcs == {"idle", "setup", "logSetup", "enable", "tidy", "attempt", "expire", "verify", "use",
        "verified", "open"}

TypeOK ==
  /\ step \in Steps /\ admin \in BOOLEAN /\ version \in 0 .. MaxVersion
  /\ made \in 0 .. MaxSecrets /\ setup \in 0 .. made
  /\ credential \in [secret : 0 .. made, last : 0 .. MaxStep + 1]
  /\ unused \subseteq RecoveryCodes
  /\ attempts \in 0 .. MaxAttempts + 1 /\ expiring \in BOOLEAN
  /\ opened \in Seq([version : 0 .. MaxVersion, code : Codes, overtaken : BOOLEAN])
  /\ call \in [Calls -> [pc : Pcs, secret : 0 .. MaxSecrets, code : Codes,
                         version : 0 .. MaxVersion, overtaken : BOOLEAN]]
  /\ faults \in 0 .. MaxFaults

Init ==
  /\ step = 0 /\ admin = FALSE /\ version = 0
  /\ made = 0 /\ setup = 0
  /\ credential = [secret |-> 0, last |-> 0] /\ unused = {}
  /\ attempts = 0 /\ expiring = FALSE
  /\ opened = <<>>
  /\ call = [c \in Calls |-> Idle]
  /\ faults = 0

account == <<admin, version>>
enrolment == <<made, setup, credential, unused>>
counter == <<attempts, expiring>>

Goto(c, pc) == call' = [call EXCEPT ![c].pc = pc]
End(c) == call' = [call EXCEPT ![c] = Idle]

\* verifyTotpCode: a code of the step before, the current or the next one, after the last used.
Valid(code, secret, after) ==
  code.kind = "totp" /\ code.secret = secret /\ code.step \in step - 1 .. step + 1
  /\ code.step > after

(***************************************************************************)
(* The account.                                                            *)
(***************************************************************************)

\* bootstrapFirstAdmin, under its advisory lock.
Bootstrap ==
  /\ ~ admin /\ version = 0
  /\ admin' = TRUE /\ version' = 1
  /\ UNCHANGED <<step, call, faults>>
  /\ UNCHANGED enrolment /\ UNCHANGED counter /\ UNCHANGED opened

\* The user revokes all sessions, or is blocked or closes the account.
Withdraw ==
  /\ admin /\ version < MaxVersion
  /\ version' = version + 1
  /\ admin' \in BOOLEAN
  /\ call' = [c \in Calls |-> IF call[c].pc = "idle" THEN call[c]
                             ELSE [call[c] EXCEPT !.overtaken = TRUE]]
  /\ UNCHANGED <<step, faults>>
  /\ UNCHANGED enrolment /\ UNCHANGED counter /\ UNCHANGED opened

(***************************************************************************)
(* Enrolment.                                                              *)
(***************************************************************************)

\* beginTotpSetup finds no credential ...
BeginSetup(c) ==
  /\ call[c].pc = "idle" /\ admin
  /\ credential.secret = 0 /\ made < MaxSecrets
  /\ made' = made + 1
  /\ call' = [call EXCEPT ![c] = [Idle EXCEPT !.pc = "setup", !.secret = made + 1]]
  /\ UNCHANGED <<step, faults, setup, credential, unused>>
  /\ UNCHANGED account /\ UNCHANGED counter /\ UNCHANGED opened

\* ... stores a new secret over one that may be pending ...
StoreSetup(c) ==
  /\ call[c].pc = "setup"
  /\ setup' = call[c].secret
  /\ Goto(c, "logSetup")
  /\ UNCHANGED <<step, faults, made, credential, unused>>
  /\ UNCHANGED account /\ UNCHANGED counter /\ UNCHANGED opened

\* ... and takes away what is pending if the audit log cannot be written.
LogSetup(c) ==
  /\ call[c].pc = "logSetup"
  /\ setup' \in {setup, 0}
  /\ End(c)
  /\ UNCHANGED <<step, faults, made, credential, unused>>
  /\ UNCHANGED account /\ UNCHANGED counter /\ UNCHANGED opened

\* confirmTotpSetup reads the pending secret and checks a code of it.
ConfirmSetup(c, t) ==
  LET code == [kind |-> "totp", secret |-> setup, step |-> t]
  IN  /\ call[c].pc = "idle" /\ admin /\ setup # 0
      /\ Valid(code, setup, -1)
      /\ call' = [call EXCEPT ![c] =
           [Idle EXCEPT !.pc = "enable", !.secret = setup, !.code = code]]
      /\ UNCHANGED <<step, faults>>
      /\ UNCHANGED enrolment /\ UNCHANGED account /\ UNCHANGED counter /\ UNCHANGED opened

\* The credential and its recovery codes are created, unless there is one.
Enable(c) ==
  /\ call[c].pc = "enable"
  /\ IF credential.secret # 0
     THEN End(c) /\ UNCHANGED <<credential, unused>>
     ELSE /\ credential' = [secret |-> call[c].secret, last |-> call[c].code.step]
          /\ unused' = {[kind |-> "recovery", secret |-> call[c].secret, code |-> r] :
                          r \in Recovery}
          /\ Goto(c, "tidy")
  /\ UNCHANGED <<step, faults, made, setup>>
  /\ UNCHANGED account /\ UNCHANGED counter /\ UNCHANGED opened

TidySetup(c) ==
  /\ call[c].pc = "tidy"
  /\ setup' = 0
  /\ End(c)
  /\ UNCHANGED <<step, faults, made, credential, unused>>
  /\ UNCHANGED account /\ UNCHANGED counter /\ UNCHANGED opened

(***************************************************************************)
(* Step-up.                                                                *)
(***************************************************************************)

\* stepUp reads the administrator.
StepUp(c, code) ==
  /\ call[c].pc = "idle" /\ admin
  /\ call' = [call EXCEPT ![c] =
       [Idle EXCEPT !.pc = "attempt", !.code = code, !.version = version]]
  /\ UNCHANGED <<step, faults>>
  /\ UNCHANGED enrolment /\ UNCHANGED account /\ UNCHANGED counter /\ UNCHANGED opened

\* As if only an attempt beyond the limit had the key expire.
RegisterAttemptLate(c) ==
  /\ call[c].pc = "attempt"
  /\ attempts' = IF attempts > MaxAttempts THEN attempts ELSE attempts + 1
  /\ IF attempts + 1 > MaxAttempts THEN End(c) ELSE Goto(c, "verify")
  /\ UNCHANGED <<step, faults, expiring>>
  /\ UNCHANGED enrolment /\ UNCHANGED account /\ UNCHANGED opened

\* registerAttempt counts, and the first attempt goes on to set the key's time to live.
RegisterAttempt(c) ==
  /\ call[c].pc = "attempt"
  /\ attempts' = IF attempts > MaxAttempts THEN attempts ELSE attempts + 1
  /\ IF attempts = 0 THEN Goto(c, "expire")
     ELSE IF attempts + 1 > MaxAttempts THEN End(c)
     ELSE Goto(c, "verify")
  /\ UNCHANGED <<step, faults, expiring>>
  /\ UNCHANGED enrolment /\ UNCHANGED account /\ UNCHANGED opened

\* EXPIRE of a key that is gone does nothing.
ExpireAttempts(c) ==
  /\ call[c].pc = "expire"
  /\ expiring' = (attempts > 0)
  /\ Goto(c, "verify")
  /\ UNCHANGED <<step, faults, attempts>>
  /\ UNCHANGED enrolment /\ UNCHANGED account /\ UNCHANGED opened

\* The counter's time is up.
AttemptsExpire ==
  /\ expiring
  /\ attempts' = 0 /\ expiring' = FALSE
  /\ UNCHANGED <<step, call, faults>>
  /\ UNCHANGED enrolment /\ UNCHANGED account /\ UNCHANGED opened

\* verifyTotp checks the code against the credential it has read.
VerifyTotp(c) ==
  /\ call[c].pc = "verify" /\ call[c].code.kind # "recovery"
  /\ IF credential.secret # 0 /\ Valid(call[c].code, credential.secret, credential.last)
     THEN Goto(c, "use") ELSE End(c)
  /\ UNCHANGED <<step, faults>>
  /\ UNCHANGED enrolment /\ UNCHANGED account /\ UNCHANGED counter /\ UNCHANGED opened

\* As if the step were recorded without comparing it again.
UseTotpBlindly(c) ==
  /\ call[c].pc = "use"
  /\ credential' = [credential EXCEPT !.last = call[c].code.step]
  /\ Goto(c, "verified")
  /\ UNCHANGED <<step, faults, made, setup, unused>>
  /\ UNCHANGED account /\ UNCHANGED counter /\ UNCHANGED opened

\* Its step is recorded only while it is later than the last.
UseTotp(c) ==
  /\ call[c].pc = "use"
  /\ IF credential.last < call[c].code.step
     THEN /\ credential' = [credential EXCEPT !.last = call[c].code.step]
          /\ Goto(c, "verified")
     ELSE UNCHANGED credential /\ End(c)
  /\ UNCHANGED <<step, faults, made, setup, unused>>
  /\ UNCHANGED account /\ UNCHANGED counter /\ UNCHANGED opened

\* consumeRecoveryCode marks an unused code as used, in one transaction.
ConsumeRecoveryCode(c) ==
  /\ call[c].pc = "verify" /\ call[c].code.kind = "recovery"
  /\ IF call[c].code \in unused
     THEN unused' = unused \ {call[c].code} /\ Goto(c, "verified")
     ELSE UNCHANGED unused /\ End(c)
  /\ UNCHANGED <<step, faults, made, setup, credential>>
  /\ UNCHANGED account /\ UNCHANGED counter /\ UNCHANGED opened

\* A success forgets the attempts ...
ForgetAttempts(c) ==
  /\ call[c].pc = "verified"
  /\ attempts' = 0 /\ expiring' = FALSE
  /\ Goto(c, "open")
  /\ UNCHANGED <<step, faults>>
  /\ UNCHANGED enrolment /\ UNCHANGED account /\ UNCHANGED opened

\* ... and, after its audit entry, opens a session of the version that was read at first.
OpenSession(c) ==
  /\ call[c].pc = "open" /\ Len(opened) < MaxSessions
  /\ opened' = Append(opened, [version |-> call[c].version, code |-> call[c].code,
                                   overtaken |-> call[c].overtaken])
  /\ End(c)
  /\ UNCHANGED <<step, faults>>
  /\ UNCHANGED enrolment /\ UNCHANGED account /\ UNCHANGED counter

(***************************************************************************)
(* Sessions.                                                               *)
(***************************************************************************)

\* authenticate reads the stored session, which never changes, and then the user.  (A session
\* that is refused is deleted, as is one whose time is up or that is revoked: it is refused
\* all the same.)
Accepted(s) == admin /\ opened[s].version = version

\* A call ends with its process, or its next await fails.
Fails(c) ==
  /\ call[c].pc \in FailAt /\ faults < MaxFaults
  /\ faults' = faults + 1
  /\ End(c)
  /\ UNCHANGED step
  /\ UNCHANGED enrolment /\ UNCHANGED account /\ UNCHANGED counter /\ UNCHANGED opened

Tick ==
  /\ step < MaxStep /\ step' = step + 1
  /\ UNCHANGED <<call, faults>>
  /\ UNCHANGED enrolment /\ UNCHANGED account /\ UNCHANGED counter /\ UNCHANGED opened

(***************************************************************************)
(* The specification.                                                      *)
(***************************************************************************)
Next ==
  \/ Bootstrap \/ Withdraw \/ Tick \/ AttemptsExpire
  \/ \E c \in Calls :
       \/ BeginSetup(c) \/ StoreSetup(c) \/ LogSetup(c)
       \/ \E t \in Steps : ConfirmSetup(c, t)
       \/ Enable(c) \/ TidySetup(c)
       \/ \E code \in Presentable : StepUp(c, code)
       \/ RegisterAttempt(c) \/ ExpireAttempts(c) \/ VerifyTotp(c) \/ UseTotp(c)
       \/ ConsumeRecoveryCode(c) \/ ForgetAttempts(c) \/ OpenSession(c)
       \/ Fails(c)

Spec == Init /\ [][Next]_vars

(***************************************************************************)
(* Properties.                                                             *)
(***************************************************************************)

\* A TOTP code or a recovery code opens one session, although step-ups that present the
\* same one overlap.
CodesOpenOnce ==
  \A s, t \in DOMAIN opened : opened[s].code = opened[t].code => s = t

\* A session that was being opened while the administrator's access was withdrawn is never
\* accepted.
WithdrawnForGood ==
  \A s \in DOMAIN opened : opened[s].overtaken => ~ Accepted(s)

\* What a step-up must not achieve when calls overlap.
SecondFactorHolds == CodesOpenOnce /\ WithdrawnForGood

\* The administrator who has used up the attempts is not locked out for ever: the counter has
\* a time to live, or the call that started it is about to set one, whatever calls reset and
\* start it in between.
LockoutEnds == attempts > 0 => expiring \/ \E c \in Calls : call[c].pc = "expire"
=============================================================================
