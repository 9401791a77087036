--------------------------- MODULE AdminAccessProofs ---------------------------
(***************************************************************************)
(* Theorems about AdminAccess, for every number of overlapping calls, any  *)
(* recovery codes, every limit of attempts and any failures: the types,    *)
(* that a code opens one session, that withdrawn access stays withdrawn,   *)
(* and when a lockout ends.                                                *)
(***************************************************************************)
EXTENDS AdminAccess, TLAPS

CallRecord == [pc : Pcs, secret : 0 .. MaxSecrets, code : Codes,
               version : 0 .. MaxVersion, overtaken : BOOLEAN]
OpenRecord == [version : 0 .. MaxVersion, code : Codes, overtaken : BOOLEAN]

StepUpPcs == {"attempt", "expire", "verify", "use", "verified", "open"}
Passed == {"verified", "open"}

\* A code that cannot pass the second factor again.
Spent(code) ==
  /\ credential.secret # 0
  /\ \/ code \in Totp /\ code.secret = credential.secret /\ code.step <= credential.last
     \/ code \in RecoveryCodes /\ code \notin unused

\* What is known of a call from where it has got to.
Known(r) ==
  /\ r.secret <= made
  /\ r.pc = "enable" => r.secret # 0 /\ r.code \in Totp
  /\ r.pc = "use" => r.code \in Totp /\ credential.secret # 0 /\ r.code.secret = credential.secret
  /\ r.pc \in StepUpPcs => r.version <= version /\ (r.overtaken => r.version < version)
  /\ r.pc \in Passed => Spent(r.code)

\* What is known of an opened session.
Earned(o) ==
  /\ Spent(o.code)
  /\ o.version <= version /\ (o.overtaken => o.version < version)

\* Calls that have passed the second factor, and sessions, have used different codes.
Distinct ==
  /\ \A c, d \in Calls : c # d /\ call[c].pc \in Passed /\ call[d].pc \in Passed =>
       call[c].code # call[d].code
  /\ \A c \in Calls : \A s \in DOMAIN opened :
       call[c].pc \in Passed => call[c].code # opened[s].code
  /\ CodesOpenOnce

Guarded ==
  /\ TypeOK
  /\ credential.secret = 0 => unused = {}
  /\ \A c \in Calls : Known(call[c])
  /\ \A s \in DOMAIN opened : Earned(opened[s])
  /\ Distinct

-----------------------------------------------------------------------------
(***************************************************************************)
(* Records of calls and codes                                              *)
(***************************************************************************)

\* A call that goes on keeps what it has read, and one that ends forgets it.
LEMMA CallSteps ==
  ASSUME call \in [Calls -> CallRecord], NEW c \in Calls
  PROVE  /\ Idle \in CallRecord
         /\ End(c) => call' = [call EXCEPT ![c] = Idle]
         /\ \A pc \in Pcs :
              /\ Goto(c, pc) => call' = [call EXCEPT ![c] = [call[c] EXCEPT !.pc = pc]]
              /\ [call[c] EXCEPT !.pc = pc] \in CallRecord
              /\ [call[c] EXCEPT !.pc = pc].pc = pc
              /\ [call[c] EXCEPT !.pc = pc].secret = call[c].secret
              /\ [call[c] EXCEPT !.pc = pc].code = call[c].code
              /\ [call[c] EXCEPT !.pc = pc].version = call[c].version
              /\ [call[c] EXCEPT !.pc = pc].overtaken = call[c].overtaken
<1>1. Idle \in CallRecord
  <2>1. 0 \in 0 .. MaxSecrets /\ 0 \in 0 .. MaxVersion
    BY AdminAssumption
  <2> QED BY <2>1 DEF Idle, CallRecord, Pcs, Codes
<1>2. End(c) => call' = [call EXCEPT ![c] = Idle]
  BY DEF End
<1>3. ASSUME NEW pc \in Pcs
      PROVE  /\ Goto(c, pc) => call' = [call EXCEPT ![c] = [call[c] EXCEPT !.pc = pc]]
             /\ [call[c] EXCEPT !.pc = pc] \in CallRecord
             /\ [call[c] EXCEPT !.pc = pc].pc = pc
             /\ [call[c] EXCEPT !.pc = pc].secret = call[c].secret
             /\ [call[c] EXCEPT !.pc = pc].code = call[c].code
             /\ [call[c] EXCEPT !.pc = pc].version = call[c].version
             /\ [call[c] EXCEPT !.pc = pc].overtaken = call[c].overtaken
  BY DEF Goto, CallRecord
<1> QED BY <1>1, <1>2, <1>3

\* A call that goes on keeps the code it presents.
LEMMA GotoCode ==
  ASSUME call \in [Calls -> CallRecord], NEW c \in Calls, NEW pc \in Pcs, Goto(c, pc)
  PROVE  call'[c].code = call[c].code
<1> DEFINE r == [call[c] EXCEPT !.pc = pc]
<1>1. call' = [call EXCEPT ![c] = r] /\ r.code = call[c].code
  BY CallSteps
<1> HIDE DEF r
<1>2. call'[c] = r
  BY <1>1
<1> QED BY <1>1, <1>2

\* A TOTP code is known by its kind.
LEMMA TotpKind == \A code \in Codes : code.kind = "totp" => code \in Totp
<1>1. \A code \in RecoveryCodes : code.kind = "recovery"
  BY DEF RecoveryCodes
<1>2. Wrong.kind = "wrong"
  BY DEF Wrong
<1> QED BY <1>1, <1>2 DEF Codes

\* So is a recovery code.
LEMMA RecoveryKind == \A code \in Codes : code.kind = "recovery" => code \in RecoveryCodes
<1>1. \A code \in Totp : code.kind = "totp"
  BY DEF Totp
<1>2. Wrong.kind = "wrong"
  BY DEF Wrong
<1> QED BY <1>1, <1>2 DEF Codes

\* The two kinds have no code in common.
LEMMA KindsDiffer == \A code \in Totp : code \notin RecoveryCodes
<1>1. \A code \in Totp : code.kind = "totp"
  BY DEF Totp
<1>2. \A code \in RecoveryCodes : code.kind = "recovery"
  BY DEF RecoveryCodes
<1> QED BY <1>1, <1>2

\* The types, with the records by name.
LEMMA Types ==
  TypeOK <=>
    /\ step \in Steps /\ admin \in BOOLEAN /\ version \in 0 .. MaxVersion
    /\ made \in 0 .. MaxSecrets /\ setup \in 0 .. made
    /\ credential \in [secret : 0 .. made, last : 0 .. MaxStep + 1]
    /\ unused \subseteq RecoveryCodes
    /\ attempts \in 0 .. MaxAttempts + 1 /\ expiring \in BOOLEAN
    /\ opened \in Seq(OpenRecord)
    /\ call \in [Calls -> CallRecord]
    /\ faults \in 0 .. MaxFaults
BY DEF TypeOK, OpenRecord, CallRecord

\* A code a client can present is a code.
LEMMA PresentableCodes == TypeOK => Presentable \subseteq Codes
<1> SUFFICES ASSUME TypeOK, NEW code \in Presentable PROVE code \in Codes
  OBVIOUS
<1>1. CASE code \in unused \/ code = Wrong
  BY <1>1 DEF TypeOK, Codes
<1>2. CASE ~(code \in unused \/ code = Wrong)
  <2>1. PICK t \in IF credential.secret = 0 THEN {} ELSE (step - 1 .. step + 1) \cap Nat :
          code = [kind |-> "totp", secret |-> credential.secret, step |-> t]
    BY <1>2 DEF Presentable
  <2>2. t \in 0 .. MaxStep + 1
    BY <2>1, AdminAssumption DEF TypeOK, Steps
  <2>3. credential.secret \in Secrets
    BY <2>1, AdminAssumption DEF TypeOK, Secrets
  <2> QED BY <2>1, <2>2, <2>3 DEF Codes, Totp
<1> QED BY <1>1, <1>2

-----------------------------------------------------------------------------
(***************************************************************************)
(* Steps that pass no code                                                 *)
(***************************************************************************)

\* A call that moves without passing the second factor: nothing is spent or earned.
LEMMA MoveKept ==
  ASSUME Guarded, NEW c \in Calls, NEW r \in CallRecord, call' = [call EXCEPT ![c] = r],
         UNCHANGED <<version, opened, credential, unused>>,
         made' \in Nat, made <= made', r.secret <= made',
         r.pc = "enable" => r.secret # 0 /\ r.code \in Totp,
         r.pc = "use" => /\ r.code \in Totp /\ credential.secret # 0
                         /\ r.code.secret = credential.secret,
         r.pc \in StepUpPcs => r.version <= version /\ (r.overtaken => r.version < version),
         r.pc \in Passed => call[c].pc \in Passed /\ r.code = call[c].code
  PROVE  /\ call' \in [Calls -> CallRecord]
         /\ \A d \in Calls : Known(call[d])'
         /\ \A s \in DOMAIN opened' : Earned(opened[s])'
         /\ Distinct'
         /\ credential'.secret = 0 => unused' = {}
<1>1. /\ call \in [Calls -> CallRecord] /\ made \in Nat
      /\ \A d \in Calls : Known(call[d]) /\ call[d].secret \in Nat
      /\ \A s \in DOMAIN opened : Earned(opened[s])
      /\ Distinct /\ (credential.secret = 0 => unused = {})
  BY AdminAssumption, Types DEF Guarded, CallRecord
<1>2. call'[c] = r /\ \A d \in Calls \ {c} : call'[d] = call[d]
  BY <1>1
<1>3. call' \in [Calls -> CallRecord]
  BY <1>1
<1>4. \A code : Spent(code)' <=> Spent(code)
  BY DEF Spent
<1>5. ASSUME NEW d \in Calls PROVE Known(call[d])'
  <2>1. CASE d = c
    BY <1>1, <1>2, <1>4, <2>1 DEF Known
  <2>2. CASE d # c
    <3>1. call'[d] = call[d] /\ Known(call[d]) /\ call[d].secret <= made'
      BY <1>1, <1>2, <2>2 DEF Known
    <3> QED BY <1>4, <3>1 DEF Known
  <2> QED BY <2>1, <2>2
<1>6. \A s \in DOMAIN opened' : Earned(opened[s])'
  BY <1>1, <1>4 DEF Earned
<1>7. Distinct'
  BY <1>1, <1>2 DEF Distinct, CodesOpenOnce
<1> QED BY <1>1, <1>3, <1>5, <1>6, <1>7

\* The types of everything but the calls.
RowTypes ==
  /\ step \in Steps /\ admin \in BOOLEAN /\ version \in 0 .. MaxVersion
  /\ made \in 0 .. MaxSecrets /\ setup \in 0 .. made
  /\ credential \in [secret : 0 .. made, last : 0 .. MaxStep + 1]
  /\ unused \subseteq RecoveryCodes
  /\ attempts \in 0 .. MaxAttempts + 1 /\ expiring \in BOOLEAN
  /\ opened \in Seq(OpenRecord)
  /\ faults \in 0 .. MaxFaults

\* What every step starts from.
LEMMA Start ==
  ASSUME Guarded
  PROVE  /\ RowTypes /\ call \in [Calls -> CallRecord]
         /\ \A c \in Calls : /\ Known(call[c]) /\ call[c] \in CallRecord
                             /\ call[c].secret \in 0 .. made /\ call[c].code \in Codes
         /\ Spent(Wrong) <=> FALSE
<1>1. RowTypes /\ call \in [Calls -> CallRecord]
  BY Types DEF Guarded, RowTypes
<1>2. ASSUME NEW c \in Calls
      PROVE  /\ Known(call[c]) /\ call[c] \in CallRecord
             /\ call[c].secret \in 0 .. made /\ call[c].code \in Codes
  <2>1. Known(call[c]) /\ call[c] \in CallRecord
    BY <1>1, <1>2 DEF Guarded
  <2>2. made \in 0 .. MaxSecrets
    BY <1>1 DEF RowTypes
  <2> QED BY <2>1, <2>2, AdminAssumption DEF Known, CallRecord
<1>3. Wrong \notin Totp /\ Wrong \notin RecoveryCodes
  <2>1. \A code \in Totp : code.kind = "totp"
    BY DEF Totp
  <2>2. \A code \in RecoveryCodes : code.kind = "recovery"
    BY DEF RecoveryCodes
  <2>3. Wrong.kind = "wrong"
    BY DEF Wrong
  <2> QED BY <2>1, <2>2, <2>3
<1> QED BY <1>1, <1>2, <1>3 DEF Spent

\* Types and moves together.
LEMMA MoveGuarded ==
  ASSUME Guarded, RowTypes', NEW c \in Calls, NEW r \in CallRecord,
         call' = [call EXCEPT ![c] = r],
         UNCHANGED <<version, opened, credential, unused>>,
         made <= made', r.secret <= made',
         r.pc = "enable" => r.secret # 0 /\ r.code \in Totp,
         r.pc = "use" => /\ r.code \in Totp /\ credential.secret # 0
                         /\ r.code.secret = credential.secret,
         r.pc \in StepUpPcs => r.version <= version /\ (r.overtaken => r.version < version),
         r.pc \in Passed => call[c].pc \in Passed /\ r.code = call[c].code
  PROVE  Guarded'
<1>1. made' \in Nat
  BY AdminAssumption DEF RowTypes
<1>2. /\ call' \in [Calls -> CallRecord]
      /\ \A d \in Calls : Known(call[d])'
      /\ \A s \in DOMAIN opened' : Earned(opened[s])'
      /\ Distinct'
      /\ credential'.secret = 0 => unused' = {}
  BY <1>1, MoveKept
<1>3. TypeOK'
  BY <1>2 DEF RowTypes, TypeOK, OpenRecord, CallRecord
<1> QED BY <1>2, <1>3 DEF Guarded

\* A call that ends having changed nothing that matters.
LEMMA EndGuarded ==
  ASSUME Guarded, RowTypes', NEW c \in Calls, End(c),
         UNCHANGED <<version, opened, credential, unused>>, made' = made
  PROVE  Guarded'
<1>1. Idle \in CallRecord /\ call' = [call EXCEPT ![c] = Idle]
  BY Start, CallSteps
<1>2. made \in Nat /\ made' \in Nat
  BY AdminAssumption, Start DEF RowTypes
<1>3. /\ Idle.pc = "idle" /\ Idle.secret = 0
      /\ Idle.pc \notin StepUpPcs /\ Idle.pc \notin Passed
  BY DEF Idle, StepUpPcs, Passed
<1>4. 0 <= made'
  BY <1>2
<1>5. made <= made'
  BY <1>2
<1> QED BY <1>1, <1>3, <1>4, <1>5, MoveGuarded, Zenon

\* A call that goes on to its next step without passing a code.
LEMMA GotoGuarded ==
  ASSUME Guarded, RowTypes', NEW c \in Calls, NEW pc \in Pcs, Goto(c, pc),
         UNCHANGED <<version, opened, credential, unused>>, made' = made,
         pc # "enable",
         pc = "use" => /\ call[c].code \in Totp /\ credential.secret # 0
                       /\ call[c].code.secret = credential.secret,
         pc \in StepUpPcs => call[c].pc \in StepUpPcs,
         pc \in Passed => call[c].pc \in Passed
  PROVE  Guarded'
<1> DEFINE r == [call[c] EXCEPT !.pc = pc]
<1>1. /\ r \in CallRecord /\ call' = [call EXCEPT ![c] = r]
      /\ r.pc = pc /\ r.secret = call[c].secret /\ r.code = call[c].code
      /\ r.version = call[c].version /\ r.overtaken = call[c].overtaken
  BY Start, CallSteps
<1>2. call[c].secret <= made /\ made <= made'
  BY AdminAssumption, Start DEF RowTypes
<1>3. pc \in StepUpPcs =>
        /\ call[c].version <= version
        /\ call[c].overtaken => call[c].version < version
  BY Start DEF Known
<1> HIDE DEF r
<1> QED BY <1>1, <1>2, <1>3, MoveGuarded

-----------------------------------------------------------------------------
(***************************************************************************)
(* The account                                                             *)
(***************************************************************************)

\* The session version only grows; what is under way or open falls behind.
LEMMA AccountKept ==
  ASSUME Guarded, Bootstrap \/ Withdraw
  PROVE  Guarded'
<1> USE DEF enrolment, counter
<1>1. /\ RowTypes /\ call \in [Calls -> CallRecord] /\ version \in Nat /\ MaxVersion \in Nat
      /\ \A c \in Calls : Known(call[c]) /\ call[c].version \in Nat
      /\ \A s \in DOMAIN opened : Earned(opened[s]) /\ opened[s].version \in Nat
  <2>1. /\ RowTypes /\ call \in [Calls -> CallRecord] /\ version \in Nat /\ MaxVersion \in Nat
        /\ \A c \in Calls : Known(call[c]) /\ call[c] \in CallRecord
    BY Start, AdminAssumption DEF RowTypes
  <2>2. \A s \in DOMAIN opened : opened[s] \in OpenRecord
    BY <2>1 DEF RowTypes
  <2>3. \A s \in DOMAIN opened : opened[s].version \in Nat
    BY <2>1, <2>2 DEF OpenRecord
  <2>4. \A c \in Calls : call[c].version \in Nat
    BY <2>1 DEF CallRecord
  <2> QED BY <2>1, <2>3, <2>4 DEF Guarded
<1>2. /\ version' = version + 1 /\ version' \in 0 .. MaxVersion /\ admin' \in BOOLEAN
      /\ UNCHANGED <<step, faults, made, setup, credential, unused, attempts, expiring, opened>>
  <2>1. CASE Bootstrap
    <3>1. version' = version + 1 /\ admin' = TRUE
      BY <2>1 DEF Bootstrap
    <3>2. version' \in 0 .. MaxVersion
      BY <2>1, AdminAssumption DEF Bootstrap
    <3> QED BY <2>1, <3>1, <3>2 DEF Bootstrap
  <2>2. CASE Withdraw
    <3>1. version' = version + 1 /\ version < MaxVersion
      BY <2>2 DEF Withdraw
    <3>2. version' \in 0 .. MaxVersion
      BY <1>1, <3>1
    <3> QED BY <2>2, <3>1, <3>2 DEF Withdraw
  <2> QED BY <2>1, <2>2
<1>3. \A r \in CallRecord : [r EXCEPT !.overtaken = TRUE] \in CallRecord
  BY DEF CallRecord
<1>4. /\ call' \in [Calls -> CallRecord]
      /\ \A c \in Calls :
           call'[c] = call[c] \/ call'[c] = [call[c] EXCEPT !.overtaken = TRUE]
  <2>1. CASE Bootstrap
    BY <1>1, <2>1 DEF Bootstrap
  <2>2. CASE Withdraw
    BY <1>1, <1>3, <2>2 DEF Withdraw
  <2> QED BY <2>1, <2>2
<1>5. \A c \in Calls : /\ call'[c].pc = call[c].pc /\ call'[c].secret = call[c].secret
                       /\ call'[c].code = call[c].code /\ call'[c].version = call[c].version
  BY <1>1, <1>4 DEF CallRecord
<1>6. TypeOK'
  BY <1>1, <1>2, <1>4 DEF RowTypes, TypeOK, OpenRecord, CallRecord
<1>7. \A code : Spent(code)' <=> Spent(code)
  BY <1>2 DEF Spent
<1>8. ASSUME NEW c \in Calls PROVE Known(call[c])'
  BY <1>1, <1>2, <1>5, <1>7 DEF Known
<1>9. ASSUME NEW s \in DOMAIN opened' PROVE Earned(opened[s])'
  BY <1>1, <1>2, <1>7 DEF Earned
<1>10. Distinct'
  BY <1>2, <1>5 DEF Guarded, Distinct, CodesOpenOnce
<1> QED BY <1>2, <1>6, <1>8, <1>9, <1>10 DEF Guarded

\* Time passes, for the codes and for the counter.
LEMMA TimeKept ==
  ASSUME Guarded, Tick \/ AttemptsExpire
  PROVE  Guarded'
<1> USE DEF enrolment, account, counter
<1>1. /\ UNCHANGED <<admin, version, made, setup, credential, unused, opened, call, faults>>
      /\ step' \in Steps /\ attempts' \in 0 .. MaxAttempts + 1 /\ expiring' \in BOOLEAN
  <2>1. step \in Steps /\ attempts \in 0 .. MaxAttempts + 1 /\ expiring \in BOOLEAN
    BY Start DEF RowTypes
  <2>2. CASE Tick
    <3>1. step' \in Steps
      BY <2>1, <2>2, AdminAssumption DEF Tick, Steps
    <3> QED BY <2>1, <2>2, <3>1 DEF Tick
  <2>3. CASE AttemptsExpire
    <3>1. 0 \in 0 .. MaxAttempts + 1
      BY AdminAssumption
    <3> QED BY <2>1, <2>3, <3>1 DEF AttemptsExpire
  <2> QED BY <2>2, <2>3
<1>2. TypeOK'
  BY <1>1 DEF Guarded, TypeOK
<1>3. \A code : Spent(code)' <=> Spent(code)
  BY <1>1 DEF Spent
<1>4. \A c \in Calls : Known(call[c])'
  BY <1>1, <1>3 DEF Guarded, Known
<1>5. \A s \in DOMAIN opened' : Earned(opened[s])'
  BY <1>1, <1>3 DEF Guarded, Earned
<1>6. Distinct'
  BY <1>1 DEF Guarded, Distinct, CodesOpenOnce
<1> QED BY <1>1, <1>2, <1>4, <1>5, <1>6 DEF Guarded

-----------------------------------------------------------------------------
(***************************************************************************)
(* Enrolment                                                               *)
(***************************************************************************)

\* Setting up a pending secret, and looking at it.
LEMMA SetupKept ==
  ASSUME Guarded, NEW c \in Calls,
         \/ BeginSetup(c) \/ StoreSetup(c) \/ LogSetup(c) \/ TidySetup(c)
         \/ \E t \in Steps : ConfirmSetup(c, t)
  PROVE  Guarded'
<1> USE DEF enrolment, account, counter
<1>1. RowTypes /\ made \in Nat
  BY Start, AdminAssumption DEF RowTypes
<1>2. CASE BeginSetup(c)
  <2> DEFINE r == [Idle EXCEPT !.pc = "setup", !.secret = made + 1]
  <2>1. /\ call' = [call EXCEPT ![c] = r] /\ made' = made + 1 /\ made < MaxSecrets
        /\ UNCHANGED <<step, admin, version, setup, credential, unused, attempts, expiring, opened,
                       faults>>
    BY <1>2 DEF BeginSetup
  <2>2. RowTypes'
    <3>1. 0 .. made \subseteq 0 .. made' /\ made' \in 0 .. MaxSecrets
      BY <1>1, <2>1, AdminAssumption
    <3>2. credential \in [secret : 0 .. made', last : 0 .. MaxStep + 1] /\ setup \in 0 .. made'
      BY <1>1, <3>1 DEF RowTypes
    <3> QED BY <1>1, <2>1, <3>1, <3>2 DEF RowTypes
  <2>3. /\ r \in CallRecord /\ r.pc = "setup" /\ r.secret = made + 1
    <3>1. made + 1 \in 0 .. MaxSecrets /\ Idle \in CallRecord
      <4>1. made + 1 \in 0 .. MaxSecrets
        BY <1>1, <2>1, AdminAssumption
      <4> QED BY <4>1, Start, CallSteps
    <3> QED BY <3>1 DEF CallRecord, Pcs
  <2>4. made <= made' /\ r.secret <= made'
    BY <1>1, <2>1, <2>3
  <2> HIDE DEF r
  <2> QED BY <2>1, <2>2, <2>3, <2>4, MoveGuarded DEF StepUpPcs, Passed
<1>3. CASE StoreSetup(c)
  <2>1. /\ Goto(c, "logSetup") /\ setup' = call[c].secret
        /\ UNCHANGED <<step, admin, version, made, credential, unused, attempts, expiring, opened,
                       faults>>
    BY <1>3 DEF StoreSetup
  <2>2. RowTypes'
    BY <1>1, <2>1, Start DEF RowTypes
  <2> QED BY <2>1, <2>2, GotoGuarded DEF Pcs, StepUpPcs, Passed
<1>4. CASE LogSetup(c) \/ TidySetup(c)
  <2>1. /\ End(c) /\ setup' \in {setup, 0}
        /\ UNCHANGED <<step, admin, version, made, credential, unused, attempts, expiring, opened,
                       faults>>
    BY <1>4 DEF LogSetup, TidySetup
  <2>2. RowTypes'
    BY <1>1, <2>1 DEF RowTypes
  <2> QED BY <2>1, <2>2, EndGuarded
<1>5. ASSUME NEW t \in Steps, ConfirmSetup(c, t) PROVE Guarded'
  <2> DEFINE code == [kind |-> "totp", secret |-> setup, step |-> t]
             r == [Idle EXCEPT !.pc = "enable", !.secret = setup, !.code = code]
  <2>1. /\ call' = [call EXCEPT ![c] = r] /\ setup # 0
        /\ UNCHANGED <<step, admin, version, made, setup, credential, unused, attempts, expiring,
                       opened, faults>>
    BY <1>5 DEF ConfirmSetup
  <2>2. RowTypes'
    BY <1>1, <2>1 DEF RowTypes
  <2>3. setup \in Secrets /\ t \in 0 .. MaxStep + 1 /\ setup \in 0 .. MaxSecrets /\ setup <= made
    <3>1. made \in 0 .. MaxSecrets /\ setup \in 0 .. made /\ setup # 0
      BY <1>1, <2>1 DEF RowTypes
    <3>2. MaxSecrets \in Nat /\ MaxStep \in Nat /\ t \in 0 .. MaxStep
      BY AdminAssumption DEF Steps
    <3>3. t \in 0 .. MaxStep + 1
      BY <3>2
    <3>4. setup \in 1 .. MaxSecrets /\ setup <= made
      BY <3>1, <3>2
    <3> QED BY <3>3, <3>4 DEF Secrets
  <2>4. code \in Totp
    BY <2>3 DEF Totp
  <2>5. r \in CallRecord /\ r.pc = "enable" /\ r.secret = setup /\ r.code = code
    <3>1. Idle \in CallRecord
      BY Start, CallSteps
    <3> HIDE DEF code
    <3> QED BY <2>3, <2>4, <3>1 DEF CallRecord, Pcs, Codes
  <2>6. made <= made' /\ r.secret <= made'
    BY <1>1, <2>1, <2>3, <2>5
  <2> HIDE DEF r, code
  <2> QED BY <2>1, <2>2, <2>4, <2>5, <2>6, MoveGuarded DEF StepUpPcs, Passed
<1> QED BY <1>2, <1>3, <1>4, <1>5

\* The first enrolment creates the credential: no code was spent before.
LEMMA EnableKept ==
  ASSUME Guarded, NEW c \in Calls, Enable(c)
  PROVE  Guarded'
<1> USE DEF enrolment, account, counter
<1>1. /\ RowTypes /\ call \in [Calls -> CallRecord]
      /\ UNCHANGED <<step, admin, version, made, setup, attempts, expiring, opened, faults>>
  BY Start DEF Enable
<1>2. CASE credential.secret # 0
  <2>1. End(c) /\ UNCHANGED <<credential, unused>>
    BY <1>2 DEF Enable
  <2>2. RowTypes'
    BY <1>1, <2>1 DEF RowTypes
  <2> QED BY <1>1, <2>1, <2>2, EndGuarded
<1>3. CASE credential.secret = 0
  <2> DEFINE r == [call[c] EXCEPT !.pc = "tidy"]
  <2>1. /\ credential' = [secret |-> call[c].secret, last |-> call[c].code.step]
        /\ unused' = {[kind |-> "recovery", secret |-> call[c].secret, code |-> a] : a \in Recovery}
        /\ Goto(c, "tidy") /\ call[c].pc = "enable"
    BY <1>3 DEF Enable
  <2>2. /\ call[c].secret # 0 /\ call[c].secret \in 0 .. made /\ call[c].code \in Totp
    BY <2>1, Start DEF Known
  <2>3. call[c].code.step \in 0 .. MaxStep + 1 /\ call[c].secret \in Secrets
    BY <1>1, <2>2, AdminAssumption DEF Totp, Secrets, RowTypes
  <2>4. RowTypes'
    <3>1. unused' \subseteq RecoveryCodes
      BY <2>1, <2>3 DEF RecoveryCodes
    <3>2. credential' \in [secret : 0 .. made, last : 0 .. MaxStep + 1]
      BY <2>1, <2>2, <2>3
    <3> QED BY <1>1, <3>1, <3>2 DEF RowTypes
  <2>5. /\ call' = [call EXCEPT ![c] = r] /\ r \in CallRecord /\ r.pc = "tidy"
        /\ r.secret = call[c].secret
    BY <1>1, <2>1, CallSteps DEF Pcs
  <2>6. call' \in [Calls -> CallRecord] /\ call'[c] = r /\ \A d \in Calls \ {c} : call'[d] = call[d]
    <3> HIDE DEF r
    <3> QED BY <1>1, <2>5
  <2>7. \A d \in Calls : call[d].pc \notin Passed /\ call[d].pc # "use"
    BY <1>3, Start DEF Known, Spent
  <2>8. \A d \in Calls : call'[d].pc \notin Passed /\ call'[d].pc # "use"
    <3> HIDE DEF r
    <3> QED BY <2>5, <2>6, <2>7 DEF Passed
  <2>9. DOMAIN opened = {}
    BY <1>3 DEF Guarded, Earned, Spent
  <2>10. ASSUME NEW d \in Calls PROVE Known(call[d])'
    <3>1. Known(call[d]) /\ Known(call[c])
      BY Start
    <3>2. CASE d = c
      <4> HIDE DEF r
      <4> QED BY <1>1, <2>5, <2>6, <2>8, <3>1, <3>2 DEF Known, StepUpPcs
    <3>3. CASE d # c
      <4> HIDE DEF r
      <4> QED BY <1>1, <2>6, <2>8, <3>1, <3>3 DEF Known
    <3> QED BY <3>2, <3>3
  <2>11. Distinct' /\ \A s \in DOMAIN opened' : Earned(opened[s])'
    BY <1>1, <2>8, <2>9 DEF Distinct, CodesOpenOnce
  <2>12. TypeOK'
    BY <2>4, <2>6 DEF RowTypes, TypeOK, OpenRecord, CallRecord
  <2>13. credential'.secret # 0
    BY <2>1, <2>2
  <2> QED BY <2>10, <2>11, <2>12, <2>13 DEF Guarded
<1> QED BY <1>2, <1>3

-----------------------------------------------------------------------------
(***************************************************************************)
(* Step-up                                                                 *)
(***************************************************************************)

\* Presenting a code, counting the attempt, and checking the code pass nothing yet.
LEMMA AttemptKept ==
  ASSUME Guarded, NEW c \in Calls,
         \/ \E code \in Presentable : StepUp(c, code)
         \/ RegisterAttempt(c) \/ ExpireAttempts(c) \/ VerifyTotp(c)
  PROVE  Guarded'
<1> USE DEF enrolment, account, counter
<1>1. RowTypes /\ made \in Nat /\ Known(call[c]) /\ call[c].code \in Codes
  BY Start, AdminAssumption DEF RowTypes
<1>2. ASSUME NEW code \in Presentable, StepUp(c, code) PROVE Guarded'
  <2> DEFINE r == [Idle EXCEPT !.pc = "attempt", !.code = code, !.version = version]
  <2>1. /\ call' = [call EXCEPT ![c] = r]
        /\ UNCHANGED <<step, admin, version, made, setup, credential, unused, attempts, expiring,
                       opened, faults>>
    BY <1>2 DEF StepUp
  <2>2. RowTypes'
    BY <1>1, <2>1 DEF RowTypes
  <2>3. code \in Codes /\ version \in 0 .. MaxVersion
    BY <1>1, PresentableCodes DEF Guarded, RowTypes
  <2>4. /\ r \in CallRecord /\ r.pc = "attempt" /\ r.secret = 0 /\ r.version = version
        /\ r.overtaken = FALSE
    <3>1. Idle \in CallRecord
      BY Start, CallSteps
    <3>2. \A t \in CallRecord, v \in 0 .. MaxVersion, d \in Codes :
            [t EXCEPT !.pc = "attempt", !.code = d, !.version = v] \in CallRecord
      BY DEF CallRecord, Pcs
    <3> QED BY <2>3, <3>1, <3>2 DEF Idle
  <2>5. made <= made' /\ r.secret <= made' /\ r.version <= version
    BY <1>1, <2>1, <2>3, <2>4, AdminAssumption
  <2> HIDE DEF r
  <2> QED BY <2>1, <2>2, <2>4, <2>5, MoveGuarded DEF Passed
<1>3. CASE RegisterAttempt(c)
  <2>1. /\ UNCHANGED <<step, admin, version, made, setup, credential, unused, expiring, opened, faults>>
        /\ attempts' = IF attempts > MaxAttempts THEN attempts ELSE attempts + 1
        /\ Goto(c, "expire") \/ Goto(c, "verify") \/ End(c)
        /\ call[c].pc = "attempt"
    BY <1>3 DEF RegisterAttempt
  <2>2. RowTypes'
    <3>1. attempts' \in 0 .. MaxAttempts + 1
      BY <1>1, <2>1, AdminAssumption DEF RowTypes
    <3> QED BY <1>1, <2>1, <3>1 DEF RowTypes
  <2> QED BY <2>1, <2>2, EndGuarded, GotoGuarded DEF Pcs, StepUpPcs, Passed
<1>4. CASE ExpireAttempts(c)
  <2>1. /\ UNCHANGED <<step, admin, version, made, setup, credential, unused, attempts, opened, faults>>
        /\ expiring' = (attempts > 0) /\ Goto(c, "verify") /\ call[c].pc = "expire"
    BY <1>4 DEF ExpireAttempts
  <2>2. RowTypes'
    BY <1>1, <2>1 DEF RowTypes
  <2> QED BY <2>1, <2>2, GotoGuarded DEF Pcs, StepUpPcs, Passed
<1>5. CASE VerifyTotp(c)
  <2>1. /\ UNCHANGED <<step, admin, version, made, setup, credential, unused, attempts, expiring,
                       opened, faults>>
        /\ call[c].pc = "verify"
        /\ \/ End(c)
           \/ /\ Goto(c, "use") /\ credential.secret # 0
              /\ Valid(call[c].code, credential.secret, credential.last)
    BY <1>5 DEF VerifyTotp
  <2>2. RowTypes'
    BY <1>1, <2>1 DEF RowTypes
  <2>3. CASE End(c)
    BY <2>1, <2>2, <2>3, EndGuarded
  <2>4. CASE /\ Goto(c, "use") /\ credential.secret # 0
             /\ Valid(call[c].code, credential.secret, credential.last)
    <3>1. call[c].code \in Totp /\ call[c].code.secret = credential.secret
      BY <1>1, <2>4, TotpKind DEF Valid
    <3> QED BY <2>1, <2>2, <2>4, <3>1, GotoGuarded DEF Pcs, StepUpPcs, Passed
  <2> QED BY <2>1, <2>3, <2>4
<1> QED BY <1>2, <1>3, <1>4, <1>5

\* A call that passes with a code nobody has passed with: what others have spent stays
\* spent, and the code is spent from now on.
LEMMA PassKept ==
  ASSUME Guarded, NEW c \in Calls, Goto(c, "verified"), call[c].pc \in StepUpPcs,
         RowTypes', UNCHANGED <<version, made, opened>>,
         credential'.secret # 0,
         \A code : Spent(code) => Spent(code)',
         \A d \in Calls : call[d].pc = "use" =>
            credential'.secret # 0 /\ call[d].code.secret = credential'.secret,
         ~Spent(call[c].code), Spent(call[c].code)'
  PROVE  Guarded'
<1> DEFINE r == [call[c] EXCEPT !.pc = "verified"]
<1>1. /\ RowTypes /\ call \in [Calls -> CallRecord]
      /\ \A d \in Calls : Known(call[d])
      /\ \A s \in DOMAIN opened : Earned(opened[s])
      /\ Distinct
  BY Start DEF Guarded
<1>2. /\ call' = [call EXCEPT ![c] = r] /\ r \in CallRecord /\ r.pc = "verified"
      /\ r.secret = call[c].secret /\ r.code = call[c].code
      /\ r.version = call[c].version /\ r.overtaken = call[c].overtaken
  BY <1>1, CallSteps DEF Pcs
<1> HIDE DEF r
<1>3. /\ call' \in [Calls -> CallRecord] /\ call'[c] = r
      /\ \A d \in Calls \ {c} : call'[d] = call[d]
  BY <1>1, <1>2
<1>4. TypeOK'
  BY <1>3 DEF RowTypes, TypeOK, OpenRecord, CallRecord
<1>5. ASSUME NEW d \in Calls PROVE Known(call[d])'
  <2>1. Known(call[d])
    BY <1>1
  <2>2. CASE d = c
    BY <1>2, <1>3, <2>1, <2>2 DEF Known
  <2>3. CASE d # c
    BY <1>3, <2>1, <2>3 DEF Known
  <2> QED BY <2>2, <2>3
<1>6. \A s \in DOMAIN opened' : Earned(opened[s])'
  BY <1>1 DEF Earned
<1>7. \A d \in Calls : call[d].pc \in Passed => Spent(call[d].code)
  BY <1>1 DEF Known
<1>8. \A s \in DOMAIN opened : Spent(opened[s].code)
  BY <1>1 DEF Earned
<1>9. Distinct'
  <2>1. ASSUME NEW d \in Calls, NEW e \in Calls, d # e, call'[d].pc \in Passed,
               call'[e].pc \in Passed
        PROVE  call'[d].code # call'[e].code
    BY <1>1, <1>2, <1>3, <1>7, <2>1 DEF Distinct
  <2>2. ASSUME NEW d \in Calls, NEW s \in DOMAIN opened', call'[d].pc \in Passed
        PROVE  call'[d].code # opened'[s].code
    BY <1>1, <1>2, <1>3, <1>8, <2>2 DEF Distinct
  <2>3. CodesOpenOnce'
    BY <1>1 DEF Distinct, CodesOpenOnce
  <2> QED BY <2>1, <2>2, <2>3 DEF Distinct
<1> QED BY <1>4, <1>5, <1>6, <1>9 DEF Guarded

\* A TOTP step is recorded only if it is later than every step that has passed; a recovery
\* code passes only while its row is unused.
LEMMA UseKept ==
  ASSUME Guarded, NEW c \in Calls, UseTotp(c) \/ ConsumeRecoveryCode(c)
  PROVE  Guarded'
<1> USE DEF enrolment, account, counter
<1>1. /\ RowTypes /\ call \in [Calls -> CallRecord] /\ Known(call[c]) /\ call[c].code \in Codes
      /\ UNCHANGED <<step, admin, version, made, setup, attempts, expiring, opened, faults>>
  BY Start DEF UseTotp, ConsumeRecoveryCode
<1>2. CASE End(c) /\ UNCHANGED <<credential, unused>>
  <2>1. RowTypes'
    BY <1>1, <1>2 DEF RowTypes
  <2> QED BY <1>1, <1>2, <2>1, EndGuarded
<1>3. ASSUME UseTotp(c), credential.last < call[c].code.step PROVE Guarded'
  <2> DEFINE code == call[c].code
  <2>1. /\ credential' = [credential EXCEPT !.last = code.step] /\ UNCHANGED unused
        /\ Goto(c, "verified") /\ call[c].pc = "use"
    BY <1>3 DEF UseTotp
  <2>2. code \in Totp /\ credential.secret # 0 /\ code.secret = credential.secret
    BY <1>1, <2>1 DEF Known
  <2>3. /\ code.step \in 0 .. MaxStep + 1
        /\ credential \in [secret : 0 .. made, last : 0 .. MaxStep + 1]
    BY <1>1, <2>2 DEF Totp, RowTypes
  <2>4. /\ credential'.secret = credential.secret /\ credential'.last = code.step
        /\ credential' \in [secret : 0 .. made, last : 0 .. MaxStep + 1]
    BY <2>1, <2>3
  <2>5. RowTypes'
    BY <1>1, <2>1, <2>4 DEF RowTypes
  <2>6. credential.last \in Nat /\ code.step \in Nat /\ credential.last < code.step
    BY <1>3, <2>3, AdminAssumption
  <2>7. ASSUME NEW d, Spent(d) PROVE Spent(d)'
    <3>1. CASE d \in RecoveryCodes /\ d \notin unused
      BY <2>1, <2>4, <2>7, <3>1 DEF Spent
    <3>2. CASE d \in Totp /\ d.secret = credential.secret /\ d.step <= credential.last
      <4>1. d.step \in Nat
        BY <3>2, AdminAssumption DEF Totp
      <4>2. d.step <= credential'.last
        BY <2>4, <2>6, <3>2, <4>1
      <4> QED BY <2>4, <2>7, <3>2, <4>2 DEF Spent
    <3> QED BY <2>7, <3>1, <3>2 DEF Spent
  <2>8. ~Spent(code)
    BY <2>2, <2>6, KindsDiffer DEF Spent
  <2>9. Spent(code)'
    <3>1. code.step <= credential'.last
      BY <2>4, <2>6
    <3>2. credential'.secret # 0 /\ code.secret = credential'.secret
      BY <2>2, <2>4
    <3>3. call'[c].code = call[c].code
      <4>1. "verified" \in Pcs
        BY DEF Pcs
      <4> QED BY <1>1, <2>1, <4>1, GotoCode
    <3> QED BY <2>2, <3>1, <3>2, <3>3 DEF Spent
  <2>10. \A d \in Calls : call[d].pc = "use" =>
           credential'.secret # 0 /\ call[d].code.secret = credential'.secret
    BY <2>4, Start DEF Known
  <2>11. credential'.secret # 0 /\ call[c].pc \in StepUpPcs
    BY <2>1, <2>2, <2>4 DEF StepUpPcs
  <2> QED BY <1>1, <2>1, <2>5, <2>7, <2>8, <2>9, <2>10, <2>11, PassKept
<1>4. ASSUME ConsumeRecoveryCode(c), call[c].code \in unused PROVE Guarded'
  <2> DEFINE code == call[c].code
  <2>1. /\ unused' = unused \ {code} /\ UNCHANGED credential
        /\ Goto(c, "verified") /\ call[c].pc = "verify"
    BY <1>4 DEF ConsumeRecoveryCode
  <2>2. RowTypes' /\ code \in RecoveryCodes
    BY <1>1, <1>4, <2>1 DEF RowTypes
  <2>3. credential.secret # 0
    BY <1>4 DEF Guarded
  <2>4. ASSUME NEW d, Spent(d) PROVE Spent(d)'
    BY <2>1, <2>4 DEF Spent
  <2>5. ~Spent(code)
    BY <1>4, <2>2, KindsDiffer DEF Spent
  <2>6. Spent(code)'
    <3>1. call'[c].code = call[c].code
      <4>1. "verified" \in Pcs
        BY DEF Pcs
      <4> QED BY <1>1, <2>1, <4>1, GotoCode
    <3> QED BY <2>1, <2>2, <2>3, <3>1 DEF Spent
  <2>7. \A d \in Calls : call[d].pc = "use" =>
          credential'.secret # 0 /\ call[d].code.secret = credential'.secret
    BY <2>1, Start DEF Known
  <2>8. credential'.secret # 0 /\ call[c].pc \in StepUpPcs
    BY <2>1, <2>3 DEF StepUpPcs
  <2> QED BY <1>1, <2>1, <2>2, <2>4, <2>5, <2>6, <2>7, <2>8, PassKept
<1> QED BY <1>2, <1>3, <1>4 DEF UseTotp, ConsumeRecoveryCode

\* A call that has passed forgets the attempts and opens its session, or fails on the way.
LEMMA OpenKept ==
  ASSUME Guarded, NEW c \in Calls, ForgetAttempts(c) \/ OpenSession(c) \/ Fails(c)
  PROVE  Guarded'
<1> USE DEF enrolment, account, counter
<1>1. /\ RowTypes /\ call \in [Calls -> CallRecord] /\ Known(call[c]) /\ call[c] \in CallRecord
  BY Start
<1>2. CASE ForgetAttempts(c)
  <2>1. /\ UNCHANGED <<step, admin, version, made, setup, credential, unused, opened, faults>>
        /\ attempts' = 0 /\ expiring' = FALSE /\ Goto(c, "open") /\ call[c].pc = "verified"
    BY <1>2 DEF ForgetAttempts
  <2>2. RowTypes'
    <3>1. 0 \in 0 .. MaxAttempts + 1
      BY AdminAssumption
    <3> QED BY <1>1, <2>1, <3>1 DEF RowTypes
  <2> QED BY <2>1, <2>2, GotoGuarded DEF Pcs, StepUpPcs, Passed
<1>3. CASE Fails(c)
  <2>1. /\ UNCHANGED <<step, admin, version, made, setup, credential, unused, attempts, expiring,
                       opened>>
        /\ faults < MaxFaults /\ faults' = faults + 1 /\ End(c)
    BY <1>3 DEF Fails
  <2>2. RowTypes'
    BY <1>1, <2>1, AdminAssumption DEF RowTypes
  <2> QED BY <2>1, <2>2, EndGuarded
<1>4. CASE OpenSession(c)
  <2> DEFINE o == [version |-> call[c].version, code |-> call[c].code,
                   overtaken |-> call[c].overtaken]
  <2>1. /\ UNCHANGED <<step, admin, version, made, setup, credential, unused, attempts, expiring,
                       faults>>
        /\ opened' = Append(opened, o) /\ End(c) /\ call[c].pc = "open"
    BY <1>4 DEF OpenSession
  <2>2. o \in OpenRecord /\ opened \in Seq(OpenRecord)
    BY <1>1 DEF OpenRecord, CallRecord, RowTypes
  <2>3. /\ opened' \in Seq(OpenRecord) /\ Len(opened) \in Nat
        /\ DOMAIN opened = 1 .. Len(opened) /\ DOMAIN opened' = 1 .. Len(opened) + 1
        /\ opened'[Len(opened) + 1] = o
        /\ \A s \in DOMAIN opened : opened'[s] = opened[s]
    <3> HIDE DEF o
    <3> QED BY <2>1, <2>2
  <2>4. /\ o.code = call[c].code /\ o.version = call[c].version /\ o.overtaken = call[c].overtaken
    OBVIOUS
  <2> DEFINE n == Len(opened) + 1
  <2>5. DOMAIN opened' = DOMAIN opened \cup {n} /\ n \notin DOMAIN opened
    BY <2>3
  <2> HIDE DEF o, n
  <2>6. call' = [call EXCEPT ![c] = Idle] /\ Idle \in CallRecord
    BY <1>1, <2>1, CallSteps
  <2>7. /\ call' \in [Calls -> CallRecord] /\ call'[c] = Idle
        /\ \A d \in Calls \ {c} : call'[d] = call[d]
    BY <1>1, <2>6
  <2>8. TypeOK'
    BY <1>1, <2>1, <2>3, <2>7 DEF RowTypes, TypeOK, OpenRecord, CallRecord
  <2>9. \A code : Spent(code)' <=> Spent(code)
    BY <2>1 DEF Spent
  <2>10. /\ Spent(call[c].code) /\ call[c].version <= version
         /\ call[c].overtaken => call[c].version < version
    BY <1>1, <2>1 DEF Known, Passed, StepUpPcs
  <2>11. Idle.pc \notin Passed /\ Idle.pc \notin StepUpPcs /\ Idle.pc = "idle" /\ Idle.secret = 0
    BY DEF Idle, Passed, StepUpPcs
  <2>12. ASSUME NEW d \in Calls PROVE Known(call[d])'
    <3>1. made \in Nat
      BY <1>1, AdminAssumption DEF RowTypes
    <3>2. CASE d = c
      BY <2>1, <2>7, <2>11, <3>1, <3>2 DEF Known
    <3>3. CASE d # c
      BY <2>1, <2>7, <2>9, <3>3, Start DEF Known
    <3> QED BY <3>2, <3>3
  <2>13. ASSUME NEW s \in DOMAIN opened' PROVE Earned(opened[s])'
    <3>1. CASE s \in DOMAIN opened
      BY <2>1, <2>3, <2>9, <3>1 DEF Guarded, Earned
    <3>2. CASE s = n
      BY <2>1, <2>3, <2>4, <2>9, <2>10, <3>2 DEF Earned, n
    <3> QED BY <2>5, <3>1, <3>2
  <2>14. \A s \in DOMAIN opened : opened[s].code # call[c].code
    BY <2>1 DEF Guarded, Distinct, Passed
  <2>15. /\ opened'[n].code = call[c].code
         /\ \A s \in DOMAIN opened : opened'[s].code = opened[s].code
    BY <2>3, <2>4 DEF n
  <2>16. CodesOpenOnce'
    <3>1. ASSUME NEW s \in DOMAIN opened', NEW t \in DOMAIN opened',
                 opened'[s].code = opened'[t].code, s # t
          PROVE  FALSE
      <4>1. CASE s \in DOMAIN opened /\ t \in DOMAIN opened
        BY <2>15, <3>1, <4>1 DEF Guarded, Distinct, CodesOpenOnce
      <4>2. CASE s = n \/ t = n
        BY <2>5, <2>14, <2>15, <3>1, <4>2
      <4> QED BY <2>5, <4>1, <4>2
    <3> QED BY <3>1 DEF CodesOpenOnce
  <2>17. Distinct'
    <3>1. ASSUME NEW d \in Calls, NEW s \in DOMAIN opened', call'[d].pc \in Passed
          PROVE  call'[d].code # opened'[s].code
      <4>1. d # c /\ call'[d] = call[d]
        BY <2>7, <2>11, <3>1
      <4>2. CASE s \in DOMAIN opened
        BY <2>15, <3>1, <4>1, <4>2 DEF Guarded, Distinct
      <4>3. CASE s = n
        BY <2>1, <2>15, <3>1, <4>1, <4>3 DEF Guarded, Distinct, Passed
      <4> QED BY <2>5, <4>2, <4>3
    <3>2. \A d, e \in Calls : d # e /\ call'[d].pc \in Passed /\ call'[e].pc \in Passed =>
            call'[d].code # call'[e].code
      BY <2>7, <2>11 DEF Guarded, Distinct
    <3> QED BY <2>16, <3>1, <3>2 DEF Distinct
  <2>18. credential'.secret = 0 => unused' = {}
    BY <2>1 DEF Guarded
  <2> QED BY <2>8, <2>12, <2>13, <2>17, <2>18 DEF Guarded
<1> QED BY <1>2, <1>3, <1>4

-----------------------------------------------------------------------------
(***************************************************************************)
(* The theorems                                                            *)
(***************************************************************************)

\* No administrator, no credential, no call and no session at first.
LEMMA InitGuarded == Init => Guarded
<1> SUFFICES ASSUME Init PROVE Guarded
  OBVIOUS
<1>1. Idle \in CallRecord
  BY AdminAssumption DEF Idle, CallRecord, Pcs, Codes
<1>2. call \in [Calls -> CallRecord]
  BY <1>1 DEF Init
<1>3. TypeOK
  <2>1. /\ 0 \in Steps /\ 0 \in 0 .. MaxVersion /\ 0 \in 0 .. MaxSecrets /\ 0 \in 0 .. 0
        /\ 0 \in 0 .. MaxAttempts + 1 /\ 0 \in 0 .. MaxFaults /\ 0 \in 0 .. MaxStep + 1
    BY AdminAssumption DEF Steps
  <2>2. credential \in [secret : 0 .. made, last : 0 .. MaxStep + 1]
    BY <2>1 DEF Init
  <2>3. opened \in Seq(OpenRecord)
    BY DEF Init
  <2> QED BY <1>2, <2>1, <2>2, <2>3, Types DEF Init
<1>4. \A c \in Calls : Known(call[c]) /\ call[c].pc \notin Passed
  BY DEF Init, Idle, Known, StepUpPcs, Passed
<1>5. DOMAIN opened = {}
  BY DEF Init
<1> QED BY <1>3, <1>4, <1>5 DEF Guarded, Distinct, CodesOpenOnce, Init

\* Every step keeps the invariant.
LEMMA StepGuarded == Guarded /\ [Next]_vars => Guarded'
<1> SUFFICES ASSUME Guarded, [Next]_vars PROVE Guarded'
  OBVIOUS
<1>1. CASE UNCHANGED vars
  BY <1>1 DEF vars, Guarded, TypeOK, Known, Earned, Spent, Distinct, CodesOpenOnce, Valid
<1>2. CASE Next
  BY <1>2, AccountKept, TimeKept, SetupKept, EnableKept, AttemptKept, UseKept, OpenKept DEF Next
<1> QED BY <1>1, <1>2

\* The invariant behind the second factor holds in every reachable state.
THEOREM AlwaysGuarded == Spec => []Guarded
BY InitGuarded, StepGuarded, PTL DEF Spec

\* Every variable keeps its type through enrolment, step-up and withdrawal, whichever calls
\* overlap and fail (AdminMfaService, AdminSessionService).
THEOREM TypeCorrect == Spec => []TypeOK
<1>1. Guarded => TypeOK
  BY DEF Guarded
<1> QED BY <1>1, AlwaysGuarded, PTL

\* A TOTP or recovery code opens one session however many step-ups present it at once, and a
\* session opened while access was withdrawn is never accepted (stepUp, authenticate).
THEOREM SecondFactorAlwaysHolds == Spec => []SecondFactorHolds
<1>1. Guarded => SecondFactorHolds
  <2> SUFFICES ASSUME Guarded PROVE SecondFactorHolds
    OBVIOUS
  <2>1. CodesOpenOnce
    BY DEF Guarded, Distinct
  <2>2. ASSUME NEW s \in DOMAIN opened, opened[s].overtaken PROVE opened[s].version # version
    <3>1. opened[s] \in OpenRecord /\ version \in Nat
      BY AdminAssumption, Start DEF RowTypes
    <3>2. opened[s].version < version /\ opened[s].version \in Nat
      BY <2>2, <3>1, AdminAssumption DEF Guarded, Earned, OpenRecord
    <3> QED BY <3>1, <3>2
  <2> QED BY <2>1, <2>2 DEF SecondFactorHolds, WithdrawnForGood, Accepted
<1> QED BY <1>1, AlwaysGuarded, PTL

\* What a step of one call leaves of every other call: all of it.
LEMMA OthersStay ==
  ASSUME call \in [Calls -> CallRecord], NEW c \in Calls, NEW r, call' = [call EXCEPT ![c] = r]
  PROVE  call'[c] = r /\ \A d \in Calls \ {c} : call'[d] = call[d]
OBVIOUS

\* A step that leaves the counter alone, and no call that was about to limit it, keeps the end
\* of the lockout in sight.
LEMMA CounterStays ==
  ASSUME LockoutEnds, UNCHANGED counter,
         \A c \in Calls : call[c].pc = "expire" => call'[c].pc = "expire"
  PROVE  LockoutEnds'
BY DEF LockoutEnds, counter

\* A call that moves on, or ends, from anywhere but its EXPIRE and leaves the counter alone.
LEMMA MoveStays ==
  ASSUME LockoutEnds, call \in [Calls -> CallRecord], UNCHANGED counter, NEW c \in Calls,
         call[c].pc # "expire", NEW r, call' = [call EXCEPT ![c] = r]
  PROVE  LockoutEnds'
<1>1. \A d \in Calls \ {c} : call'[d] = call[d]
  BY OthersStay
<1> QED BY <1>1, CounterStays

\* A counter that is above nothing has a time to live or a call that is about to set it.
LEMMA StepLockout ==
  ASSUME "expire" \notin FailAt
  PROVE  Guarded /\ LockoutEnds /\ [Next]_vars => LockoutEnds'
<1> SUFFICES ASSUME Guarded, LockoutEnds, [Next]_vars PROVE LockoutEnds'
  OBVIOUS
<1>1. call \in [Calls -> CallRecord] /\ attempts \in Nat
  BY Start, AdminAssumption DEF RowTypes
<1>2. CASE UNCHANGED vars
  BY <1>2 DEF vars, LockoutEnds
<1>3. CASE AttemptsExpire
  BY <1>3 DEF AttemptsExpire, LockoutEnds
<1>4. CASE Bootstrap \/ Tick
  <2>1. UNCHANGED counter /\ UNCHANGED call
    BY <1>4 DEF Bootstrap, Tick
  <2> QED BY <2>1, CounterStays
<1>5. CASE Withdraw
  <2>1. UNCHANGED counter
    BY <1>5 DEF Withdraw
  <2>2. ASSUME NEW c \in Calls, call[c].pc = "expire" PROVE call'[c].pc = "expire"
    <3>1. call'[c] = [call[c] EXCEPT !.overtaken = TRUE]
      BY <1>5, <2>2 DEF Withdraw
    <3> QED BY <1>1, <2>2, <3>1 DEF CallRecord
  <2> QED BY <2>1, <2>2, CounterStays
<1>6. ASSUME NEW c \in Calls, RegisterAttempt(c) PROVE LockoutEnds'
  <2>1. CASE attempts = 0
    <3>1. Goto(c, "expire") /\ "expire" \in Pcs
      BY <1>6, <2>1 DEF RegisterAttempt, Pcs
    <3> DEFINE r == [call[c] EXCEPT !.pc = "expire"]
    <3>2. call' = [call EXCEPT ![c] = r] /\ r.pc = "expire"
      BY <1>1, <3>1, CallSteps
    <3> HIDE DEF r
    <3>3. call'[c].pc = "expire"
      BY <1>1, <3>2, OthersStay
    <3> QED BY <3>3 DEF LockoutEnds
  <2>2. CASE attempts # 0
    <3>1. attempts > 0 /\ UNCHANGED expiring /\ call[c].pc = "attempt"
      BY <1>1, <1>6, <2>2 DEF RegisterAttempt
    <3>2. \E r : call' = [call EXCEPT ![c] = r]
      BY <1>6, <2>2 DEF RegisterAttempt, End, Goto
    <3>3. \A d \in Calls \ {c} : call'[d] = call[d]
      BY <1>1, <3>2, OthersStay
    <3>4. expiring \/ \E d \in Calls \ {c} : call[d].pc = "expire"
      BY <3>1 DEF LockoutEnds
    <3> QED BY <3>1, <3>3, <3>4 DEF LockoutEnds
  <2> QED BY <2>1, <2>2
<1>7. ASSUME NEW c \in Calls, ExpireAttempts(c) PROVE LockoutEnds'
  BY <1>7 DEF ExpireAttempts, LockoutEnds
<1>8. ASSUME NEW c \in Calls, ForgetAttempts(c) PROVE LockoutEnds'
  BY <1>8 DEF ForgetAttempts, LockoutEnds
<1>9. ASSUME NEW c \in Calls, Fails(c) PROVE LockoutEnds'
  <2>1. UNCHANGED counter /\ call[c].pc # "expire" /\ call' = [call EXCEPT ![c] = Idle]
    BY <1>9 DEF Fails, End
  <2> QED BY <1>1, <2>1, MoveStays
<1>10. ASSUME NEW c \in Calls,
              BeginSetup(c) \/ StoreSetup(c) \/ LogSetup(c) \/ Enable(c) \/ TidySetup(c)
       PROVE  LockoutEnds'
  <2>1. UNCHANGED counter /\ call[c].pc # "expire"
    BY <1>10 DEF BeginSetup, StoreSetup, LogSetup, Enable, TidySetup
  <2>2. \E r : call' = [call EXCEPT ![c] = r]
    BY <1>10 DEF BeginSetup, StoreSetup, LogSetup, Enable, TidySetup, Goto, End
  <2> QED BY <1>1, <2>1, <2>2, MoveStays
<1>11. ASSUME NEW c \in Calls, NEW t \in Steps, ConfirmSetup(c, t) PROVE LockoutEnds'
  <2>1. UNCHANGED counter /\ call[c].pc # "expire" /\ \E r : call' = [call EXCEPT ![c] = r]
    BY <1>11 DEF ConfirmSetup
  <2> QED BY <1>1, <2>1, MoveStays
<1>12. ASSUME NEW c \in Calls, NEW code \in Presentable, StepUp(c, code) PROVE LockoutEnds'
  <2>1. UNCHANGED counter /\ call[c].pc # "expire" /\ \E r : call' = [call EXCEPT ![c] = r]
    BY <1>12 DEF StepUp
  <2> QED BY <1>1, <2>1, MoveStays
<1>13. ASSUME NEW c \in Calls,
              VerifyTotp(c) \/ UseTotp(c) \/ ConsumeRecoveryCode(c) \/ OpenSession(c)
       PROVE  LockoutEnds'
  <2>1. UNCHANGED counter /\ call[c].pc # "expire"
    BY <1>13 DEF VerifyTotp, UseTotp, ConsumeRecoveryCode, OpenSession
  <2>2. \E r : call' = [call EXCEPT ![c] = r]
    BY <1>13 DEF VerifyTotp, UseTotp, ConsumeRecoveryCode, OpenSession, Goto, End
  <2> QED BY <1>1, <2>1, <2>2, MoveStays
<1> QED BY <1>2, <1>3, <1>4, <1>5, <1>6, <1>7, <1>8, <1>9, <1>10, <1>11, <1>12, <1>13 DEF Next

\* The lockout after too many attempts always ends (AdminMfaService.registerAttempt, whose
\* EXPIRE follows the INCR that started the count), on the one hypothesis that no call fails
\* between those two commands: if one does, only a success, which deletes the count, helps.
THEOREM LockoutsEnd ==
  ASSUME "expire" \notin FailAt
  PROVE  Spec => []LockoutEnds
<1>1. Init => LockoutEnds
  BY DEF Init, LockoutEnds
<1>2. Guarded /\ LockoutEnds /\ [Next]_vars => LockoutEnds'
  BY StepLockout
<1> QED BY <1>1, <1>2, AlwaysGuarded, PTL DEF Spec

=============================================================================
