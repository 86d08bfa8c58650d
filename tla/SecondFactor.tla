------------------------------ MODULE SecondFactor ------------------------------
(***************************************************************************)
(* A user's second factor, used from several sign-ins at once:             *)
(* packages/domain/src/mfa and packages/database/src/mfa-repository.ts,    *)
(* behind the gate of apps/web/src/lib/mfa.ts.                             *)
(*                                                                         *)
(* A request reads, and later acts in one transaction that locks the       *)
(* session, then the factor; what it read may have changed by then.  Any   *)
(* request may end where it stands (RequestEnds): it throws or its process *)
(* dies.  Users share nothing, so there is one.                            *)
(*                                                                         *)
(* A code is told by what it was made from: a secret and a time step, or   *)
(* its sheet and its place on it.  Secrets and sheets are random: none is  *)
(* drawn twice, and no code is by chance another one.  Sealing is left out *)
(* and so are the audit rows.                                              *)
(***************************************************************************)
EXTENDS Integers

CONSTANTS
  Session, Secret, Sheet,
  Request,  \* requests being served at once
  Moment,   \* the time steps of a behaviour: a bound
  RECOVERY_CODE_COUNT

None == "none"
NoFactor == [secret |-> None, lastUsedStep |-> 0]
MFA_MAX_FAILED_CODES == 5
TOTP_DRIFT_STEPS == 1

VARIABLES
  session,  \* sessions: at, verified (mfaVerifiedAt), pending, failed
  factor,   \* user_mfa_factors, or NoFactor
  codes,    \* user_mfa_recovery_codes
  required, \* whether a role, a permission or an organization requires MFA
  now,      \* the current time step
  request,  \* what each request is doing
  drawn,    \* the secrets and sheets drawn so far
  spent,    \* every code accepted so far
  twice     \* whether one was accepted again

rows   == <<session, factor, codes>>
random == <<drawn, spent, twice>>
vars   == <<rows, required, now, request, random>>

Authenticator(secret, step) == [kind |-> "TOTP", of |-> secret, number |-> step]
SheetCodes(sheet) ==
  {[kind |-> "RECOVERY", of |-> sheet, number |-> n] : n \in 1 .. RECOVERY_CODE_COUNT}
Typed ==
  {Authenticator(secret, step) : secret \in Secret, step \in Moment \cap Int}
    \cup UNION {SheetCodes(sheet) : sheet \in Sheet}

NewSession == [at |-> "NEW", verified |-> FALSE, pending |-> None, failed |-> 0]
Ended      == [at |-> "ENDED", verified |-> FALSE, pending |-> None, failed |-> 0]
Live(s)    == session[s].at = "LIVE"

Idle        == [at |-> "IDLE"]
At(c, phase) == request[c].at = phase
Goes(c, to) == request' = [request EXCEPT ![c] = to]
GoesOn(c, phase) == Goes(c, [request[c] EXCEPT !.at = phase])
Ends(c)     == Goes(c, Idle)
Op(c)       == request[c].op

Spend(code) == spent' = spent \cup {code} /\ twice' = (twice \/ code \in spent)

mfaSignInStep(verified) ==
  IF factor # NoFactor
  THEN IF verified THEN "SIGNED_IN" ELSE "CODE_REQUIRED"
  ELSE IF required THEN "SETUP_REQUIRED" ELSE "SIGNED_IN"

Opens(op) ==
  CASE op = "VERIFY"              -> {"CODE_REQUIRED"}
    [] op \in {"SETUP", "CONFIRM"} -> {"SIGNED_IN", "SETUP_REQUIRED"}
    [] OTHER                      -> {"SIGNED_IN"}

\* matchTotp, with the last step used, or none of them.
InWindow(code)          == code.number \in now - TOTP_DRIFT_STEPS .. now + TOTP_DRIFT_STEPS
Matches(code, secret)   == code.kind = "TOTP" /\ code.of = secret /\ InWindow(code)
MatchesAfter(code, secret, after) == Matches(code, secret) /\ code.number > after

-------------------------------------------------------------------------------
(* A request comes in: the session is read, then what the gate asks.           *)

Receive(c, s, op, code) ==
  /\ At(c, "IDLE") /\ Live(s)
  /\ Goes(c, [at |-> "GATE", op |-> op, on |-> s, verified |-> session[s].verified,
              code |-> code, secret |-> None, after |-> 0])
  /\ UNCHANGED <<rows, required, now, random>>

Gate(c) ==
  /\ At(c, "GATE")
  /\ mfaSignInStep(request[c].verified) \in Opens(Op(c))
  /\ GoesOn(c, "READ")
  /\ UNCHANGED <<rows, required, now, random>>

RequestEnds(c) ==
  /\ ~ At(c, "IDLE")
  /\ Ends(c)
  /\ UNCHANGED <<rows, required, now, random>>

-------------------------------------------------------------------------------
(* Setting up an authenticator.                                                *)

BeginSetup(c) ==
  /\ At(c, "READ") /\ Op(c) = "SETUP"
  /\ request[c].verified \/ factor = NoFactor
  /\ GoesOn(c, "SAVE")
  /\ UNCHANGED <<rows, required, now, random>>

savePendingSecret(c, secret) ==
  LET s == request[c].on IN
  /\ At(c, "SAVE") /\ Live(s) /\ secret \notin drawn
  /\ session' = [session EXCEPT ![s].pending = secret]
  /\ drawn' = drawn \cup {secret}
  /\ Ends(c)
  /\ UNCHANGED <<factor, codes, required, now, spent, twice>>

ConfirmSetup(c) ==
  LET pending == session[request[c].on].pending IN
  /\ At(c, "READ") /\ Op(c) = "CONFIRM"
  /\ pending # None /\ Matches(request[c].code, pending)
  /\ Goes(c, [request[c] EXCEPT !.at = "ENABLE", !.secret = pending])
  /\ UNCHANGED <<rows, required, now, random>>

\* A factor that is there already is replaced only in a sign-in that passed it.
enable(c, sheet) ==
  LET s == request[c].on IN
  /\ At(c, "ENABLE") /\ Live(s) /\ session[s].pending = request[c].secret
  /\ factor = NoFactor \/ session[s].verified
  /\ sheet \notin drawn
  /\ factor' = [secret |-> request[c].secret, lastUsedStep |-> request[c].code.number]
  /\ codes' = SheetCodes(sheet)
  /\ drawn' = drawn \cup {sheet}
  /\ session' = [session EXCEPT ![s].pending = None, ![s].verified = TRUE, ![s].failed = 0]
  /\ Spend(request[c].code)
  /\ Ends(c)
  /\ UNCHANGED <<required, now>>

-------------------------------------------------------------------------------
(* Passing it.                                                                 *)

Verify(c) ==
  /\ At(c, "READ") /\ Op(c) = "VERIFY" /\ factor # NoFactor
  /\ IF request[c].code.kind = "RECOVERY" THEN GoesOn(c, "ACCEPT_RECOVERY")
     ELSE IF MatchesAfter(request[c].code, factor.secret, factor.lastUsedStep)
          THEN Goes(c, [request[c] EXCEPT !.at = "ACCEPT", !.secret = factor.secret])
          ELSE GoesOn(c, "COUNT")
  /\ UNCHANGED <<rows, required, now, random>>

Pass(s) == session' = [session EXCEPT ![s].verified = TRUE, ![s].failed = 0]

\* The condition a code is accepted under, as the transaction finds the factor.
StillAfter(c) ==
  factor.secret = request[c].secret /\ factor.lastUsedStep < request[c].code.number

acceptTotpStep(c) ==
  LET s == request[c].on IN
  /\ At(c, "ACCEPT") /\ Live(s) /\ StillAfter(c)
  /\ factor' = [factor EXCEPT !.lastUsedStep = request[c].code.number]
  /\ Pass(s)
  /\ Spend(request[c].code)
  /\ Ends(c)
  /\ UNCHANGED <<codes, required, now, drawn>>

acceptRecoveryCode(c) ==
  LET s == request[c].on IN
  /\ At(c, "ACCEPT_RECOVERY") /\ Live(s) /\ factor # NoFactor
  /\ request[c].code \in codes
  /\ codes' = codes \ {request[c].code}
  /\ Pass(s)
  /\ Spend(request[c].code)
  /\ Ends(c)
  /\ UNCHANGED <<factor, required, now, drawn>>

\* The transaction refuses a code that matched what was read.
Rejected(c) ==
  /\ request[c].at \in {"ACCEPT", "ACCEPT_RECOVERY", "DISABLE"} /\ Live(request[c].on)
  /\ \/ At(c, "ACCEPT") /\ ~ StillAfter(c)
     \/ At(c, "ACCEPT_RECOVERY") /\ (factor = NoFactor \/ request[c].code \notin codes)
     \/ At(c, "DISABLE") /\ session[request[c].on].verified /\ ~ StillAfter(c)
  /\ GoesOn(c, "COUNT")
  /\ UNCHANGED <<rows, required, now, random>>

recordFailedCode(c) ==
  LET s == request[c].on
      failed == session[s].failed + 1
  IN
  /\ At(c, "COUNT") /\ Live(s)
  /\ session' = IF failed < MFA_MAX_FAILED_CODES THEN [session EXCEPT ![s].failed = failed]
                                                 ELSE [session EXCEPT ![s] = Ended]
  /\ Ends(c)
  /\ UNCHANGED <<factor, codes, required, now, random>>

-------------------------------------------------------------------------------
(* New recovery codes, and turning it off.                                     *)

replaceRecoveryCodes(c, sheet) ==
  LET s == request[c].on IN
  /\ At(c, "READ") /\ Op(c) = "REGENERATE" /\ request[c].verified
  /\ Live(s) /\ session[s].verified /\ factor # NoFactor
  /\ sheet \notin drawn
  /\ codes' = SheetCodes(sheet)
  /\ drawn' = drawn \cup {sheet}
  /\ Ends(c)
  /\ UNCHANGED <<session, factor, required, now, spent, twice>>

BeginDisable(c) ==
  /\ At(c, "READ") /\ Op(c) = "DISABLE" /\ request[c].verified /\ factor # NoFactor
  /\ Goes(c, [request[c] EXCEPT !.at = "ASK", !.secret = factor.secret,
                                !.after = factor.lastUsedStep])
  /\ UNCHANGED <<rows, required, now, random>>

isMfaRequired(c) ==
  /\ At(c, "ASK") /\ ~ required
  /\ GoesOn(c, IF MatchesAfter(request[c].code, request[c].secret, request[c].after)
               THEN "DISABLE" ELSE "COUNT")
  /\ UNCHANGED <<rows, required, now, random>>

\* The factor's recovery codes go with it.
disable(c) ==
  LET s == request[c].on IN
  /\ At(c, "DISABLE") /\ Live(s) /\ session[s].verified /\ StillAfter(c)
  /\ factor' = NoFactor
  /\ codes' = {}
  /\ Spend(request[c].code)
  /\ Ends(c)
  /\ UNCHANGED <<session, required, now, drawn>>

-------------------------------------------------------------------------------

SignIn(s) ==
  /\ session[s].at = "NEW"
  /\ session' = [session EXCEPT ![s].at = "LIVE"]
  /\ UNCHANGED <<factor, codes, required, now, request, random>>

SignOut(s) ==
  /\ Live(s)
  /\ session' = [session EXCEPT ![s] = Ended]
  /\ UNCHANGED <<factor, codes, required, now, request, random>>

\* A role, a permission or an organization's setting changes.
RequirementChanges ==
  /\ required' = ~ required
  /\ UNCHANGED <<rows, now, request, random>>

Tick ==
  /\ now + 1 \in Moment
  /\ now' = now + 1
  /\ UNCHANGED <<rows, required, request, random>>

Init ==
  /\ session = [s \in Session |-> NewSession]
  /\ factor = NoFactor
  /\ codes = {}
  /\ required \in BOOLEAN
  /\ now = 0
  /\ request = [c \in Request |-> Idle]
  /\ drawn = {} /\ spent = {} /\ twice = FALSE

OPS == {"SETUP", "CONFIRM", "VERIFY", "REGENERATE", "DISABLE"}

Reads(c) ==
  Gate(c) \/ RequestEnds(c) \/ BeginSetup(c) \/ ConfirmSetup(c) \/ Verify(c) \/ Rejected(c)
    \/ BeginDisable(c) \/ isMfaRequired(c)

Next ==
  \/ \E c \in Request :
       \/ \E s \in Session, op \in OPS, code \in Typed : Receive(c, s, op, code)
       \/ Reads(c)
       \/ \E secret \in Secret : savePendingSecret(c, secret)
       \/ \E sheet \in Sheet : enable(c, sheet) \/ replaceRecoveryCodes(c, sheet)
       \/ acceptTotpStep(c) \/ acceptRecoveryCode(c) \/ recordFailedCode(c) \/ disable(c)
  \/ \E s \in Session : SignIn(s) \/ SignOut(s)
  \/ RequirementChanges
  \/ Tick

Spec == Init /\ [][Next]_vars
===============================================================================
