--------------------------- MODULE SecondFactorProofs ---------------------------
(***************************************************************************)
(* What holds of a user's second factor, for any number of sign-ins,       *)
(* requests, secrets and recovery codes.                                   *)
(***************************************************************************)
EXTENDS SecondFactor, TLAPS

PHASES ==
  {"GATE", "READ", "SAVE", "ENABLE", "ACCEPT", "ACCEPT_RECOVERY", "COUNT", "ASK", "DISABLE"}

Sessions ==
  [at : {"NEW", "LIVE", "ENDED"}, verified : BOOLEAN, pending : Secret \cup {None}, failed : Int]
Requests ==
  [at : PHASES, op : OPS, on : Session, verified : BOOLEAN, code : Typed,
   secret : Secret \cup {None}, after : Int]

\* What the variables hold: the rows, and what each request has read.
TypeOK ==
  /\ session \in [Session -> Sessions]
  /\ factor \in [secret : Secret \cup {None}, lastUsedStep : Int]
  /\ codes \subseteq Typed
  /\ required \in BOOLEAN
  /\ now \in Int
  /\ request \in [Request -> {Idle} \cup Requests]
  /\ drawn \subseteq Secret \cup Sheet
  /\ spent \subseteq Typed
  /\ twice \in BOOLEAN

\* No code is accepted twice, of the authenticator or of the sheet, by two
\* requests that read the same factor, in one sign-in or in several, and not after
\* the factor was replaced or the sheet drawn anew (mfa-repository.ts, the
\* condition on lastUsedStep and the delete of a recovery code).
NoCodeAcceptedTwice == ~ twice

\* A sign-in passes only by a code that was good and is spent in that very step:
\* an authenticator's, later than every one accepted of its secret before, or one
\* of the sheet in force (acceptTotpStep, acceptRecoveryCode, enable).
PassedBySpendingACode ==
  [][\A s \in Session : session'[s].verified /\ ~ session[s].verified =>
       \E code \in Typed \ spent :
         /\ spent' = spent \cup {code}
         /\ IF code.kind = "RECOVERY" THEN code \in codes
            ELSE \A other \in spent :
                   other.kind = "TOTP" /\ other.of = code.of => other.number < code.number]_vars

\* A live sign-in has entered fewer wrong codes than the limit since it last
\* passed, however many requests of it are refused side by side
\* (recordFailedCode, one statement that counts and reads back).
WrongCodesAreLimited ==
  \A s \in Session : session[s].failed \in 0 .. MFA_MAX_FAILED_CODES - 1

\* Recovery codes stand only beside a factor, are those of the newest sheet drawn
\* for it and none was used: a replacement, a regeneration or a switch-off leaves
\* no older code that works (enable, replaceRecoveryCodes, the cascade of disable).
RecoveryCodesAreOfOneSheet ==
  codes # {} =>
    /\ factor # NoFactor
    /\ \E sheet \in Sheet : codes \subseteq SheetCodes(sheet) \ spent

-----------------------------------------------------------------------------
(***************************************************************************)
(* The inductive invariant.                                                *)
(***************************************************************************)

HasFactor == factor.secret # None

\* Every secret and sheet in use was drawn; one being set up is nobody else's and
\* no code of it was accepted yet.
DrawnForOne ==
  /\ factor = NoFactor <=> ~ HasFactor
  /\ HasFactor => factor.secret \in drawn
  /\ \A k \in codes \cup spent : k.of \in drawn
  /\ \A s \in Session : session[s].pending # None =>
       /\ session[s].pending \in drawn
       /\ session[s].pending # factor.secret
       /\ \A k \in spent : k.kind = "TOTP" => k.of # session[s].pending
       /\ \A t \in Session \ {s} : session[t].pending # session[s].pending

\* The last step used is the latest one accepted.
SpentInOrder ==
  HasFactor => \A k \in spent :
    k.kind = "TOTP" /\ k.of = factor.secret => k.number <= factor.lastUsedStep

UnusedSheet ==
  codes # {} => HasFactor /\ \E sheet \in Sheet : codes \subseteq SheetCodes(sheet) \ spent

\* What a request carries from one step to the next.
Carried(r) ==
  /\ r.at \in {"ENABLE", "ACCEPT", "DISABLE"} =>
       r.code.kind = "TOTP" /\ r.code.of = r.secret /\ r.secret # None
  /\ r.at = "ASK" => r.secret # None
  /\ r.at = "ACCEPT_RECOVERY" => r.code.kind = "RECOVERY"

IInv ==
  /\ TypeOK /\ DrawnForOne /\ SpentInOrder /\ UnusedSheet /\ NoCodeAcceptedTwice
  /\ WrongCodesAreLimited
  /\ \A c \in Request : Carried(request[c])

\* What the rows promise.
Rows == DrawnForOne /\ SpentInOrder /\ UnusedSheet /\ NoCodeAcceptedTwice /\ WrongCodesAreLimited

\* A code typed is an authenticator's with a whole number, or one of a sheet.
LEMMA TypedCodes ==
  ASSUME NEW code \in Typed
  PROVE  \/ code.kind = "TOTP" /\ code.of \in Secret /\ code.number \in Int
         \/ /\ code.kind = "RECOVERY" /\ code.of \in Sheet /\ code.number \in Int
            /\ code \in SheetCodes(code.of)
BY DEF Typed, Authenticator, SheetCodes

LEMMA CodesOfASheet ==
  ASSUME NEW sheet \in Sheet, NEW code \in SheetCodes(sheet)
  PROVE  code.kind = "RECOVERY" /\ code.of = sheet /\ code \in Typed
BY DEF SheetCodes, Typed

LEMMA InitHolds == Init => IInv
<1> SUFFICES ASSUME Init PROVE IInv OBVIOUS
<1>1. TypeOK
  <2>1. session \in [Session -> Sessions] BY DEF Init, Sessions, NewSession
  <2>2. factor \in [secret : Secret \cup {None}, lastUsedStep : Int] BY DEF Init, NoFactor
  <2>3. required \in BOOLEAN /\ twice \in BOOLEAN BY DEF Init
  <2>4. /\ codes \subseteq Typed /\ now \in Int /\ spent \subseteq Typed
        /\ drawn \subseteq Secret \cup Sheet /\ request \in [Request -> {Idle} \cup Requests]
    BY DEF Init
  <2> QED BY <2>1, <2>2, <2>3, <2>4 DEF TypeOK
<1>2. Rows BY DEF Init, Rows, DrawnForOne, SpentInOrder, UnusedSheet, NoCodeAcceptedTwice,
                  WrongCodesAreLimited, HasFactor, NoFactor, NewSession, MFA_MAX_FAILED_CODES
<1>3. \A c \in Request : Carried(request[c]) BY DEF Init, Carried, Idle
<1> QED BY <1>1, <1>2, <1>3 DEF IInv, Rows

\* A request's record changes and nothing else: the rows keep what they promise.
LEMMA OnlyARequestMoves ==
  ASSUME IInv, NEW c \in Request, NEW to \in {Idle} \cup Requests, Carried(to),
         Goes(c, to), UNCHANGED <<rows, required, now, random>>
  PROVE  IInv'
<1>1. TypeOK' BY DEF IInv, TypeOK, Goes, rows, random
<1>2. Rows' BY DEF IInv, Rows, DrawnForOne, SpentInOrder, UnusedSheet, NoCodeAcceptedTwice,
                   WrongCodesAreLimited, HasFactor, rows, random
<1>3. (\A d \in Request : Carried(request[d]))' BY DEF IInv, TypeOK, Goes, Carried
<1> QED BY <1>1, <1>2, <1>3 DEF IInv, Rows

\* A request that stands at a phase carries what its record says.
LEMMA AtWork ==
  ASSUME IInv, NEW c \in Request, request[c].at # "IDLE"
  PROVE  request[c] \in Requests /\ Carried(request[c]) /\ request[c].on \in Session
BY DEF IInv, TypeOK, Requests, Idle

LEMMA ReadsKeep ==
  ASSUME IInv, NEW c \in Request, Reads(c)
  PROVE  IInv'
<1> DEFINE r == request[c]
<1>1. r.at # "IDLE" /\ UNCHANGED <<rows, required, now, random>>
  BY DEF Reads, Gate, RequestEnds, BeginSetup, ConfirmSetup, Verify, Rejected, BeginDisable,
         isMfaRequired, At
<1>2. r \in Requests /\ Carried(r) BY <1>1, AtWork
<1>3. factor \in [secret : Secret \cup {None}, lastUsedStep : Int]
      /\ (factor # NoFactor => factor.secret # None) /\ session \in [Session -> Sessions]
  BY DEF IInv, TypeOK, DrawnForOne, HasFactor
<1>4. CASE Gate(c)
  <2>1. [r EXCEPT !.at = "READ"] \in Requests /\ Carried([r EXCEPT !.at = "READ"])
    BY <1>2 DEF Requests, PHASES, Carried
  <2> QED BY <1>4, <1>1, <2>1, OnlyARequestMoves DEF Gate, GoesOn
<1>5. CASE RequestEnds(c)
  <2>1. Carried(Idle) BY DEF Carried, Idle
  <2> QED BY <1>5, <1>1, <2>1, OnlyARequestMoves DEF RequestEnds, Ends
<1>6. CASE BeginSetup(c)
  <2>1. [r EXCEPT !.at = "SAVE"] \in Requests /\ Carried([r EXCEPT !.at = "SAVE"])
    BY <1>2 DEF Requests, PHASES, Carried
  <2> QED BY <1>6, <1>1, <2>1, OnlyARequestMoves DEF BeginSetup, GoesOn
<1>7. CASE ConfirmSetup(c)
  <2> DEFINE to == [r EXCEPT !.at = "ENABLE", !.secret = session[r.on].pending]
  <2>1. to \in Requests BY <1>2, <1>3 DEF Requests, PHASES, Sessions
  <2>2. Carried(to) BY <1>2, <1>7 DEF Requests, Carried, ConfirmSetup, Matches
  <2> QED BY <1>7, <1>1, <2>1, <2>2, OnlyARequestMoves DEF ConfirmSetup
<1>8. CASE Verify(c)
  <2>1. CASE r.code.kind = "RECOVERY"
    <3>1. [r EXCEPT !.at = "ACCEPT_RECOVERY"] \in Requests
          /\ Carried([r EXCEPT !.at = "ACCEPT_RECOVERY"])
      BY <1>2, <2>1 DEF Requests, PHASES, Carried
    <3> QED BY <1>8, <1>1, <2>1, <3>1, OnlyARequestMoves DEF Verify, GoesOn
  <2>2. CASE r.code.kind # "RECOVERY" /\ MatchesAfter(r.code, factor.secret, factor.lastUsedStep)
    <3> DEFINE to == [r EXCEPT !.at = "ACCEPT", !.secret = factor.secret]
    <3>1. to \in Requests BY <1>2, <1>3 DEF Requests, PHASES
    <3>2. Carried(to)
      BY <1>2, <1>3, <1>8, <2>2 DEF Requests, Carried, Verify, Matches, MatchesAfter
    <3> QED BY <1>8, <1>1, <2>2, <3>1, <3>2, OnlyARequestMoves DEF Verify
  <2>3. CASE r.code.kind # "RECOVERY" /\ ~ MatchesAfter(r.code, factor.secret, factor.lastUsedStep)
    <3>1. [r EXCEPT !.at = "COUNT"] \in Requests /\ Carried([r EXCEPT !.at = "COUNT"])
      BY <1>2 DEF Requests, PHASES, Carried
    <3> QED BY <1>8, <1>1, <2>3, <3>1, OnlyARequestMoves DEF Verify, GoesOn
  <2> QED BY <2>1, <2>2, <2>3
<1>9. CASE Rejected(c)
  <2>1. [r EXCEPT !.at = "COUNT"] \in Requests /\ Carried([r EXCEPT !.at = "COUNT"])
    BY <1>2 DEF Requests, PHASES, Carried
  <2> QED BY <1>9, <1>1, <2>1, OnlyARequestMoves DEF Rejected, GoesOn
<1>10. CASE BeginDisable(c)
  <2> DEFINE to == [r EXCEPT !.at = "ASK", !.secret = factor.secret, !.after = factor.lastUsedStep]
  <2>1. to \in Requests BY <1>2, <1>3 DEF Requests, PHASES
  <2>2. Carried(to) BY <1>2, <1>3, <1>10 DEF Requests, Carried, BeginDisable
  <2> QED BY <1>10, <1>1, <2>1, <2>2, OnlyARequestMoves DEF BeginDisable
<1>11. CASE isMfaRequired(c)
  <2>1. CASE MatchesAfter(r.code, r.secret, r.after)
    <3>1. [r EXCEPT !.at = "DISABLE"] \in Requests BY <1>2 DEF Requests, PHASES
    <3>2. Carried([r EXCEPT !.at = "DISABLE"])
      BY <1>2, <1>11, <2>1 DEF Requests, Carried, isMfaRequired, At, Matches, MatchesAfter
    <3> QED BY <1>11, <1>1, <2>1, <3>1, <3>2, OnlyARequestMoves DEF isMfaRequired, GoesOn
  <2>2. CASE ~ MatchesAfter(r.code, r.secret, r.after)
    <3>1. [r EXCEPT !.at = "COUNT"] \in Requests /\ Carried([r EXCEPT !.at = "COUNT"])
      BY <1>2 DEF Requests, PHASES, Carried
    <3> QED BY <1>11, <1>1, <2>2, <3>1, OnlyARequestMoves DEF isMfaRequired, GoesOn
  <2> QED BY <2>1, <2>2
<1> QED BY <1>4, <1>5, <1>6, <1>7, <1>8, <1>9, <1>10, <1>11 DEF Reads

\* No request's record moves but the one that ends, and only the rows change.
LEMMA EndsKeep ==
  ASSUME IInv, NEW c \in Request, Ends(c), TypeOK', Rows'
  PROVE  IInv'
<1>1. (\A d \in Request : Carried(request[d]))'
  BY DEF IInv, TypeOK, Ends, Goes, Carried, Idle
<1> QED BY <1>1 DEF IInv, Rows

LEMMA SavePendingKeeps ==
  ASSUME IInv, NEW c \in Request, NEW secret \in Secret, savePendingSecret(c, secret)
  PROVE  IInv'
<1> DEFINE s == request[c].on
<1>1. s \in Session BY AtWork DEF savePendingSecret, At
<1>2. TypeOK'
  BY <1>1 DEF IInv, TypeOK, savePendingSecret, Sessions, Ends, Goes
<1>3. \A t \in Session :
        /\ session'[t].pending = IF t = s THEN secret ELSE session[t].pending
        /\ session'[t].failed = session[t].failed
  BY <1>1 DEF savePendingSecret, IInv, TypeOK, Sessions
<1>4. DrawnForOne'
  <2>1. /\ factor = NoFactor <=> ~ HasFactor
        /\ HasFactor => factor.secret \in drawn
        /\ \A k \in codes \cup spent : k.of \in drawn
    BY DEF IInv, DrawnForOne
  <2>2. UNCHANGED <<factor, codes, spent>> /\ drawn' = drawn \cup {secret} /\ secret \notin drawn
    BY DEF savePendingSecret
  <2>3. (/\ factor = NoFactor <=> ~ HasFactor
         /\ HasFactor => factor.secret \in drawn
         /\ \A k \in codes \cup spent : k.of \in drawn)'
    BY <2>1, <2>2 DEF HasFactor
  <2>4. ASSUME NEW t \in Session, session'[t].pending # None
        PROVE  /\ session'[t].pending \in drawn'
               /\ session'[t].pending # factor'.secret
               /\ \A k \in spent' : k.kind = "TOTP" => k.of # session'[t].pending
               /\ \A u \in Session \ {t} : session'[u].pending # session'[t].pending
    <3>1. CASE t = s
      BY <3>1, <2>1, <2>2, <2>4, <1>3 DEF HasFactor, IInv, DrawnForOne
    <3>2. CASE t # s
      BY <3>2, <2>2, <2>4, <1>3 DEF IInv, DrawnForOne
    <3> QED BY <3>1, <3>2
  <2> QED BY <2>3, <2>4 DEF DrawnForOne
<1>5. (SpentInOrder /\ UnusedSheet /\ NoCodeAcceptedTwice)'
  BY DEF savePendingSecret, IInv, SpentInOrder, UnusedSheet, NoCodeAcceptedTwice, HasFactor
<1>6. WrongCodesAreLimited'
  BY <1>3 DEF IInv, WrongCodesAreLimited
<1> QED BY <1>2, <1>4, <1>5, <1>6, EndsKeep DEF Rows, savePendingSecret

LEMMA EnableKeeps ==
  ASSUME IInv, NEW c \in Request, NEW sheet \in Sheet, enable(c, sheet)
  PROVE  IInv' /\ request[c].code \in Typed \ spent /\ request[c].code.kind = "TOTP"
         /\ \A k \in spent : k.kind = "TOTP" => k.of # request[c].code.of
<1> DEFINE s == request[c].on
           code == request[c].code
<1>1. /\ s \in Session /\ code \in Typed /\ code.kind = "TOTP" /\ code.of = request[c].secret
      /\ code.of # None /\ code.of = session[s].pending /\ code.number \in Int /\ code.of \in Secret
  BY AtWork, TypedCodes DEF enable, At, Requests, Carried
<1>2. code.of \in drawn /\ code.of # factor.secret /\ code \notin spent
      /\ \A k \in spent : k.kind = "TOTP" => k.of # code.of
  BY <1>1 DEF IInv, DrawnForOne
<1>3. /\ factor' = [secret |-> code.of, lastUsedStep |-> code.number]
      /\ codes' = SheetCodes(sheet) /\ drawn' = drawn \cup {sheet} /\ sheet \notin drawn
      /\ spent' = spent \cup {code} /\ twice' = (twice \/ code \in spent)
      /\ UNCHANGED <<required, now>> /\ Ends(c)
  BY <1>1 DEF enable, Spend
<1>4. \A t \in Session :
        /\ session'[t].pending = IF t = s THEN None ELSE session[t].pending
        /\ session'[t].failed = IF t = s THEN 0 ELSE session[t].failed
  BY <1>1 DEF enable, IInv, TypeOK, Sessions
<1>5. TypeOK'
  <2>1. session' \in [Session -> Sessions]
    BY <1>1 DEF enable, IInv, TypeOK, Sessions
  <2>2. factor' \in [secret : Secret \cup {None}, lastUsedStep : Int]
    BY <1>1, <1>3
  <2>3. codes' \subseteq Typed /\ spent' \subseteq Typed /\ drawn' \subseteq Secret \cup Sheet
    BY <1>1, <1>3, CodesOfASheet DEF IInv, TypeOK
  <2>4. twice' \in BOOLEAN
    BY <1>3, <1>2 DEF IInv, TypeOK, NoCodeAcceptedTwice
  <2>5. required' \in BOOLEAN
    BY <1>3 DEF IInv, TypeOK
  <2>6. now' \in Int /\ request' \in [Request -> {Idle} \cup Requests]
    BY <1>3 DEF IInv, TypeOK, Ends, Goes
  <2> QED BY <2>1, <2>2, <2>3, <2>4, <2>5, <2>6 DEF TypeOK
<1>6. DrawnForOne'
  <2>1. (/\ factor = NoFactor <=> ~ HasFactor
         /\ HasFactor => factor.secret \in drawn)'
    BY <1>1, <1>2, <1>3 DEF HasFactor, NoFactor
  <2>2. (\A k \in codes \cup spent : k.of \in drawn)'
    BY <1>2, <1>3, CodesOfASheet DEF IInv, DrawnForOne
  <2>3. ASSUME NEW t \in Session, session'[t].pending # None
        PROVE  /\ session'[t].pending \in drawn'
               /\ session'[t].pending # factor'.secret
               /\ \A k \in spent' : k.kind = "TOTP" => k.of # session'[t].pending
               /\ \A u \in Session \ {t} : session'[u].pending # session'[t].pending
    <3>1. t # s /\ session'[t].pending = session[t].pending /\ session[t].pending # code.of
      BY <2>3, <1>1, <1>4 DEF IInv, DrawnForOne
    <3> QED BY <3>1, <2>3, <1>1, <1>3, <1>4 DEF IInv, DrawnForOne
  <2> QED BY <2>1, <2>2, <2>3 DEF DrawnForOne
<1>7. SpentInOrder'
  BY <1>1, <1>2, <1>3 DEF SpentInOrder
<1>8. UnusedSheet'
  <2>1. \A k \in SheetCodes(sheet) : k \notin spent'
    BY <1>1, <1>3, CodesOfASheet DEF IInv, DrawnForOne
  <2> QED BY <2>1, <1>1, <1>3 DEF UnusedSheet, HasFactor
<1>9. NoCodeAcceptedTwice'
  BY <1>2, <1>3 DEF IInv, NoCodeAcceptedTwice
<1>10. WrongCodesAreLimited'
  BY <1>4 DEF IInv, WrongCodesAreLimited, MFA_MAX_FAILED_CODES
<1> QED BY <1>1, <1>2, <1>3, <1>5, <1>6, <1>7, <1>8, <1>9, <1>10, EndsKeep DEF Rows

\* Sessions that keep what they are setting up keep it apart.
LEMMA PendingUntouched ==
  ASSUME IInv, drawn \subseteq drawn', factor'.secret \in {factor.secret, None}, spent' = spent \/
         \E code \in spent' : spent' = spent \cup {code} /\ (code.kind = "TOTP" => code.of = factor.secret),
         \A t \in Session : session'[t].pending \in {session[t].pending, None}
  PROVE  \A t \in Session : session'[t].pending # None =>
           /\ session'[t].pending \in drawn'
           /\ session'[t].pending # factor'.secret
           /\ \A k \in spent' : k.kind = "TOTP" => k.of # session'[t].pending
           /\ \A u \in Session \ {t} : session'[u].pending # session'[t].pending
<1> SUFFICES ASSUME NEW t \in Session, session'[t].pending # None
             PROVE  /\ session'[t].pending \in drawn'
                    /\ session'[t].pending # factor'.secret
                    /\ \A k \in spent' : k.kind = "TOTP" => k.of # session'[t].pending
                    /\ \A u \in Session \ {t} : session'[u].pending # session'[t].pending
  OBVIOUS
<1>1. session'[t].pending = session[t].pending
  OBVIOUS
<1> QED BY <1>1 DEF IInv, DrawnForOne

LEMMA PassTypes ==
  ASSUME IInv, NEW s \in Session, Pass(s)
  PROVE  session' \in [Session -> Sessions]
<1>1. session \in [Session -> Sessions] BY DEF IInv, TypeOK
<1> DEFINE new == [session[s] EXCEPT !.verified = TRUE, !.failed = 0]
<1>2. new \in Sessions
  <2> DEFINE passed == [session[s] EXCEPT !.verified = TRUE]
  <2>1. passed \in Sessions BY <1>1 DEF Sessions
  <2>2. new = [passed EXCEPT !.failed = 0] BY <1>1 DEF Sessions
  <2> HIDE DEF passed, new
  <2> QED BY <2>1, <2>2 DEF Sessions
<1>3. session' = [session EXCEPT ![s] = new] BY <1>1 DEF Pass, Sessions
<1> QED BY <1>1, <1>2, <1>3

LEMMA AcceptStepKeeps ==
  ASSUME IInv, NEW c \in Request, acceptTotpStep(c)
  PROVE  IInv' /\ request[c].code \in Typed \ spent /\ request[c].code.kind = "TOTP"
         /\ \A k \in spent : k.kind = "TOTP" /\ k.of = request[c].code.of =>
              k.number < request[c].code.number
<1> DEFINE s == request[c].on
           code == request[c].code
<1>1. /\ s \in Session /\ code \in Typed /\ code.kind = "TOTP" /\ code.of = factor.secret
      /\ HasFactor /\ code.number \in Int /\ factor.lastUsedStep < code.number
  BY AtWork, TypedCodes DEF acceptTotpStep, At, Requests, Carried, StillAfter, HasFactor
<1>2. /\ factor \in [secret : Secret \cup {None}, lastUsedStep : Int]
      /\ code.of \in drawn
      /\ \A k \in spent : k.kind = "TOTP" /\ k.of = code.of => k.number \in Int /\ k.number < code.number
  BY <1>1, TypedCodes DEF IInv, TypeOK, DrawnForOne, SpentInOrder
<1>3. code \notin spent
  BY <1>1, <1>2
<1>4. /\ factor' = [factor EXCEPT !.lastUsedStep = code.number]
      /\ spent' = spent \cup {code} /\ twice' = (twice \/ code \in spent)
      /\ UNCHANGED <<codes, required, now, drawn>> /\ Ends(c)
  BY DEF acceptTotpStep, Spend
<1>5. \A t \in Session :
        /\ session'[t].pending = session[t].pending
        /\ session'[t].failed = IF t = s THEN 0 ELSE session[t].failed
  BY <1>1 DEF acceptTotpStep, Pass, IInv, TypeOK, Sessions
<1>6. TypeOK'
  <2>1. session' \in [Session -> Sessions]
    BY <1>1, PassTypes DEF acceptTotpStep
  <2>2. factor' \in [secret : Secret \cup {None}, lastUsedStep : Int]
    BY <1>1, <1>2, <1>4
  <2>3. codes' \subseteq Typed /\ spent' \subseteq Typed /\ drawn' \subseteq Secret \cup Sheet
    BY <1>1, <1>4 DEF IInv, TypeOK
  <2>4. twice' \in BOOLEAN
    BY <1>3, <1>4 DEF IInv, TypeOK, NoCodeAcceptedTwice
  <2>5. required' \in BOOLEAN
    BY <1>4 DEF IInv, TypeOK
  <2>6. now' \in Int /\ request' \in [Request -> {Idle} \cup Requests]
    BY <1>4 DEF IInv, TypeOK, Ends, Goes
  <2> QED BY <2>1, <2>2, <2>3, <2>4, <2>5, <2>6 DEF TypeOK
<1>7. DrawnForOne'
  <2>1. factor'.secret = factor.secret /\ factor' # NoFactor
    BY <1>1, <1>2, <1>4 DEF NoFactor, HasFactor
  <2>2. (/\ factor = NoFactor <=> ~ HasFactor
         /\ HasFactor => factor.secret \in drawn
         /\ \A k \in codes \cup spent : k.of \in drawn)'
    BY <2>1, <1>1, <1>2, <1>4 DEF IInv, DrawnForOne, HasFactor
  <2>3. \E k \in spent' : spent' = spent \cup {k} /\ (k.kind = "TOTP" => k.of = factor.secret)
    BY <1>1, <1>4
  <2> QED BY <2>1, <2>2, <2>3, <1>4, <1>5, PendingUntouched DEF DrawnForOne
<1>8. SpentInOrder'
  BY <1>1, <1>2, <1>4 DEF SpentInOrder, HasFactor
<1>9. UnusedSheet'
  <2>1. \A k \in codes : k # code
    BY <1>1, CodesOfASheet DEF IInv, UnusedSheet
  <2> QED BY <2>1, <1>1, <1>2, <1>4 DEF IInv, UnusedSheet, HasFactor
<1>10. NoCodeAcceptedTwice'
  BY <1>3, <1>4 DEF IInv, NoCodeAcceptedTwice
<1>11. WrongCodesAreLimited'
  BY <1>5 DEF IInv, WrongCodesAreLimited, MFA_MAX_FAILED_CODES
<1> QED BY <1>1, <1>2, <1>3, <1>4, <1>6, <1>7, <1>8, <1>9, <1>10, <1>11, EndsKeep DEF Rows

LEMMA AcceptRecoveryCodeKeeps ==
  ASSUME IInv, NEW c \in Request, acceptRecoveryCode(c)
  PROVE  IInv' /\ request[c].code \in codes \ spent /\ request[c].code.kind = "RECOVERY"
<1> DEFINE s == request[c].on
           code == request[c].code
<1>1. /\ s \in Session /\ code \in Typed /\ code.kind = "RECOVERY" /\ code \in codes
      /\ HasFactor /\ code \notin spent
  BY AtWork DEF acceptRecoveryCode, At, Requests, Carried, HasFactor, IInv, UnusedSheet, DrawnForOne
<1>2. /\ codes' = codes \ {code}
      /\ spent' = spent \cup {code} /\ twice' = (twice \/ code \in spent)
      /\ UNCHANGED <<factor, required, now, drawn>> /\ Ends(c)
  BY DEF acceptRecoveryCode, Spend
<1>3. \A t \in Session :
        /\ session'[t].pending = session[t].pending
        /\ session'[t].failed = IF t = s THEN 0 ELSE session[t].failed
  BY <1>1 DEF acceptRecoveryCode, Pass, IInv, TypeOK, Sessions
<1>4. TypeOK'
  <2>1. session' \in [Session -> Sessions]
    BY <1>1, PassTypes DEF acceptRecoveryCode
  <2>2. factor' \in [secret : Secret \cup {None}, lastUsedStep : Int]
    BY <1>2 DEF IInv, TypeOK
  <2>3. codes' \subseteq Typed /\ spent' \subseteq Typed /\ drawn' \subseteq Secret \cup Sheet
    BY <1>1, <1>2 DEF IInv, TypeOK
  <2>4. twice' \in BOOLEAN
    BY <1>1, <1>2 DEF IInv, TypeOK, NoCodeAcceptedTwice
  <2>5. required' \in BOOLEAN
    BY <1>2 DEF IInv, TypeOK
  <2>6. now' \in Int /\ request' \in [Request -> {Idle} \cup Requests]
    BY <1>2 DEF IInv, TypeOK, Ends, Goes
  <2> QED BY <2>1, <2>2, <2>3, <2>4, <2>5, <2>6 DEF TypeOK
<1>5. DrawnForOne'
  <2>1. (/\ factor = NoFactor <=> ~ HasFactor
         /\ HasFactor => factor.secret \in drawn
         /\ \A k \in codes \cup spent : k.of \in drawn)'
    BY <1>1, <1>2 DEF IInv, DrawnForOne, HasFactor
  <2>2. \E k \in spent' : spent' = spent \cup {k} /\ (k.kind = "TOTP" => k.of = factor.secret)
    BY <1>1, <1>2
  <2> QED BY <2>1, <2>2, <1>2, <1>3, PendingUntouched DEF DrawnForOne
<1>6. SpentInOrder'
  BY <1>1, <1>2 DEF IInv, SpentInOrder, HasFactor
<1>7. UnusedSheet'
  BY <1>1, <1>2 DEF IInv, UnusedSheet, HasFactor
<1>8. NoCodeAcceptedTwice'
  BY <1>1, <1>2 DEF IInv, NoCodeAcceptedTwice
<1>9. WrongCodesAreLimited'
  BY <1>3 DEF IInv, WrongCodesAreLimited, MFA_MAX_FAILED_CODES
<1> QED BY <1>1, <1>2, <1>4, <1>5, <1>6, <1>7, <1>8, <1>9, EndsKeep DEF Rows

LEMMA DisableKeeps ==
  ASSUME IInv, NEW c \in Request, disable(c)
  PROVE  IInv'
<1> DEFINE code == request[c].code
<1>1. /\ code \in Typed /\ code.kind = "TOTP" /\ code.of = factor.secret
      /\ HasFactor /\ code.number \in Int /\ factor.lastUsedStep < code.number
  BY AtWork, TypedCodes DEF disable, At, Requests, Carried, StillAfter, HasFactor
<1>2. code.of \in drawn /\ code \notin spent
  BY <1>1, TypedCodes DEF IInv, TypeOK, DrawnForOne, SpentInOrder
<1>3. /\ factor' = NoFactor /\ codes' = {}
      /\ spent' = spent \cup {code} /\ twice' = (twice \/ code \in spent)
      /\ UNCHANGED <<session, required, now, drawn>> /\ Ends(c)
  BY DEF disable, Spend
<1>4. TypeOK'
  <2>1. factor' \in [secret : Secret \cup {None}, lastUsedStep : Int]
    BY <1>3 DEF NoFactor
  <2>2. /\ codes' \subseteq Typed /\ spent' \subseteq Typed /\ drawn' \subseteq Secret \cup Sheet
        /\ session' \in [Session -> Sessions]
    BY <1>1, <1>3 DEF IInv, TypeOK
  <2>3. twice' \in BOOLEAN
    BY <1>2, <1>3 DEF IInv, TypeOK, NoCodeAcceptedTwice
  <2>4. required' \in BOOLEAN
    BY <1>3 DEF IInv, TypeOK
  <2>5. now' \in Int /\ request' \in [Request -> {Idle} \cup Requests]
    BY <1>3 DEF IInv, TypeOK, Ends, Goes
  <2> QED BY <2>1, <2>2, <2>3, <2>4, <2>5 DEF TypeOK
<1>5. DrawnForOne'
  <2>1. factor'.secret = None
    BY <1>3 DEF NoFactor
  <2>2. (/\ factor = NoFactor <=> ~ HasFactor
         /\ HasFactor => factor.secret \in drawn
         /\ \A k \in codes \cup spent : k.of \in drawn)'
    BY <2>1, <1>2, <1>3 DEF IInv, DrawnForOne, HasFactor
  <2>3. \E k \in spent' : spent' = spent \cup {k} /\ (k.kind = "TOTP" => k.of = factor.secret)
    BY <1>1, <1>3
  <2> QED BY <2>1, <2>2, <2>3, <1>3, PendingUntouched DEF DrawnForOne
<1>6. (SpentInOrder /\ UnusedSheet)'
  BY <1>3 DEF SpentInOrder, UnusedSheet, HasFactor, NoFactor
<1>7. NoCodeAcceptedTwice'
  BY <1>2, <1>3 DEF IInv, NoCodeAcceptedTwice
<1>8. WrongCodesAreLimited'
  BY <1>3 DEF IInv, WrongCodesAreLimited
<1> QED BY <1>3, <1>4, <1>5, <1>6, <1>7, <1>8, EndsKeep DEF Rows

LEMMA ReplaceKeeps ==
  ASSUME IInv, NEW c \in Request, NEW sheet \in Sheet, replaceRecoveryCodes(c, sheet)
  PROVE  IInv'
<1>1. /\ codes' = SheetCodes(sheet) /\ drawn' = drawn \cup {sheet} /\ sheet \notin drawn
      /\ UNCHANGED <<session, factor, required, now, spent, twice>> /\ Ends(c) /\ HasFactor
  BY DEF replaceRecoveryCodes, IInv, DrawnForOne
<1>2. TypeOK'
  BY <1>1, CodesOfASheet DEF IInv, TypeOK, Ends, Goes
<1>3. DrawnForOne'
  <2>1. (/\ factor = NoFactor <=> ~ HasFactor
         /\ HasFactor => factor.secret \in drawn
         /\ \A k \in codes \cup spent : k.of \in drawn)'
    BY <1>1, CodesOfASheet DEF IInv, DrawnForOne, HasFactor
  <2> QED BY <2>1, <1>1, PendingUntouched DEF DrawnForOne
<1>4. UnusedSheet'
  <2>1. \A k \in SheetCodes(sheet) : k \notin spent
    BY <1>1, CodesOfASheet DEF IInv, DrawnForOne
  <2> QED BY <2>1, <1>1 DEF UnusedSheet, HasFactor
<1>5. (SpentInOrder /\ NoCodeAcceptedTwice /\ WrongCodesAreLimited)'
  BY <1>1 DEF IInv, SpentInOrder, NoCodeAcceptedTwice, WrongCodesAreLimited, HasFactor
<1> QED BY <1>1, <1>2, <1>3, <1>4, <1>5, EndsKeep DEF Rows

\* A step that only moves sessions, and sets nothing up in them.
LEMMA SessionsMove ==
  ASSUME IInv, session' \in [Session -> Sessions],
         \A t \in Session : /\ session'[t].pending \in {session[t].pending, None}
                            /\ session'[t].failed \in 0 .. MFA_MAX_FAILED_CODES - 1,
         UNCHANGED <<factor, codes, required, now, random>>
  PROVE  Rows' /\ (request' \in [Request -> {Idle} \cup Requests] => TypeOK')
<1>1. (request' \in [Request -> {Idle} \cup Requests] => TypeOK')
  BY DEF IInv, TypeOK, random
<1>2. (/\ factor = NoFactor <=> ~ HasFactor
       /\ HasFactor => factor.secret \in drawn
       /\ \A k \in codes \cup spent : k.of \in drawn)'
  BY DEF IInv, DrawnForOne, HasFactor, random
<1>3. DrawnForOne'
  BY <1>2, PendingUntouched DEF DrawnForOne, random
<1>4. (SpentInOrder /\ UnusedSheet /\ NoCodeAcceptedTwice /\ WrongCodesAreLimited)'
  BY DEF IInv, SpentInOrder, UnusedSheet, NoCodeAcceptedTwice, WrongCodesAreLimited, HasFactor, random
<1> QED BY <1>1, <1>3, <1>4 DEF Rows

LEMMA RecordFailedKeeps ==
  ASSUME IInv, NEW c \in Request, recordFailedCode(c)
  PROVE  IInv'
<1> DEFINE s == request[c].on
           failed == session[s].failed + 1
           one == [session[s] EXCEPT !.failed = failed]
<1>1. s \in Session BY AtWork DEF recordFailedCode, At
<1>2. session \in [Session -> Sessions] /\ session[s].failed \in 0 .. MFA_MAX_FAILED_CODES - 1
  BY <1>1 DEF IInv, TypeOK, WrongCodesAreLimited
<1>3. /\ one \in Sessions /\ one.pending = session[s].pending /\ one.failed = failed
      /\ Ended \in Sessions /\ Ended.pending = None /\ Ended.failed = 0
  BY <1>1, <1>2 DEF Sessions, Ended, NewSession, MFA_MAX_FAILED_CODES
<1>4. \/ failed < MFA_MAX_FAILED_CODES /\ session' = [session EXCEPT ![s] = one]
      \/ session' = [session EXCEPT ![s] = Ended]
  BY <1>1, <1>2 DEF recordFailedCode, Sessions
<1>5. failed < MFA_MAX_FAILED_CODES => failed \in 0 .. MFA_MAX_FAILED_CODES - 1
  BY <1>2 DEF MFA_MAX_FAILED_CODES
<1> HIDE DEF one, failed
<1>6. /\ session' \in [Session -> Sessions]
      /\ \A t \in Session : /\ session'[t].pending \in {session[t].pending, None}
                            /\ session'[t].failed \in 0 .. MFA_MAX_FAILED_CODES - 1
  BY <1>1, <1>2, <1>3, <1>4, <1>5 DEF IInv, WrongCodesAreLimited, MFA_MAX_FAILED_CODES
<1>7. request' \in [Request -> {Idle} \cup Requests]
  BY DEF recordFailedCode, Ends, Goes, IInv, TypeOK
<1> QED BY <1>6, <1>7, SessionsMove, EndsKeep DEF recordFailedCode

LEMMA SignInOutKeep ==
  ASSUME IInv, NEW s \in Session, SignIn(s) \/ SignOut(s)
  PROVE  IInv'
<1> DEFINE live == [session[s] EXCEPT !.at = "LIVE"]
<1>1. session \in [Session -> Sessions]
  BY DEF IInv, TypeOK
<1>2. /\ live \in Sessions /\ live.pending = session[s].pending /\ live.failed = session[s].failed
      /\ Ended \in Sessions /\ Ended.pending = None /\ Ended.failed = 0
  BY <1>1 DEF Sessions, Ended, NewSession
<1>3. session' = [session EXCEPT ![s] = live] \/ session' = [session EXCEPT ![s] = Ended]
  BY <1>1 DEF SignIn, SignOut, Sessions
<1> HIDE DEF live
<1>4. /\ session' \in [Session -> Sessions]
      /\ \A t \in Session : /\ session'[t].pending \in {session[t].pending, None}
                            /\ session'[t].failed \in 0 .. MFA_MAX_FAILED_CODES - 1
  BY <1>1, <1>2, <1>3 DEF IInv, WrongCodesAreLimited, MFA_MAX_FAILED_CODES
<1>5. UNCHANGED <<factor, codes, required, now, random>> /\ request' = request
  BY DEF SignIn, SignOut
<1>6. Rows' /\ TypeOK' BY <1>4, <1>5, SessionsMove DEF IInv, TypeOK
<1> QED BY <1>5, <1>6 DEF IInv, Rows

LEMMA ReceiveKeeps ==
  ASSUME IInv, NEW c \in Request, NEW s \in Session, NEW op \in OPS, NEW code \in Typed,
         Receive(c, s, op, code)
  PROVE  IInv'
<1> DEFINE to == [at |-> "GATE", op |-> op, on |-> s, verified |-> session[s].verified,
                  code |-> code, secret |-> None, after |-> 0]
<1>1. session[s].verified \in BOOLEAN BY DEF IInv, TypeOK, Sessions
<1>2. to \in Requests BY <1>1 DEF Requests, PHASES
<1>3. Carried(to) BY DEF Carried
<1> QED BY <1>2, <1>3, OnlyARequestMoves DEF Receive

LEMMA OutsideKeeps == IInv /\ (RequirementChanges \/ Tick) => IInv'
<1> SUFFICES ASSUME IInv, RequirementChanges \/ Tick PROVE IInv' OBVIOUS
<1>1. UNCHANGED <<rows, request, random>> BY DEF RequirementChanges, Tick
<1>2. required' \in BOOLEAN BY DEF RequirementChanges, Tick, IInv, TypeOK
<1>3. now' \in Int BY DEF RequirementChanges, Tick, IInv, TypeOK
<1>4. TypeOK' BY <1>1, <1>2, <1>3 DEF IInv, TypeOK, rows, random
<1>5. Rows' BY <1>1 DEF IInv, Rows, DrawnForOne, SpentInOrder, UnusedSheet, NoCodeAcceptedTwice,
                   WrongCodesAreLimited, HasFactor, rows, random
<1>6. (\A d \in Request : Carried(request[d]))' BY <1>1 DEF IInv
<1> QED BY <1>4, <1>5, <1>6 DEF IInv, Rows

LEMMA StepKeeps == IInv /\ [Next]_vars => IInv'
<1> SUFFICES ASSUME IInv, [Next]_vars PROVE IInv' OBVIOUS
<1>1. CASE UNCHANGED vars
  <2>1. TypeOK' BY <1>1 DEF IInv, TypeOK, vars, rows, random
  <2>2. Rows' BY <1>1 DEF IInv, Rows, DrawnForOne, SpentInOrder, UnusedSheet,
                NoCodeAcceptedTwice, WrongCodesAreLimited, HasFactor, vars, rows, random
  <2>3. (\A d \in Request : Carried(request[d]))' BY <1>1 DEF IInv, vars
  <2> QED BY <2>1, <2>2, <2>3 DEF IInv, Rows
<1>2. CASE Next
  BY <1>2, ReceiveKeeps, ReadsKeep, SavePendingKeeps, EnableKeeps, ReplaceKeeps, AcceptStepKeeps,
     AcceptRecoveryCodeKeeps, RecordFailedKeeps, DisableKeeps, SignInOutKeep, OutsideKeeps DEF Next
<1> QED BY <1>1, <1>2

\* The variables keep their types, and the invariant holds throughout.
THEOREM Invariant == Spec => []IInv
<1>1. QED BY InitHolds, StepKeeps, PTL DEF Spec

-----------------------------------------------------------------------------

\* A code of the authenticator or of the sheet is accepted once, whatever requests
\* race on the same factor, replace it or turn it off (mfa-repository.ts).
THEOREM CodesAreAcceptedOnce == Spec => []NoCodeAcceptedTwice
<1>1. IInv => NoCodeAcceptedTwice BY DEF IInv
<1>2. QED BY <1>1, Invariant, PTL

\* In one sign-in no more wrong codes are ever entered than the limit allows
\* (recordFailedCode).
THEOREM WrongCodesEndASignIn == Spec => []WrongCodesAreLimited
<1>1. IInv => WrongCodesAreLimited BY DEF IInv
<1>2. QED BY <1>1, Invariant, PTL

\* The recovery codes that work are unused ones of one sheet, and only beside a
\* factor (enable, replaceRecoveryCodes, disable).
THEOREM NoOldRecoveryCode == Spec => []RecoveryCodesAreOfOneSheet
<1>1. IInv => RecoveryCodesAreOfOneSheet
  BY DEF IInv, UnusedSheet, RecoveryCodesAreOfOneSheet, DrawnForOne
<1>2. QED BY <1>1, Invariant, PTL

\* No step but a code's acceptance makes a sign-in pass, and the code is spent in
\* that step (enable, acceptTotpStep, acceptRecoveryCode).
THEOREM PassingSpendsACode == Spec => PassedBySpendingACode
<1> DEFINE Passed == \A s \in Session : session'[s].verified /\ ~ session[s].verified =>
             \E code \in Typed \ spent :
               /\ spent' = spent \cup {code}
               /\ IF code.kind = "RECOVERY" THEN code \in codes
                  ELSE \A other \in spent :
                         other.kind = "TOTP" /\ other.of = code.of => other.number < code.number
<1>1. IInv /\ [Next]_vars => [Passed]_vars
  <2> SUFFICES ASSUME IInv, Next PROVE Passed OBVIOUS
  <2>1. ASSUME NEW c \in Request, NEW sheet \in Sheet, enable(c, sheet) PROVE Passed
    <3> DEFINE code == request[c].code
    <3>1. code \in Typed \ spent /\ code.kind = "TOTP"
          /\ \A k \in spent : k.kind = "TOTP" => k.of # code.of
      BY <2>1, EnableKeeps
    <3>2. spent' = spent \cup {code} BY <2>1 DEF enable, Spend
    <3> HIDE DEF code
    <3> QED BY <3>1, <3>2
  <2>2. ASSUME NEW c \in Request, acceptTotpStep(c) PROVE Passed
    BY <2>2, AcceptStepKeeps DEF acceptTotpStep, Spend
  <2>3. ASSUME NEW c \in Request, acceptRecoveryCode(c) PROVE Passed
    BY <2>3, AcceptRecoveryCodeKeeps DEF acceptRecoveryCode, Spend, IInv, TypeOK
  <2>4. ASSUME NEW c \in Request, NEW secret \in Secret, savePendingSecret(c, secret) PROVE Passed
    BY <2>4 DEF savePendingSecret, IInv, TypeOK, Sessions
  <2>5. ASSUME NEW c \in Request, recordFailedCode(c) PROVE Passed
    <3>1. request[c].on \in Session BY <2>5, AtWork DEF recordFailedCode, At
    <3> QED BY <2>5, <3>1 DEF recordFailedCode, IInv, TypeOK, Sessions, Ended, NewSession
  <2>6. ASSUME NEW s \in Session, SignIn(s) \/ SignOut(s) PROVE Passed
    BY <2>6 DEF SignIn, SignOut, IInv, TypeOK, Sessions, Ended, NewSession
  <2>7. ASSUME session' = session PROVE Passed
    BY <2>7
  <2>8. ASSUME NEW c \in Request, Reads(c) PROVE session' = session
    BY <2>8 DEF Reads, Gate, RequestEnds, BeginSetup, ConfirmSetup, Verify, Rejected, BeginDisable,
         isMfaRequired, rows
  <2>9. ASSUME NEW c \in Request, NEW s \in Session, NEW op \in OPS, NEW code \in Typed,
               Receive(c, s, op, code)
        PROVE  session' = session
    BY <2>9 DEF Receive, rows
  <2>10. ASSUME NEW c \in Request, NEW sheet \in Sheet, replaceRecoveryCodes(c, sheet) \/ disable(c)
         PROVE  session' = session
    BY <2>10 DEF replaceRecoveryCodes, disable
  <2>11. ASSUME RequirementChanges \/ Tick PROVE session' = session
    BY <2>11 DEF RequirementChanges, Tick, rows
  <2>12. ASSUME NEW c \in Request, disable(c) PROVE session' = session
    BY <2>12 DEF disable
  <2> HIDE DEF Passed
  <2> QED BY <2>1, <2>2, <2>3, <2>4, <2>5, <2>6, <2>7, <2>8, <2>9, <2>10, <2>11, <2>12 DEF Next
<1>2. QED BY <1>1, Invariant, PTL DEF Spec, PassedBySpendingACode
===============================================================================
