------------------------- MODULE SubmissionProperties -------------------------
(* What AttemptSubmission is checked for. *)
EXTENDS AttemptSubmission

(***************************************************************************)
(* The paid-call contract, read off the rows and the provider.  A request  *)
(* that never left an armed attempt is one the provider knows nothing of.  *)
(***************************************************************************)
PermitOf(a) ==
  IF state[a] \in {"ABSENT", "QUEUED"} THEN "OPEN"
  ELSE IF state[a] = "CANCELLED_PRE_SUBMISSION" THEN "WITHDRAWN" ELSE "GRANTED"

FactOf(a) ==
  [NONE |-> "NONE", SENT |-> "PENDING", ACCEPTED |-> "TAKEN", RETRYABLE |-> "NOT_TAKEN",
   TERMINAL |-> "NOT_TAKEN", LOST |-> "NOT_TAKEN"][call[a]]

BeliefOf(a) ==
  [PRE_SUBMISSION |-> "NONE", SUBMISSION_UNKNOWN |-> "UNKNOWN", ACCEPTED |-> "TAKEN",
   DEFINITIVELY_REJECTED |-> "NOT_TAKEN"][certainty[a]]

Paid == INSTANCE PaidCallContract WITH
  Call <- Attempt,
  Budget <- Budget,
  permit <- [a \in Attempt |-> PermitOf(a)],
  made <- posts,
  fact <- [a \in Attempt |-> FactOf(a)],
  belief <- [a \in Attempt |-> BeliefOf(a)]

\* Two workers, a crash at any point, a late answer and the maintenance pass
\* together never send an attempt twice, send one that was ended, arm one the
\* cycle has no room for, or record of a call what the provider did not do.
PaidContract == Paid!Contract

\* However answers are lost, given up on or refused, the calls the provider
\* took never outnumber what the Safety Guard had room for.
BilledCallsFit == Cardinality({a \in Attempt : call[a] = "ACCEPTED"}) <= Budget

\* While a call of a first video is unresolved no other call is permitted for
\* it: the hold taken with the uncertainty lasts until the last of them is
\* resolved (evaluatePaidSubmissionGate, reservationActionFor).
NoCallIntoUncertainty ==
  [][\A a \in Attempt :
       /\ state[a] = "QUEUED"
       /\ state'[a] = "SUBMITTING"
       /\ JobOf[a] \notin Revising
       => \A b \in AttemptsOf(JobOf[a]) : state[b] # "RECONCILIATION_PENDING"]_vars

\* A provider's definite answer is refused only because the maintenance pass
\* had given the attempt up before it came.  An answer offered again after it
\* was recorded is a replay, however far the attempt has moved since.
AnswerRefusedOnlyAsLate ==
  [][\A w \in Worker :
       /\ pass[w].stopped = "NO"
       /\ pass'[w].stopped = "REFUSED"
       /\ pass[w].answer # "UNKNOWN"
       => certainty[At(w)] = "SUBMISSION_UNKNOWN"]_vars

-----------------------------------------------------------------------------
\* An attempt that may be sent is taken up by some pass, however many attempts
\* before it are passed over each time (ADR-0098's window and cursor).
EveryAttemptGetsATurn ==
  \A a \in Attempt :
    (WaitingToBeSent(a) /\ JobOf[a] \notin deleted)
      ~> ( \/ ~WaitingToBeSent(a) \/ JobOf[a] \in deleted
           \/ \E w \in Worker : Turn(w, a))

\* No attempt stays at the boundary or in reconciliation for ever, whatever
\* became of its worker, its job and its answer.
UncertaintyEnds == \A a \in Attempt : Unresolved(a) ~> ~Unresolved(a)
===============================================================================
