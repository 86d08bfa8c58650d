------------------------- MODULE UnitLedgerProperties -------------------------
(* What UnitLedger is checked for. *)
EXTENDS UnitLedger

(***************************************************************************)
(* The account contract, read off the rows: a lot is the plan's Units of   *)
(* an opened period, or a purchased block.                                 *)
(***************************************************************************)
Lots == {<<"period", i>> : i \in opened} \cup {<<"block", u>> : u \in Bought}

LotFacts(l) ==
  IF l[1] = "period"
  THEN [units |-> Plan[subscription.planKey].baseUnits, standing |-> "OPEN"]
  ELSE [units |-> purchase[l[2]].units,
        standing |-> [NO |-> "OPEN", CUSTOMER |-> "PAID_BACK",
                      VTAVISION |-> "TAKEN_BACK"][purchase[l[2]].cancelled]]

LotOf(j, s) == IF s = 0 THEN <<"period", job[j].period>> ELSE <<"block", s>>

Taken(j) ==
  LET sources == {s \in Source : job[j].allocated[s] > 0}
  IN  [l \in {LotOf(j, s) : s \in sources} |->
         job[j].allocated[CHOOSE s \in sources : LotOf(j, s) = l]]

OrderFacts(j) ==
  [units |-> requiredUnitsFor(OrderOf[job[j].project].seconds),
   taken |-> Taken(j),
   state |-> [RESERVED |-> "HELD", CONSUMED |-> "SPENT",
              RELEASED |-> "RETURNED"][job[j].reservation]]

Account == INSTANCE UnitAccountContract WITH
  lots <- [l \in Lots |-> LotFacts(l)],
  orders <- [j \in Started |-> OrderFacts(j)]

\* Starts, purchases, cancellations, publications and endings, interleaved as
\* their locks let them, keep the account: a job is funded in full or not at all,
\* from lots nobody else was given, its Units are settled once, and a purchase
\* paid back as the customer's mistake never funded a video that kept its Units.
\* Lots and orders are read off the ledger, so a step that leaves the ledger alone
\* leaves them as they are.
AccountContract ==
  /\ Account!ContractInit
  /\ [][ledger' # ledger => [Account!ContractNext]_(Account!contractVars)]_vars

\* No Unit is given to two jobs, and high-quality videos keep within the part of
\* the plan's Units they may use: two starts, or a start and a cancellation, that
\* read the same balance (loadPeriodBalance under the cost-admission lock).
NoUnitSpentTwice ==
  /\ \A i \in opened :
       LET jobs == JobsOfPeriod(i)
           plan == Plan[subscription.planKey]
       IN  /\ Drawn(jobs, 0) <= plan.baseUnits
           /\ Drawn({j \in jobs : QualityOf(j) = "HIGH_QUALITY"}, 0)
                <= plan.includedHighQualityUnits
  /\ \A u \in Bought :
       /\ Drawn(Started, u) <= purchase[u].units
       /\ \A j \in Started : job[j].allocated[u] > 0 =>
            /\ QualityOf(j) = purchase[u].quality
            /\ job[j].period = purchase[u].period

\* A project is never worked on, or paid for, twice at once: at most one of its
\* jobs has not ended with its Unit returned, however starts with different keys
\* race (findHoldingJob under the project-start lock).
OneHoldingJobPerProject ==
  \A i, j \in Started :
    i # j /\ job[i].project = job[j].project
      => /\ ~(holdsItsProject(i) /\ holdsItsProject(j))
         /\ job[i].key # job[j].key

\* Launches that run side by side never set more first videos going than the plan
\* has places (the count under the job-launch lock).  A revision counts against
\* the launches, and may itself begin without a place left.
PlacesWithinLimit ==
  subscription # NoSubscription =>
    Cardinality({j \in Started : HoldsAPlace(j) /\ IsFirstVideo(j)})
      <= Plan[subscription.planKey].concurrentJobs

\* Transactions never wait for each other in a circle, although a launch takes
\* the Property before the reservation and an ending the other way round: among
\* any that are waiting, one waits for none of the others.
NoCircularWait ==
  \A S \in (SUBSET Client) \ {{}} : \E c \in S : \A d \in S : ~WaitsFor(c, d)

\* A start or purchase finds the one opened period that covers the instant it
\* read, whatever other periods renewals opened before its transaction: the
\* errors of a period that is missing, or of two that overlap, never come.
RenewalFindsItsPeriod ==
  \A c \in Client : request[c].kind \in {"START", "APPROVE"} =>
    PeriodsContaining(request[c].at) = {request[c].period}
===============================================================================
