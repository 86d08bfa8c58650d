--------------------------- MODULE UnitLedgerProofs ---------------------------
(***************************************************************************)
(* Proofs about the ledger of Units, for any number of transactions, jobs, *)
(* purchases and properties, any catalog and any calendar.                 *)
(***************************************************************************)
EXTENDS UnitLedgerProperties, FiniteSetTheorems, SequenceTheorems, WellFoundedInduction, TLAPS

USE DEF Job, Purchase, Source, Day

-----------------------------------------------------------------------------
(***************************************************************************)
(* Types.                                                                  *)
(***************************************************************************)

JobRows ==
  [project : Project, key : Key,
   state : {"RESERVED", "GENERATING", "DELIVERABLE_VALIDATING", "DELIVERABLE_READY",
            "FAILED_TERMINAL"},
   reservation : {"RESERVED", "CONSUMED", "RELEASED"},
   period : Int, allocated : [Source -> Nat]]

PurchaseRows ==
  [period : Int, quality : Wanted, key : PurchaseKey, units : Nat, approvedAt : Nat,
   cancelled : {"NO", "VTAVISION", "CUSTOMER"}]

\* The kinds of transaction that are about one job.
JobKinds == {"LAUNCH", "PUBLISH", "FAIL", "END_WAITING", "END_LAUNCHED"}

Starts == [kind : {"START"}, project : Project, key : Key, at : Nat, period : Int,
           seen : [Source -> Nat]]
Approvals == [kind : {"APPROVE"}, quality : Wanted, key : PurchaseKey, at : Nat, period : Int]
Cancellations ==
  [kind : {"CANCEL"}, purchase : Nat, fault : {"VTAVISION", "CUSTOMER"}, at : Nat]
Publications == [kind : {"PUBLISH"}, job : Nat, seen : BOOLEAN]
Moves == [kind : JobKinds \ {"PUBLISH"}, job : Nat]
Deletions == [kind : {"DELETE"}, property : Property]
Removals == [kind : {"REMOVE"}]

Requests ==
  {Idle} \cup Starts \cup Approvals \cup Cancellations \cup Publications
    \cup Moves \cup Deletions \cup Removals

TypeOK ==
  /\ clock \in Day
  /\ subscription \in {NoSubscription} \cup Offer
  /\ opened \subseteq Int
  /\ purchase \in Seq(PurchaseRows)
  /\ job \in Seq(JobRows)
  /\ deleted \subseteq Property
  /\ approver \in BOOLEAN
  /\ request \in [Client -> Requests]
  /\ held \in [Client -> Nat]

\* A transaction is about rows that exist, on a subscription that does, its period
\* covers the instant it read, and it holds no more locks than it asks for.
RequestFits(c) ==
  LET r == request[c] IN
  /\ r.kind \in {"START", "APPROVE"} =>
       /\ subscription # NoSubscription
       /\ r.period \in opened /\ Covers(Bounds(r.period), r.at)
  /\ r.kind \in JobKinds => r.job \in Started
  /\ r.kind = "CANCEL" => r.purchase \in Bought
  /\ Active(c) => held[c] <= Len(LocksOf(r))
  /\ ~Active(c) => held[c] = 0

RequestsFit == \A c \in Client : RequestFits(c)

\* A period the calendar has: both its ends are known.
Dated(anchor, index) ==
  index \in Int /\ MonthOf(anchor) + index \in Month /\ MonthOf(anchor) + index + 1 \in Month

\* Only periods of a contract that has begun are opened.
PeriodsFit ==
  /\ opened # {} => subscription # NoSubscription /\ subscription.anchorAt <= clock
  /\ \A i \in opened : Dated(subscription.anchorAt, i)

\* Every purchase has a source of its own, those about to be written too.
PurchasesFit == Len(purchase) + ToWrite("APPROVE") <= Purchases

RowsFit ==
  /\ Started # {} => subscription # NoSubscription
  /\ \A j \in Started :
       /\ job[j].state = "RESERVED" => job[j].reservation = "RESERVED"
       /\ job[j].state = "DELIVERABLE_READY" => job[j].reservation # "RESERVED"

\* No two transactions hold locks that exclude each other.
LocksExclude ==
  \A c, d \in Client : c # d =>
    \A l \in HeldBy(c), m \in HeldBy(d) : ~Conflict(l, m)

\* What a transaction decided by is still so when it writes.
DecisionHolds(c) ==
  LET r == request[c] IN
  /\ r.kind = "START" => ~findStarted(r.project, r.key) /\ ~findHolding(r.project)
  /\ r.kind \in {"LAUNCH", "END_WAITING"} =>
       job[r.job].state = "RESERVED" /\ job[r.job].reservation = "RESERVED"
  /\ r.kind = "PUBLISH" => PublicationDue(r.job)
  /\ r.kind \in {"FAIL", "END_LAUNCHED"} => SettlementDue(r.job)

DecisionsHold == \A c \in Client : Decided(c) => DecisionHolds(c)

\* First videos that hold a place.
Placed == {j \in Started : HoldsAPlace(j) /\ IsFirstVideo(j)}

\* A launch that counted the places still finds one when it writes.
PlacesFit ==
  \A c \in Client : request[c].kind = "LAUNCH" /\ held[c] >= 2 =>
    Cardinality(Placed) < Plan[subscription.planKey].concurrentJobs

BaseInv == TypeOK /\ RequestsFit /\ RowsFit /\ PeriodsFit /\ PurchasesFit /\ LocksExclude
LockInv == BaseInv /\ DecisionsHold /\ OneHoldingJobPerProject /\ PlacesFit /\ PlacesWithinLimit

-----------------------------------------------------------------------------
(***************************************************************************)
(* Requests, their rows and their locks.                                   *)
(***************************************************************************)

\* A request of a kind has the fields of that kind.
LEMMA RequestOfKind ==
  ASSUME NEW r \in Requests
  PROVE  /\ r.kind \in {"IDLE", "START", "APPROVE", "CANCEL", "DELETE", "REMOVE"} \cup JobKinds
         /\ r.kind = "IDLE" => r = Idle
         /\ r.kind = "START" => r \in Starts
         /\ r.kind = "APPROVE" => r \in Approvals
         /\ r.kind = "CANCEL" => r \in Cancellations
         /\ r.kind = "PUBLISH" => r \in Publications
         /\ r.kind \in JobKinds \ {"PUBLISH"} => r \in Moves
         /\ r.kind \in JobKinds => r.job \in Nat
         /\ r.kind = "DELETE" => r \in Deletions
BY DEF Requests, Idle, Starts, Approvals, Cancellations, Publications, Moves, Deletions,
       Removals, JobKinds

\* The rows of a sequence.
LEMMA RowsOfSeq ==
  ASSUME NEW R, NEW s \in Seq(R)
  PROVE  /\ DOMAIN s = 1..Len(s) /\ Len(s) \in Nat
         /\ \A n \in DOMAIN s : s[n] \in R
         /\ \A x \in R : /\ Append(s, x) \in Seq(R)
                         /\ DOMAIN Append(s, x) = DOMAIN s \cup {Len(s) + 1}
                         /\ Len(s) + 1 \notin DOMAIN s
                         /\ \A n \in DOMAIN s : Append(s, x)[n] = s[n]
                         /\ Append(s, x)[Len(s) + 1] = x
         /\ \A n \in DOMAIN s, x \in R : /\ [s EXCEPT ![n] = x] \in Seq(R)
                                         /\ DOMAIN [s EXCEPT ![n] = x] = DOMAIN s
<1>1. DOMAIN s = 1..Len(s) /\ Len(s) \in Nat /\ \A n \in DOMAIN s : s[n] \in R
  OBVIOUS
<1>2. ASSUME NEW x \in R
      PROVE  /\ Append(s, x) \in Seq(R)
             /\ DOMAIN Append(s, x) = DOMAIN s \cup {Len(s) + 1}
             /\ Len(s) + 1 \notin DOMAIN s
             /\ \A n \in DOMAIN s : Append(s, x)[n] = s[n]
             /\ Append(s, x)[Len(s) + 1] = x
  BY <1>1
<1>3. ASSUME NEW n \in DOMAIN s, NEW x \in R
      PROVE  [s EXCEPT ![n] = x] \in Seq(R) /\ DOMAIN [s EXCEPT ![n] = x] = DOMAIN s
  BY <1>1
<1> QED BY <1>1, <1>2, <1>3

\* The jobs when one of them moves.
Moved(rows, j, state, reservation) ==
  [rows EXCEPT ![j].state = state, ![j].reservation = reservation]

\* A job moves to another state with its reservation, and is the job it was.
LEMMA JobMoves ==
  ASSUME TypeOK, NEW j \in Started,
         NEW state \in {"GENERATING", "DELIVERABLE_VALIDATING", "DELIVERABLE_READY",
                        "FAILED_TERMINAL"},
         NEW reservation \in {"RESERVED", "CONSUMED", "RELEASED"},
         job' = Moved(job, j, state, reservation)
  PROVE  /\ job' \in Seq(JobRows) /\ Started' = Started
         /\ \A i \in Started : i # j => job'[i] = job[i]
         /\ job'[j] = [job[j] EXCEPT !.state = state, !.reservation = reservation]
         /\ job'[j].state = state /\ job'[j].reservation = reservation
         /\ \A i \in Started : /\ job'[i].project = job[i].project /\ job'[i].key = job[i].key
                               /\ job'[i].period = job[i].period
                               /\ job'[i].allocated = job[i].allocated
<1> DEFINE row == [job[j] EXCEPT !.state = state, !.reservation = reservation]
<1>1. job \in Seq(JobRows) /\ job[j] \in JobRows
  BY RowsOfSeq DEF TypeOK, Started
<1>2. row \in JobRows /\ row.state = state /\ row.reservation = reservation
      /\ row.project = job[j].project /\ row.key = job[j].key /\ row.period = job[j].period
      /\ row.allocated = job[j].allocated
  BY <1>1 DEF JobRows
<1>3. job' = [job EXCEPT ![j] = row]
  <2>1. job \in [Started -> JobRows]
    BY <1>1, RowsOfSeq DEF Started
  <2> DEFINE half == [job EXCEPT ![j].state = state]
  <2>2. half = [i \in Started |-> IF i = j THEN [job[j] EXCEPT !.state = state] ELSE job[i]]
    BY <2>1
  <2>3. job' = [i \in Started |-> IF i = j THEN row ELSE job[i]]
    BY <2>1, <2>2 DEF Moved
  <2> QED BY <2>1, <2>3
<1> HIDE DEF row
<1>4. job' \in Seq(JobRows) /\ Started' = Started
  <2>1. \A n \in DOMAIN job, x \in JobRows :
          [job EXCEPT ![n] = x] \in Seq(JobRows) /\ DOMAIN [job EXCEPT ![n] = x] = DOMAIN job
    BY <1>1, RowsOfSeq
  <2>2. j \in DOMAIN job /\ row \in JobRows
    BY <1>2 DEF Started
  <2>3. [job EXCEPT ![j] = row] \in Seq(JobRows) /\ DOMAIN [job EXCEPT ![j] = row] = DOMAIN job
    BY <2>1, <2>2
  <2> QED BY <1>3, <2>3 DEF Started
<1>5. job'[j] = row /\ \A i \in Started : i # j => job'[i] = job[i]
  BY <1>1, <1>3 DEF Started
<1>6. job'[j] = [job[j] EXCEPT !.state = state, !.reservation = reservation]
  BY <1>5 DEF row
<1> QED BY <1>2, <1>4, <1>5, <1>6

-----------------------------------------------------------------------------
(***************************************************************************)
(* Sums.  The Units of several jobs, or blocks, are counted one by one: a   *)
(* Unit is its holder and a number.                                        *)
(***************************************************************************)

\* What each of S has, f Units of it, put together.
UnitsOf(S, f) == UNION {{x} \X (1..f[x]) : x \in S}

LEMMA UnitOf ==
  ASSUME NEW S, NEW f
  PROVE  UnitsOf(S, f) = {u \in S \X Int : u[2] \in 1..f[u[1]]}
<1>1. \A u : u \in UnitsOf(S, f) <=> \E x \in S : u \in {x} \X (1..f[x])
  BY DEF UnitsOf
<1>2. \A x : \A u : u \in {x} \X (1..f[x]) <=> u \in {x} \X Int /\ u[2] \in 1..f[x]
  OBVIOUS
<1> QED BY <1>1, <1>2

\* However many they are, they can be counted.
LEMMA UnitsAreFinite ==
  ASSUME NEW S, IsFiniteSet(S), NEW f \in [S -> Nat]
  PROVE  IsFiniteSet(UnitsOf(S, f)) /\ Cardinality(UnitsOf(S, f)) \in Nat
<1> DEFINE parts == {{x} \X (1..f[x]) : x \in S}
           part == [x \in S |-> {x} \X (1..f[x])]
<1>1. part \in Surjection(S, parts)
  BY DEF Surjection
<1>2. IsFiniteSet(parts)
  BY <1>1, FS_Surjection
<1>3. ASSUME NEW x \in S PROVE IsFiniteSet({x} \X (1..f[x]))
  <2>1. IsFiniteSet({x})
    BY FS_Singleton
  <2>2. 1 \in Int /\ f[x] \in Int
    OBVIOUS
  <2>3. IsFiniteSet(1..f[x])
    BY <2>2, FS_Interval
  <2> QED BY <2>1, <2>3, FS_Product
<1>4. \A P \in parts : IsFiniteSet(P)
  BY <1>3
<1> HIDE DEF parts
<1>5. IsFiniteSet(UNION parts)
  BY <1>2, <1>4, FS_UNION
<1>6. UnitsOf(S, f) = UNION parts
  BY DEF UnitsOf, parts
<1> QED BY <1>5, <1>6, FS_CardinalityType

\* Fewer holders with fewer Units each have fewer Units.
LEMMA FewerUnits ==
  ASSUME NEW T, IsFiniteSet(T), NEW g \in [T -> Nat],
         NEW S \in SUBSET T, NEW f \in [S -> Nat], \A x \in S : f[x] <= g[x]
  PROVE  Cardinality(UnitsOf(S, f)) <= Cardinality(UnitsOf(T, g))
<1>1. UnitsOf(S, f) \subseteq UnitsOf(T, g)
  <2>1. \A x \in S, n \in Int : n \in 1..f[x] => n \in 1..g[x]
    OBVIOUS
  <2> QED BY <2>1, UnitOf
<1> QED BY <1>1, UnitsAreFinite, FS_Subset

\* One more holder adds what it has.
LEMMA OneMoreHolder ==
  ASSUME NEW S, IsFiniteSet(S), NEW f \in [S -> Nat], NEW x, x \notin S,
         NEW g \in [S \cup {x} -> Nat], \A y \in S : g[y] = f[y]
  PROVE  Cardinality(UnitsOf(S \cup {x}, g)) = Cardinality(UnitsOf(S, f)) + g[x]
<1> DEFINE new == {x} \X (1..g[x])
<1>1. UnitsOf(S \cup {x}, g) = UnitsOf(S, f) \cup new
  BY DEF UnitsOf
<1>2. UnitsOf(S, f) \cap new = {}
  BY UnitOf
<1>3. IsFiniteSet(new) /\ Cardinality(new) = g[x]
  <2>1. IsFiniteSet({x}) /\ Cardinality({x}) = 1
    BY FS_Singleton
  <2>2. 1 \in Int /\ g[x] \in Int /\ g[x] \in Nat
    OBVIOUS
  <2>3. IsFiniteSet(1..g[x]) /\ Cardinality(1..g[x]) = g[x]
    BY <2>2, FS_Interval
  <2>4. /\ IsFiniteSet({x} \X (1..g[x]))
        /\ Cardinality({x} \X (1..g[x])) = Cardinality({x}) * Cardinality(1..g[x])
    BY <2>1, <2>3, FS_Product
  <2>5. Cardinality({x} \X (1..g[x])) = 1 * g[x]
    BY <2>1, <2>3, <2>4
  <2> QED BY <2>2, <2>4, <2>5
<1> HIDE DEF new
<1>4. IsFiniteSet(UnitsOf(S, f)) /\ Cardinality(UnitsOf(S, f)) \in Nat
  BY UnitsAreFinite
<1> DEFINE old == UnitsOf(S, f)
<1> HIDE DEF old
<1>5. Cardinality(old \cup new) = Cardinality(old) + Cardinality(new) - Cardinality(old \cap new)
  BY <1>3, <1>4, FS_Union DEF old
<1>6. Cardinality(old \cap new) = 0
  BY <1>2, FS_EmptySet DEF old
<1>7. g[x] \in Nat
  OBVIOUS
<1>8. Cardinality(old) \in Nat
  BY <1>4 DEF old
<1>9. Cardinality(old \cup new) = Cardinality(old) + g[x]
  BY <1>3, <1>5, <1>6, <1>7, <1>8
<1>10. UnitsOf(S \cup {x}, g) = old \cup new
  BY <1>1 DEF old
<1>11. Cardinality(UnitsOf(S \cup {x}, g)) = Cardinality(old) + g[x]
  BY <1>9, <1>10
<1> QED BY <1>11 DEF old

-----------------------------------------------------------------------------
(***************************************************************************)
(* The calendar.                                                           *)
(***************************************************************************)

LEMMA NaturalsHaveALeast ==
  ASSUME NEW S \in SUBSET Nat, S # {}
  PROVE  \E x \in S : \A y \in S : x <= y
<1>1. PICK x \in S : \A y \in S : ~ (<<y, x>> \in OpToRel(<, Nat))
  BY NatLessThanWellFounded, WFMin
<1>2. \A y \in S : ~(y < x)
  BY <1>1 DEF OpToRel
<1>3. \A y \in S : x <= y
  BY <1>2
<1> QED BY <1>3

\* An instant the calendar reaches over.
Known(at) == at \in Int /\ MonthStart[1] <= at /\ at < MonthStart[Len(MonthStart) - 1]

LEMMA Calendar ==
  /\ Len(MonthStart) \in Nat /\ Len(MonthStart) > 1
  /\ \A m \in 1..Len(MonthStart) : MonthStart[m] \in Nat
  /\ \A m, n \in 1..Len(MonthStart) : m < n => MonthStart[m] < MonthStart[n]
  /\ \A m, n \in 1..Len(MonthStart) : m <= n => MonthStart[m] <= MonthStart[n]
<1>1. DOMAIN MonthStart = 1..Len(MonthStart) /\ Len(MonthStart) \in Nat
      /\ \A m \in 1..Len(MonthStart) : MonthStart[m] \in Nat
  BY CalendarAssumption DEF CalendarAssumption
<1>2. \A m, n \in 1..Len(MonthStart) : m < n => MonthStart[m] < MonthStart[n]
  BY <1>1, CalendarAssumption DEF CalendarAssumption
<1>3. ASSUME NEW m \in 1..Len(MonthStart), NEW n \in 1..Len(MonthStart), m <= n
      PROVE  MonthStart[m] <= MonthStart[n]
  <2>1. CASE m = n
    BY <1>1, <2>1
  <2>2. CASE m < n
    BY <1>1, <1>2, <2>2
  <2> QED BY <1>3, <2>1, <2>2
<1> QED BY <1>1, <1>2, <1>3, ClockAssumption DEF ClockAssumption

\* A known instant is in a month that two others follow, or one and the end.
LEMMA MonthIsFound ==
  ASSUME NEW at, Known(at)
  PROVE  /\ MonthOf(at) \in 1..(Len(MonthStart) - 2)
         /\ MonthStart[MonthOf(at)] <= at /\ at < MonthStart[MonthOf(at) + 1]
<1> DEFINE later == {n \in 1..Len(MonthStart) : at < MonthStart[n]}
           last == Len(MonthStart) - 1
<1>1. at \in Int /\ MonthStart[1] <= at /\ at < MonthStart[last] /\ last \in 1..Len(MonthStart)
  BY Calendar DEF Known
<1>2. later \in SUBSET Nat /\ later # {}
  BY <1>1, Calendar
<1>3. PICK n \in later : \A k \in later : n <= k
  BY <1>2, NaturalsHaveALeast
<1>4. n # 1 /\ n \in 1..Len(MonthStart) /\ at < MonthStart[n]
  BY <1>1, <1>3, Calendar
<1>5. n <= last
  BY <1>1, <1>3
<1>6. n - 1 \in 1..Len(MonthStart) /\ n - 1 \notin later
  BY <1>3, <1>4, Calendar
<1>7. MonthStart[n - 1] <= at
  BY <1>1, <1>6, Calendar
<1>8. n - 1 \in Month /\ at < MonthStart[(n - 1) + 1]
  BY <1>4, <1>5, Calendar DEF Month
<1>9. /\ MonthOf(at) \in Month
      /\ MonthStart[MonthOf(at)] <= at /\ at < MonthStart[MonthOf(at) + 1]
  BY <1>7, <1>8 DEF MonthOf
<1>10. MonthOf(at) < last
  <2>1. SUFFICES ASSUME last <= MonthOf(at) PROVE FALSE
    BY <1>1, <1>9, Calendar DEF Month
  <2>2. MonthOf(at) \in 1..Len(MonthStart)
    BY <1>9, Calendar DEF Month
  <2>3. MonthStart[last] <= MonthStart[MonthOf(at)]
    BY <1>1, <2>1, <2>2, Calendar
  <2>4. MonthStart[last] \in Int /\ MonthStart[MonthOf(at)] \in Int
    BY <1>1, <2>2, Calendar
  <2> QED BY <1>1, <1>9, <2>3, <2>4
<1> QED BY <1>1, <1>9, <1>10, Calendar DEF Month

\* The clamped day is in the month it is asked for.
LEMMA ClampedDay ==
  ASSUME NEW anchor, Known(anchor), NEW index \in Int, MonthOf(anchor) + index \in Month
  PROVE  LET m == MonthOf(anchor) + index
             day == addUtcMonthsClamped(anchor, index)
         IN  /\ day \in Int /\ MonthStart[m] <= day /\ day < MonthStart[m + 1]
             /\ index = 0 => day = anchor
<1> DEFINE m == MonthOf(anchor) + index
           first == MonthStart[m]
           days == DaysOf(m)
           of == DayOf(anchor)
<1>1. m \in 1..Len(MonthStart) /\ m + 1 \in 1..Len(MonthStart) /\ m < m + 1
  BY Calendar DEF Month
<1>2. first \in Nat /\ MonthStart[m + 1] \in Nat /\ first < MonthStart[m + 1]
  BY <1>1, Calendar
<1>3. days \in Nat /\ days >= 1 /\ first + days = MonthStart[m + 1]
  BY <1>2 DEF DaysOf
<1>4. /\ MonthOf(anchor) \in 1..Len(MonthStart) /\ MonthOf(anchor) + 1 \in 1..Len(MonthStart)
      /\ MonthStart[MonthOf(anchor)] <= anchor /\ anchor < MonthStart[MonthOf(anchor) + 1]
  BY MonthIsFound, Calendar
<1>5. of \in Nat /\ of >= 1
  BY <1>4, Calendar DEF DayOf, Known
<1>6. addUtcMonthsClamped(anchor, index) = first + Smaller(of, days) - 1
  BY DEF addUtcMonthsClamped, Instant
<1>7. CASE index # 0
  <2> HIDE DEF m, first, days, of
  <2>1. Smaller(of, days) \in 1..days
    BY <1>3, <1>5 DEF Smaller
  <2> QED BY <1>2, <1>3, <1>6, <1>7, <2>1 DEF m, first
<1>8. CASE index = 0
  <2>1. m = MonthOf(anchor)
    BY <1>4, <1>8
  <2>2. of = anchor - first + 1
    BY <2>1 DEF DayOf
  <2>3. anchor \in Int /\ anchor < MonthStart[m + 1] /\ first <= anchor
    BY <1>4, <2>1 DEF Known
  <2> HIDE DEF m, first, days, of
  <2>4. of <= days
    BY <1>2, <1>3, <1>5, <2>2, <2>3 DEF first
  <2>5. Smaller(of, days) = of
    BY <1>3, <1>5, <2>4 DEF Smaller
  <2>6. addUtcMonthsClamped(anchor, index) = anchor
    BY <1>2, <1>5, <1>6, <2>2, <2>3, <2>5 DEF first
  <2> QED BY <2>3, <2>6 DEF first, m
<1> QED BY <1>7, <1>8

\* The period of an instant is dated and covers it.
LEMMA PeriodIsFound ==
  ASSUME NEW anchor, NEW at, Known(anchor), Known(at), anchor <= at
  PROVE  LET index == renewalPeriodAt(anchor, at).index
         IN  Dated(anchor, index) /\ Covers(renewalPeriodBounds(anchor, index), at)
<1> DEFINE a == MonthOf(anchor)
           m == MonthOf(at)
           start(i) == addUtcMonthsClamped(anchor, i)
<1>1. /\ a \in 1..(Len(MonthStart) - 2) /\ MonthStart[a] <= anchor /\ anchor < MonthStart[a + 1]
      /\ m \in 1..(Len(MonthStart) - 2) /\ MonthStart[m] <= at /\ at < MonthStart[m + 1]
      /\ anchor \in Int /\ at \in Int
  BY MonthIsFound DEF Known
<1> HIDE DEF a, m
<1>2. a <= m
  <2>1. SUFFICES ASSUME m + 1 <= a PROVE FALSE
    BY <1>1, Calendar
  <2>2. m + 1 \in 1..Len(MonthStart) /\ a \in 1..Len(MonthStart)
    BY <1>1, Calendar
  <2>3. MonthStart[m + 1] <= MonthStart[a]
    BY <2>1, <2>2, Calendar
  <2>4. MonthStart[m + 1] \in Int /\ MonthStart[a] \in Int
    BY <2>2, Calendar
  <2> QED BY <1>1, <2>3, <2>4
<1>3. m - a \in Int /\ a + (m - a) = m /\ a + ((m - a) + 1) = m + 1 /\ a + ((m - a) - 1) = m - 1
      /\ m \in Month /\ m + 1 \in Month
  BY <1>1, Calendar DEF Month
<1>4. /\ start(m - a) \in Int /\ MonthStart[m] <= start(m - a) /\ start(m - a) < MonthStart[m + 1]
      /\ m = a => start(m - a) = anchor
  <2>1. MonthOf(anchor) + (m - a) = m
    BY <1>3 DEF a
  <2>2. m - a \in Int /\ MonthOf(anchor) + (m - a) \in Month
    BY <1>3, <2>1
  <2>3. LET n == MonthOf(anchor) + (m - a)
        IN  /\ start(m - a) \in Int /\ MonthStart[n] <= start(m - a)
            /\ start(m - a) < MonthStart[n + 1]
            /\ m - a = 0 => start(m - a) = anchor
    BY <2>2, ClampedDay
  <2>4. m = a => m - a = 0
    BY <1>1
  <2> QED BY <2>1, <2>3, <2>4
<1>5. start((m - a) + 1) \in Int /\ MonthStart[m + 1] <= start((m - a) + 1)
  <2>1. (m - a) + 1 \in Int /\ MonthOf(anchor) + ((m - a) + 1) \in Month
    BY <1>1, <1>3 DEF a
  <2> QED BY <1>3, <2>1, ClampedDay DEF a
<1>6. CASE start(m - a) <= at
  <2>1. renewalPeriodAt(anchor, at).index = m - a
    BY <1>6 DEF renewalPeriodAt, renewalPeriodBounds, a, m
  <2>2. at < start((m - a) + 1)
    <3>1. MonthStart[m + 1] \in Int
      BY <1>3, Calendar DEF Month
    <3> QED BY <1>1, <1>5, <3>1
  <2>3. Dated(anchor, m - a)
    BY <1>3 DEF Dated, a
  <2> QED BY <1>6, <2>1, <2>2, <2>3 DEF Covers, renewalPeriodBounds
<1>7. CASE ~(start(m - a) <= at)
  <2>1. m # a
    BY <1>4, <1>7
  <2>2. renewalPeriodAt(anchor, at).index = (m - a) - 1
    BY <1>7 DEF renewalPeriodAt, renewalPeriodBounds, a, m
  <2>3. m - 1 \in Month /\ (m - a) - 1 \in Int /\ (m - a) - 1 + 1 = m - a
    BY <1>1, <1>2, <2>1, Calendar DEF Month
  <2>4. start((m - a) - 1) \in Int /\ start((m - a) - 1) < MonthStart[(m - 1) + 1]
    <3>1. MonthOf(anchor) + ((m - a) - 1) \in Month
      BY <1>3, <2>3 DEF a
    <3> QED BY <1>3, <2>3, <3>1, ClampedDay DEF a
  <2>5. start((m - a) - 1) <= at
    <3>1. (m - 1) + 1 = m /\ MonthStart[m] \in Int
      BY <1>1, <1>3, Calendar DEF Month
    <3> QED BY <1>1, <2>4, <3>1
  <2>6. at < start((m - a) - 1 + 1)
    BY <1>1, <1>4, <1>7, <2>3
  <2>7. Dated(anchor, (m - a) - 1)
    BY <1>1, <1>3, <2>3 DEF Dated, a
  <2> QED BY <2>2, <2>5, <2>6, <2>7 DEF Covers, renewalPeriodBounds
<1> QED BY <1>6, <1>7

\* No instant is in two periods.
LEMMA PeriodIsAlone ==
  ASSUME NEW anchor, Known(anchor), NEW at \in Int, NEW i, NEW j,
         Dated(anchor, i), Dated(anchor, j),
         Covers(renewalPeriodBounds(anchor, i), at), Covers(renewalPeriodBounds(anchor, j), at)
  PROVE  i = j
<1>1. ASSUME NEW k, NEW l, Dated(anchor, k), Dated(anchor, l), k < l,
             Covers(renewalPeriodBounds(anchor, k), at), Covers(renewalPeriodBounds(anchor, l), at)
      PROVE  FALSE
  <2> DEFINE a == MonthOf(anchor)
             start(n) == addUtcMonthsClamped(anchor, n)
  <2>1. /\ at < start(k + 1) /\ start(l) <= at
        /\ k \in Int /\ l \in Int /\ k + 1 <= l /\ k + 1 \in Int
    BY <1>1 DEF Covers, renewalPeriodBounds, Dated
  <2>2. a \in Int
    BY MonthIsFound
  <2>3. a + (k + 1) \in Month /\ a + l \in Month /\ a + k + 1 = a + (k + 1)
    BY <1>1, <2>1, <2>2 DEF Dated
  <2>4. /\ start(k + 1) \in Int /\ start(k + 1) < MonthStart[a + (k + 1) + 1]
        /\ start(l) \in Int /\ MonthStart[a + l] <= start(l)
    BY <2>1, <2>3, ClampedDay
  <2>5. CASE k + 1 = l
    BY <2>1, <2>4, <2>5
  <2>6. CASE k + 1 < l
    <3>1. a + (k + 1) + 1 <= a + l /\ a + (k + 1) + 1 \in 1..Len(MonthStart)
          /\ a + l \in 1..Len(MonthStart)
      BY <2>1, <2>2, <2>3, <2>6, Calendar DEF Month
    <3>2. /\ MonthStart[a + (k + 1) + 1] <= MonthStart[a + l]
          /\ MonthStart[a + (k + 1) + 1] \in Int /\ MonthStart[a + l] \in Int
      BY <3>1, Calendar
    <3> QED BY <2>1, <2>4, <3>2
  <2> QED BY <2>1, <2>5, <2>6
<1>2. i \in Int /\ j \in Int
  BY DEF Dated
<1>3. ~(i < j)
  BY <1>1, Zenon
<1>4. ~(j < i)
  BY <1>1, Zenon
<1> QED BY <1>2, <1>3, <1>4

-----------------------------------------------------------------------------
(***************************************************************************)
(* Balances and allocations.                                               *)
(***************************************************************************)

\* The rows a state holds.
LEMMA Rows ==
  ASSUME TypeOK
  PROVE  /\ Started = 1..Len(job) /\ Len(job) \in Nat /\ IsFiniteSet(Started)
         /\ \A j \in Started : job[j] \in JobRows
         /\ Bought = 1..Len(purchase) /\ Len(purchase) \in Nat
         /\ \A u \in Bought : purchase[u] \in PurchaseRows
         /\ \A c \in Client : request[c] \in Requests /\ held[c] \in Nat
<1>1. /\ Started = 1..Len(job) /\ Len(job) \in Nat /\ \A j \in Started : job[j] \in JobRows
      /\ Bought = 1..Len(purchase) /\ Len(purchase) \in Nat
      /\ \A u \in Bought : purchase[u] \in PurchaseRows
  BY RowsOfSeq DEF TypeOK, Started, Bought
<1>2. 1 \in Int /\ Len(job) \in Int
  BY <1>1
<1>3. IsFiniteSet(Started)
  BY <1>1, <1>2, FS_Interval
<1> QED BY <1>1, <1>3 DEF TypeOK

Occupying(jobs) == {j \in jobs : occupiesEntitlement(job[j].reservation)}
AllocatedOf(jobs, s) == [j \in jobs |-> job[j].allocated[s]]

\* What is drawn of a source is a count of Units.
LEMMA DrawnIsCounted ==
  ASSUME TypeOK, NEW jobs \in SUBSET Started, NEW s \in Source
  PROVE  /\ IsFiniteSet(Occupying(jobs))
         /\ AllocatedOf(Occupying(jobs), s) \in [Occupying(jobs) -> Nat]
         /\ Drawn(jobs, s) = Cardinality(UnitsOf(Occupying(jobs), AllocatedOf(Occupying(jobs), s)))
         /\ Drawn(jobs, s) \in Nat
<1>1. IsFiniteSet(Occupying(jobs))
  BY Rows, FS_Subset DEF Occupying
<1>2. AllocatedOf(Occupying(jobs), s) \in [Occupying(jobs) -> Nat]
  <2>1. \A j \in Started : job[j].allocated \in [Source -> Nat]
    BY Rows DEF JobRows
  <2>2. \A j \in Occupying(jobs) : job[j].allocated[s] \in Nat
    BY <2>1 DEF Occupying
  <2> QED BY <2>2 DEF AllocatedOf
<1>3. UnitsDrawn(jobs, s) = UnitsOf(Occupying(jobs), AllocatedOf(Occupying(jobs), s))
  BY DEF UnitsDrawn, UnitsOf, Occupying, AllocatedOf
<1> QED BY <1>1, <1>2, <1>3, UnitsAreFinite DEF Drawn

\* What blocks have left is a count of Units.
LEMMA LeftIsCounted ==
  ASSUME NEW B, IsFiniteSet(B), \A b \in B : b.left \in Nat
  PROVE  LeftOf(B) = Cardinality(UnitsOf(B, [b \in B |-> b.left])) /\ LeftOf(B) \in Nat
<1>1. UNION {{b} \X (1..b.left) : b \in B} = UnitsOf(B, [b \in B |-> b.left])
  BY DEF UnitsOf
<1> QED BY <1>1, UnitsAreFinite DEF LeftOf

\* The contract's plan has its facts.
LEMMA PlanOfContract ==
  ASSUME TypeOK, subscription # NoSubscription
  PROVE  /\ subscription \in Offer /\ subscription.planKey \in DOMAIN Plan
         /\ Plan[subscription.planKey] \in PlanFacts /\ subscription.anchorAt \in Nat
         /\ MonthStart[1] <= subscription.anchorAt
BY CatalogAssumption, ClockAssumption, LedgerAssumption DEF TypeOK, CatalogAssumption, LedgerAssumption,
   ClockAssumption

BlockOf(u) ==
  [id          |-> u,
   quality     |-> purchase[u].quality,
   left        |-> IF Withdrawn(u) THEN 0 ELSE purchase[u].units - Drawn(Started, u),
   purchasedAt |-> purchase[u].approvedAt]

\* A balance is made of integers, its blocks of the period's purchases.
LEMMA BalanceOfPeriod ==
  ASSUME TypeOK, subscription # NoSubscription, Len(purchase) <= Purchases, NEW i \in Int
  PROVE  LET balance == periodEntitlementBalance(i)
         IN  /\ balance.base \in Int /\ balance.highQuality \in Int
             /\ balance.base = Plan[subscription.planKey].baseUnits - Drawn(JobsOfPeriod(i), 0)
             /\ balance.highQuality
                  = Plan[subscription.planKey].includedHighQualityUnits
                      - Drawn({j \in JobsOfPeriod(i) : QualityOf(j) = "HIGH_QUALITY"}, 0)
             /\ balance.blocks = {BlockOf(u) : u \in {v \in Bought : purchase[v].period = i}}
             /\ IsFiniteSet(balance.blocks)
             /\ \A u \in Bought : u \in Source /\ BlockOf(u).left \in Int /\ BlockOf(u).id = u
             /\ \A b \in balance.blocks : b.left \in Int
<1> DEFINE mine == {v \in Bought : purchase[v].period = i}
           blocks == {BlockOf(u) : u \in mine}
           block == [u \in mine |-> BlockOf(u)]
<1>1. Bought \subseteq Source /\ Bought = 1..Len(purchase) /\ Len(purchase) \in Nat
  BY Rows, LedgerAssumption DEF LedgerAssumption
<1>2. JobsOfPeriod(i) \in SUBSET Started
      /\ {j \in JobsOfPeriod(i) : QualityOf(j) = "HIGH_QUALITY"} \in SUBSET Started
  BY DEF JobsOfPeriod
<1>3. 0 \in Source
  BY LedgerAssumption DEF LedgerAssumption
<1>4. /\ Drawn(JobsOfPeriod(i), 0) \in Nat
      /\ Drawn({j \in JobsOfPeriod(i) : QualityOf(j) = "HIGH_QUALITY"}, 0) \in Nat
  BY <1>2, <1>3, DrawnIsCounted
<1>5. /\ Plan[subscription.planKey].baseUnits \in Nat
      /\ Plan[subscription.planKey].includedHighQualityUnits \in Nat
  BY PlanOfContract DEF PlanFacts
<1>6. ASSUME NEW u \in Bought PROVE BlockOf(u).left \in Int /\ BlockOf(u).id = u
  <2>1. Drawn(Started, u) \in Nat
    BY <1>1, DrawnIsCounted
  <2>2. purchase[u].units \in Nat
    BY Rows DEF PurchaseRows
  <2>3. purchase[u].units - Drawn(Started, u) \in Int
    BY <2>1, <2>2
  <2> QED BY <2>3 DEF BlockOf
<1>7. IsFiniteSet(blocks)
  <2>1. 1 \in Int /\ Len(purchase) \in Int
    BY <1>1
  <2>2. IsFiniteSet(mine)
    BY <1>1, <2>1, FS_Interval, FS_Subset
  <2>3. block \in Surjection(mine, blocks)
    BY DEF Surjection
  <2> QED BY <2>2, <2>3, FS_Surjection
<1>8. /\ periodEntitlementBalance(i).base
           = Plan[subscription.planKey].baseUnits - Drawn(JobsOfPeriod(i), 0)
      /\ periodEntitlementBalance(i).highQuality
           = Plan[subscription.planKey].includedHighQualityUnits
               - Drawn({j \in JobsOfPeriod(i) : QualityOf(j) = "HIGH_QUALITY"}, 0)
      /\ periodEntitlementBalance(i).blocks = blocks
  BY DEF periodEntitlementBalance, BlockOf
<1>9. \A b \in blocks : b.left \in Int
  BY <1>6
<1> HIDE DEF blocks
<1> QED BY <1>1, <1>4, <1>5, <1>6, <1>7, <1>8, <1>9 DEF blocks

\* An allocation draws no more of a source than it has, and of a block only if it
\* is open and of the quality asked for.
LEMMA AllocationFits ==
  ASSUME NEW balance, balance.base \in Int, balance.highQuality \in Int,
         IsFiniteSet(balance.blocks), \A b \in balance.blocks : b.left \in Int,
         NEW quality, NEW units \in Nat, NEW S,
         NEW allocation, allocation = planUnitAllocation(balance, quality, units, S)
  PROVE  /\ allocation \in [S -> Nat]
         /\ 0 \in S =>
              /\ allocation[0] <= Larger(0, balance.base)
              /\ quality = "HIGH_QUALITY" => allocation[0] <= Larger(0, balance.highQuality)
         /\ \A s \in S : s # 0 /\ allocation[s] > 0 =>
              \E b \in balance.blocks :
                b.id = s /\ b.quality = quality /\ b.left > 0 /\ allocation[s] <= b.left
<1> DEFINE eligible == fifoEligibleBlocks(balance, quality)
           base == FromBase(balance, quality, units)
<1>1. /\ base \in Nat /\ base <= Larger(0, balance.base)
      /\ quality = "HIGH_QUALITY" => base <= Larger(0, balance.highQuality)
  BY DEF FromBase, BaseEligible, Smaller, Larger
<1>2. eligible \in SUBSET balance.blocks /\ \A b \in eligible : b.left \in Nat /\ b.left > 0
      /\ b.quality = quality
  BY DEF fifoEligibleBlocks
<1>3. ASSUME NEW b \in eligible
      PROVE  /\ FromBlock(balance, quality, units, b) \in Nat
             /\ FromBlock(balance, quality, units, b) <= b.left
  <2> DEFINE before == {c \in eligible : Precedes(c, b)}
             needed == units - base - LeftOf(before)
  <2>1. IsFiniteSet(before) /\ \A c \in before : c.left \in Nat
    BY <1>2, FS_Subset
  <2>2. LeftOf(before) \in Nat
    BY <2>1, LeftIsCounted
  <2>3. needed \in Int
    BY <1>1, <2>2
  <2>4. FromBlock(balance, quality, units, b) = Larger(0, Smaller(needed, b.left))
    BY DEF FromBlock
  <2> HIDE DEF needed
  <2> QED BY <1>2, <2>3, <2>4 DEF Larger, Smaller
<1> HIDE DEF base, eligible
<1>4. allocation = [s \in S |->
        IF s = 0 THEN base
        ELSE IF \E b \in eligible : b.id = s
             THEN FromBlock(balance, quality, units, CHOOSE b \in eligible : b.id = s) ELSE 0]
  BY DEF planUnitAllocation, base, eligible
<1>5. ASSUME NEW s \in S
      PROVE  /\ allocation[s] \in Nat
             /\ s = 0 => allocation[s] = base
             /\ s # 0 /\ allocation[s] > 0 =>
                  \E b \in balance.blocks :
                    b.id = s /\ b.quality = quality /\ b.left > 0 /\ allocation[s] <= b.left
  <2>1. CASE s = 0
    BY <1>1, <1>4, <2>1
  <2>2. CASE s # 0 /\ \E b \in eligible : b.id = s
    <3> DEFINE b == CHOOSE b \in eligible : b.id = s
    <3>1. b \in eligible /\ b.id = s
      BY <2>2
    <3>2. allocation[s] = FromBlock(balance, quality, units, b)
      BY <1>4, <2>2
    <3> HIDE DEF b
    <3>3. /\ FromBlock(balance, quality, units, b) \in Nat
          /\ FromBlock(balance, quality, units, b) <= b.left
      BY <1>3, <3>1
    <3>4. b \in balance.blocks /\ b.quality = quality /\ b.left > 0
      BY <1>2, <3>1
    <3> QED BY <2>2, <3>1, <3>2, <3>3, <3>4
  <2>3. CASE s # 0 /\ ~\E b \in eligible : b.id = s
    BY <1>4, <2>3
  <2> QED BY <2>1, <2>2, <2>3
<1>6. allocation \in [S -> Nat]
  <2>1. \A s \in S : allocation[s] \in Nat
    BY <1>5
  <2> QED BY <1>4, <2>1
<1>7. 0 \in S =>
        /\ allocation[0] <= Larger(0, balance.base)
        /\ quality = "HIGH_QUALITY" => allocation[0] <= Larger(0, balance.highQuality)
  BY <1>1, <1>5
<1> QED BY <1>5, <1>6, <1>7

LEMMA RequiredUnits ==
  ASSUME NEW seconds \in Nat
  PROVE  requiredUnitsFor(seconds) \in Nat
BY DEF requiredUnitsFor, SECONDS_PER_VIDEO_UNIT

LEMMA OrderOfProject ==
  ASSUME NEW p \in Project
  PROVE  OrderOf[p].quality \in Tier /\ requiredUnitsFor(OrderOf[p].seconds) \in Nat
         /\ PropertyOf[p] \in Property
<1>1. OrderOf[p] \in [quality : Tier, seconds : Nat \ {0}] /\ PropertyOf[p] \in Property
  BY LedgerAssumption DEF LedgerAssumption
<1> QED BY <1>1, RequiredUnits

-----------------------------------------------------------------------------
(***************************************************************************)
(* Steps.                                                                  *)
(***************************************************************************)

BoundsFit == Len(purchase) <= Purchases

\* A request as its transaction begins: about rows that exist, in a period that is
\* opened now.
Made(r) ==
  /\ r \in Requests /\ r.kind # "IDLE"
  /\ r.kind \in {"START", "APPROVE"} =>
       /\ subscription # NoSubscription
       /\ subscription.anchorAt <= clock
       /\ r.at = clock
       /\ r.period = renewalPeriodAt(subscription.anchorAt, clock).index
       /\ opened' = opened \cup {r.period}
  /\ r.kind \notin {"START", "APPROVE"} => opened' = opened
  /\ r.kind \in JobKinds => r.job \in Started
  /\ r.kind = "CANCEL" => r.purchase \in Bought

\* A transaction begins, and nothing else happens but that its period is opened.
Began(c) ==
  /\ ~Active(c) /\ held' = held /\ UNCHANGED <<clock, people, subscription, purchase, job>>
  /\ request' \in [Client -> Requests]
  /\ Made(request'[c]) /\ \A d \in Client : d # c => request'[d] = request[d]

\* The calendar reaches over what transactions read.
LEMMA ClockIsKnown ==
  ASSUME TypeOK
  PROVE  /\ Known(clock) /\ clock \in Nat
         /\ subscription # NoSubscription /\ subscription.anchorAt <= clock =>
              Known(subscription.anchorAt)
<1>1. clock \in Nat /\ FirstDay <= clock /\ clock <= LastDay
  BY LedgerAssumption DEF TypeOK, LedgerAssumption
<1>2. MonthStart[1] \in Int /\ MonthStart[Len(MonthStart) - 1] \in Int
  BY Calendar
<1>3. Known(clock)
  BY <1>1, <1>2, ClockAssumption, LedgerAssumption DEF Known, ClockAssumption, LedgerAssumption
<1>4. ASSUME subscription # NoSubscription, subscription.anchorAt <= clock
      PROVE  Known(subscription.anchorAt)
  <2>1. subscription.anchorAt \in Nat /\ MonthStart[1] <= subscription.anchorAt
    BY <1>4, PlanOfContract
  <2> QED BY <1>1, <1>2, <1>3, <1>4, <2>1 DEF Known
<1> QED BY <1>1, <1>3, <1>4

LEMMA AskedRequest ==
  ASSUME TypeOK, NEW c \in Client, NEW r, Ask(c, r)
  PROVE  /\ ~Active(c) /\ held' = held /\ UNCHANGED <<clock, people>>
         /\ request'[c] = r /\ \A d \in Client : d # c => request'[d] = request[d]
         /\ r \in Requests => request' \in [Client -> Requests]
BY DEF Ask, TypeOK

LEMMA AskingMakes ==
  ASSUME TypeOK, NEW c \in Client, Asking(c)
  PROVE  Began(c)
<1>1. \A s \in Source : [t \in Source |-> 0] \in [Source -> Nat]
  OBVIOUS
<1>2. clock \in Nat
  BY ClockIsKnown
<1>3. subscription # NoSubscription /\ subscription.anchorAt <= clock =>
        renewalPeriodAt(subscription.anchorAt, clock).index \in Int
  BY ClockIsKnown, PeriodIsFound DEF Dated
<1>4. ASSUME NEW p \in Project, NEW k \in KeysOf[p], AskStart(c, p, k)
      PROVE  Began(c)
  <2> DEFINE r == [kind |-> "START", project |-> p, key |-> k, at |-> clock,
                   period |-> renewalPeriodAt(subscription.anchorAt, clock).index,
                   seen |-> [s \in Source |-> 0]]
  <2>1. /\ subscription # NoSubscription /\ subscription.anchorAt <= clock
        /\ Ask(c, r) /\ UNCHANGED <<subscription, purchase, job>>
        /\ opened' = opened \cup {renewalPeriodAt(subscription.anchorAt, clock).index}
    BY <1>4 DEF AskStart, SubscriptionStarted, Renewed
  <2>2. k \in Key
    BY LedgerAssumption DEF LedgerAssumption
  <2>3. r \in Starts
    BY <1>2, <1>3, <2>1, <2>2 DEF Starts
  <2>4. /\ r \in Requests /\ r.kind = "START" /\ r.at = clock
        /\ r.period = renewalPeriodAt(subscription.anchorAt, clock).index
    BY <2>3 DEF Requests
  <2> HIDE DEF r
  <2>5. Made(r)
    BY <2>1, <2>4 DEF Made, JobKinds
  <2> QED BY <2>1, <2>4, <2>5, AskedRequest DEF Began
<1>5. ASSUME NEW q \in Wanted, NEW k \in PurchaseKey, AskApprove(c, q, k)
      PROVE  Began(c)
  <2> DEFINE r == [kind |-> "APPROVE", quality |-> q, key |-> k, at |-> clock,
                   period |-> renewalPeriodAt(subscription.anchorAt, clock).index]
  <2>1. /\ subscription # NoSubscription /\ ~(clock < subscription.anchorAt)
        /\ Ask(c, r) /\ UNCHANGED <<subscription, purchase, job>>
        /\ opened' = opened \cup {renewalPeriodAt(subscription.anchorAt, clock).index}
    BY <1>5 DEF AskApprove, PurchaseRefused, Renewed
  <2>2. subscription.anchorAt <= clock
    BY <1>2, <2>1, PlanOfContract
  <2>3. r \in Approvals
    BY <1>2, <1>3, <2>1, <2>2 DEF Approvals
  <2>4. /\ r \in Requests /\ r.kind = "APPROVE" /\ r.at = clock
        /\ r.period = renewalPeriodAt(subscription.anchorAt, clock).index
    BY <2>3 DEF Requests
  <2> HIDE DEF r
  <2>5. Made(r)
    BY <2>1, <2>2, <2>4 DEF Made, JobKinds
  <2> QED BY <2>1, <2>4, <2>5, AskedRequest DEF Began
<1>6. ASSUME NEW r, Ask(c, r), UNCHANGED ledger,
             r \in Cancellations \cup Publications \cup Moves \cup Deletions \cup Removals,
             r.kind \in JobKinds => r.job \in Started, r.kind = "CANCEL" => r.purchase \in Bought
      PROVE  Began(c)
  <2>1. r \in Requests /\ r.kind \notin {"IDLE", "START", "APPROVE"}
    BY <1>6 DEF Requests, Cancellations, Publications, Moves, Deletions, Removals, JobKinds
  <2>2. Made(r)
    BY <1>6, <2>1 DEF Made, ledger
  <2> QED BY <1>6, <2>1, <2>2, AskedRequest DEF ledger, Began
<1>7. ASSUME NEW u \in Bought, NEW f \in {"VTAVISION", "CUSTOMER"}, AskCancel(c, u, f)
      PROVE  Began(c)
  <2> DEFINE r == [kind |-> "CANCEL", purchase |-> u, fault |-> f, at |-> clock]
  <2>1. r \in Cancellations /\ r.kind = "CANCEL" /\ r.purchase = u
    BY <1>2, Rows DEF Cancellations
  <2>2. Ask(c, r) /\ UNCHANGED ledger
    BY <1>7 DEF AskCancel
  <2> HIDE DEF r
  <2> QED BY <1>6, <2>1, <2>2 DEF JobKinds
<1>8. ASSUME NEW j \in Started,
             \/ AskLaunch(c, j) \/ AskEndWaiting(c, j) \/ AskEndLaunched(c, j) \/ AskFail(c, j)
      PROVE  Began(c)
  <2>1. PICK k \in JobKinds \ {"PUBLISH"} : Ask(c, [kind |-> k, job |-> j]) /\ UNCHANGED ledger
    <3>1. CASE AskLaunch(c, j)
      <4>1. "LAUNCH" \in JobKinds \ {"PUBLISH"}
        BY DEF JobKinds
      <4> QED BY <3>1, <4>1 DEF AskLaunch
    <3>2. CASE AskEndWaiting(c, j)
      <4>1. "END_WAITING" \in JobKinds \ {"PUBLISH"}
        BY DEF JobKinds
      <4> QED BY <3>2, <4>1 DEF AskEndWaiting
    <3>3. CASE AskEndLaunched(c, j)
      <4>1. "END_LAUNCHED" \in JobKinds \ {"PUBLISH"}
        BY DEF JobKinds
      <4> QED BY <3>3, <4>1 DEF AskEndLaunched
    <3>4. CASE AskFail(c, j)
      <4>1. "FAIL" \in JobKinds \ {"PUBLISH"}
        BY DEF JobKinds
      <4> QED BY <3>4, <4>1 DEF AskFail
    <3> QED BY <1>8, <3>1, <3>2, <3>3, <3>4
  <2> DEFINE r == [kind |-> k, job |-> j]
  <2>2. r \in Moves /\ r.job = j /\ r.kind # "CANCEL"
    BY Rows DEF Moves, JobKinds
  <2>3. Ask(c, r) /\ UNCHANGED ledger
    BY <2>1
  <2> HIDE DEF r
  <2> QED BY <1>6, <2>2, <2>3
<1>9. ASSUME NEW j \in Started, AskPublish(c, j)
      PROVE  Began(c)
  <2> DEFINE r == [kind |-> "PUBLISH", job |-> j, seen |-> FALSE]
  <2>1. r \in Publications /\ r.kind = "PUBLISH" /\ r.job = j
    BY Rows DEF Publications
  <2>2. Ask(c, r) /\ UNCHANGED ledger
    BY <1>9 DEF AskPublish
  <2> HIDE DEF r
  <2> QED BY <1>6, <2>1, <2>2
<1>10. ASSUME NEW p \in Property, AskDelete(c, p)
       PROVE  Began(c)
  <2> DEFINE r == [kind |-> "DELETE", property |-> p]
  <2>1. r \in Deletions /\ r.kind = "DELETE"
    BY DEF Deletions
  <2>2. Ask(c, r) /\ UNCHANGED ledger
    BY <1>10 DEF AskDelete
  <2> HIDE DEF r
  <2> QED BY <1>6, <2>1, <2>2 DEF JobKinds
<1>11. ASSUME AskRemove(c)
       PROVE  Began(c)
  <2> DEFINE r == [kind |-> "REMOVE"]
  <2>1. r \in Removals /\ r.kind = "REMOVE"
    BY DEF Removals
  <2>2. Ask(c, r) /\ UNCHANGED ledger
    BY <1>11 DEF AskRemove
  <2> HIDE DEF r
  <2> QED BY <1>6, <2>1, <2>2 DEF JobKinds
<1> QED BY <1>4, <1>5, <1>7, <1>8, <1>9, <1>10, <1>11 DEF Asking

\* What an allocation a start freezes is made of.
LEMMA AllocationOfStart ==
  ASSUME TypeOK, RequestsFit, BoundsFit, NEW c \in Client, request[c].kind = "START"
  PROVE  LET r == request[c]
             balance == periodEntitlementBalance(r.period)
         IN  /\ AllocationFor(r) \in [Source -> Nat]
             /\ AllocationFor(r)[0] <= Larger(0, balance.base)
             /\ OrderOf[r.project].quality = "HIGH_QUALITY" =>
                  AllocationFor(r)[0] <= Larger(0, balance.highQuality)
             /\ \A s \in Source : s # 0 /\ AllocationFor(r)[s] > 0 =>
                  /\ s \in Bought /\ purchase[s].period = r.period /\ ~Withdrawn(s)
                  /\ purchase[s].quality = OrderOf[r.project].quality
                  /\ AllocationFor(r)[s] <= purchase[s].units - Drawn(Started, s)
<1> DEFINE r == request[c]
           balance == periodEntitlementBalance(r.period)
           quality == OrderOf[r.project].quality
           units == requiredUnitsFor(OrderOf[r.project].seconds)
<1>1. r \in Starts /\ subscription # NoSubscription
  BY RequestOfKind, Rows DEF RequestsFit, RequestFits
<1>2. r.project \in Project /\ r.period \in Int
  BY <1>1 DEF Starts
<1>3. units \in Nat
  BY <1>2, OrderOfProject
<1>4. /\ balance.base \in Int /\ balance.highQuality \in Int /\ IsFiniteSet(balance.blocks)
      /\ \A b \in balance.blocks : b.left \in Int
      /\ balance.blocks = {BlockOf(u) : u \in {v \in Bought : purchase[v].period = r.period}}
  BY <1>1, <1>2, BalanceOfPeriod DEF BoundsFit
<1>5. AllocationFor(r) = planUnitAllocation(balance, quality, units, Source)
  BY DEF AllocationFor
<1> HIDE DEF balance, quality, units
<1> DEFINE allocation == AllocationFor(r)
<1> HIDE DEF allocation
<1>6. /\ allocation \in [Source -> Nat]
      /\ 0 \in Source =>
           /\ allocation[0] <= Larger(0, balance.base)
           /\ quality = "HIGH_QUALITY" => allocation[0] <= Larger(0, balance.highQuality)
      /\ \A s \in Source : s # 0 /\ allocation[s] > 0 =>
           \E b \in balance.blocks :
             b.id = s /\ b.quality = quality /\ b.left > 0 /\ allocation[s] <= b.left
  <2>1. allocation = planUnitAllocation(balance, quality, units, Source)
    BY <1>5 DEF allocation
  <2>2. /\ balance.base \in Int /\ balance.highQuality \in Int /\ IsFiniteSet(balance.blocks)
        /\ \A b \in balance.blocks : b.left \in Int
    BY <1>4
  <2> HIDE DEF Source, r
  <2> QED BY <1>3, <2>1, <2>2, AllocationFits
<1>7. 0 \in Source
  BY LedgerAssumption DEF LedgerAssumption
<1>8. ASSUME NEW s \in Source, s # 0 /\ AllocationFor(r)[s] > 0
      PROVE  /\ s \in Bought /\ purchase[s].period = r.period /\ ~Withdrawn(s)
             /\ purchase[s].quality = quality
             /\ AllocationFor(r)[s] <= purchase[s].units - Drawn(Started, s)
  <2>1. PICK b \in balance.blocks :
          b.id = s /\ b.quality = quality /\ b.left > 0 /\ AllocationFor(r)[s] <= b.left
    BY <1>6, <1>8 DEF allocation
  <2>2. PICK u \in Bought : purchase[u].period = r.period /\ b = BlockOf(u)
    BY <1>4
  <2>3. /\ BlockOf(u).id = u /\ BlockOf(u).quality = purchase[u].quality
        /\ BlockOf(u).left = IF Withdrawn(u) THEN 0 ELSE purchase[u].units - Drawn(Started, u)
    BY DEF BlockOf
  <2>4. u = s /\ ~Withdrawn(u)
    BY <2>1, <2>2, <2>3
  <2> QED BY <2>1, <2>2, <2>3, <2>4
<1> QED BY <1>6, <1>7, <1>8 DEF balance, quality, allocation

\* What a request is after it was decided: the same, but for what it saw.
LEMMA Remembered ==
  ASSUME TypeOK, RequestsFit, BoundsFit, NEW c \in Client, Active(c)
  PROVE  LET r == request[c]
             q == Remembering(r)
         IN  /\ q \in Requests /\ q.kind = r.kind
             /\ r.kind = "START" =>
                  /\ q.project = r.project /\ q.key = r.key /\ q.at = r.at
                  /\ q.period = r.period /\ q.seen = AllocationFor(r)
             /\ r.kind \in JobKinds => q.job = r.job
             /\ r.kind \notin {"START", "PUBLISH"} => q = r
<1> DEFINE r == request[c]
           q == Remembering(r)
<1>1. r \in Requests
  BY Rows
<1>2. CASE r.kind = "START"
  <2>1. r \in Starts
    BY <1>1, <1>2, RequestOfKind
  <2>2. AllocationFor(r) \in [Source -> Nat]
    BY <1>2, AllocationOfStart
  <2>3. q = [r EXCEPT !.seen = AllocationFor(r)]
    BY <1>2 DEF Remembering
  <2>4. /\ q \in Starts /\ q.kind = r.kind /\ q.project = r.project /\ q.key = r.key
        /\ q.at = r.at /\ q.period = r.period /\ q.seen = AllocationFor(r)
    BY <2>1, <2>2, <2>3 DEF Starts
  <2> QED BY <1>2, <2>4 DEF Requests, JobKinds
<1>3. CASE r.kind = "PUBLISH"
  <2>1. r \in Publications
    BY <1>1, <1>3, RequestOfKind
  <2>2. q = [r EXCEPT !.seen = PropertyOfJob(r.job) \in deleted]
    BY <1>3 DEF Remembering
  <2> DEFINE gone == PropertyOfJob(r.job) \in deleted
  <2>3. gone \in BOOLEAN /\ q = [r EXCEPT !.seen = gone]
    BY <2>2
  <2> HIDE DEF gone, q
  <2>4. q \in Publications /\ q.kind = r.kind /\ q.job = r.job
    BY <2>1, <2>3 DEF Publications
  <2> QED BY <1>3, <2>4 DEF Requests, q
<1>4. CASE r.kind \notin {"START", "PUBLISH"}
  BY <1>1, <1>4 DEF Remembering
<1> QED BY <1>2, <1>3, <1>4

\* What a job and a purchase are for is frozen.
RowsStay ==
  /\ Started \subseteq Started'
  /\ \A j \in Started :
       /\ job'[j].project = job[j].project /\ job'[j].key = job[j].key
       /\ job'[j].period = job[j].period /\ job'[j].allocated = job[j].allocated
  /\ Bought \subseteq Bought'
  /\ \A u \in Bought :
       /\ purchase'[u].period = purchase[u].period /\ purchase'[u].quality = purchase[u].quality
       /\ purchase'[u].key = purchase[u].key /\ purchase'[u].units = purchase[u].units
  /\ opened \subseteq opened'
  /\ subscription # NoSubscription => subscription' = subscription

\* A transaction ends.
Ended(c) == Active(c) /\ Finish(c)

LEMMA EndedRequest ==
  ASSUME TypeOK, NEW c \in Client, Finish(c)
  PROVE  /\ request' \in [Client -> Requests] /\ held' \in [Client -> Nat]
         /\ request'[c] = Idle /\ held'[c] = 0
         /\ \A d \in Client : d # c => request'[d] = request[d] /\ held'[d] = held[d]
<1>1. Idle \in Requests
  BY DEF Requests
<1> QED BY <1>1 DEF Finish, TypeOK

\* A start's job has a row of its own.
LEMMA JobStarts ==
  ASSUME TypeOK, NEW r \in Starts, job' = Append(job, StartedJob(r))
  PROVE  /\ StartedJob(r) \in JobRows
         /\ job' \in Seq(JobRows) /\ Started' = Started \cup {Len(job) + 1}
         /\ Len(job) + 1 \notin Started /\ job'[Len(job) + 1] = StartedJob(r)
         /\ \A j \in Started : job'[j] = job[j]
<1>1. StartedJob(r) \in JobRows
  BY DEF StartedJob, JobRows, Starts
<1>2. job \in Seq(JobRows)
  BY DEF TypeOK
<1> DEFINE row == StartedJob(r)
<1> HIDE DEF row
<1>3. row \in JobRows /\ job' = Append(job, row)
  BY <1>1 DEF row
<1>4. \A x \in JobRows : /\ Append(job, x) \in Seq(JobRows)
                         /\ DOMAIN Append(job, x) = DOMAIN job \cup {Len(job) + 1}
                         /\ Len(job) + 1 \notin DOMAIN job
                         /\ \A n \in DOMAIN job : Append(job, x)[n] = job[n]
                         /\ Append(job, x)[Len(job) + 1] = x
  BY <1>2, RowsOfSeq
<1>5. /\ job' \in Seq(JobRows) /\ DOMAIN job' = DOMAIN job \cup {Len(job) + 1}
      /\ Len(job) + 1 \notin DOMAIN job
      /\ \A n \in DOMAIN job : job'[n] = job[n]
      /\ job'[Len(job) + 1] = row
  BY <1>3, <1>4
<1> QED BY <1>1, <1>5 DEF Started, row

\* A purchase has a row of its own.
LEMMA PackageIsBought ==
  ASSUME TypeOK, subscription # NoSubscription, NEW r \in Approvals,
         purchase' = Append(purchase, BoughtPackage(r))
  PROVE  /\ BoughtPackage(r) \in PurchaseRows
         /\ purchase' \in Seq(PurchaseRows) /\ Bought' = Bought \cup {Len(purchase) + 1}
         /\ Len(purchase) + 1 \notin Bought /\ purchase'[Len(purchase) + 1] = BoughtPackage(r)
         /\ \A u \in Bought : purchase'[u] = purchase[u]
<1>1. addOnPackageUnits(subscription.planKey, r.quality) \in Nat
  BY PlanOfContract DEF addOnPackageUnits, PlanFacts
<1>2. BoughtPackage(r) \in PurchaseRows
  BY <1>1 DEF BoughtPackage, PurchaseRows, Approvals
<1>3. purchase \in Seq(PurchaseRows)
  BY DEF TypeOK
<1> DEFINE row == BoughtPackage(r)
<1> HIDE DEF row
<1>4. row \in PurchaseRows /\ purchase' = Append(purchase, row)
  BY <1>2 DEF row
<1>5. \A x \in PurchaseRows :
        /\ Append(purchase, x) \in Seq(PurchaseRows)
        /\ DOMAIN Append(purchase, x) = DOMAIN purchase \cup {Len(purchase) + 1}
        /\ Len(purchase) + 1 \notin DOMAIN purchase
        /\ \A n \in DOMAIN purchase : Append(purchase, x)[n] = purchase[n]
        /\ Append(purchase, x)[Len(purchase) + 1] = x
  BY <1>3, RowsOfSeq
<1>6. /\ purchase' \in Seq(PurchaseRows)
      /\ DOMAIN purchase' = DOMAIN purchase \cup {Len(purchase) + 1}
      /\ Len(purchase) + 1 \notin DOMAIN purchase
      /\ \A n \in DOMAIN purchase : purchase'[n] = purchase[n]
      /\ purchase'[Len(purchase) + 1] = row
  BY <1>4, <1>5
<1> QED BY <1>2, <1>6 DEF Bought, row

\* A cancellation marks its purchase.
LEMMA PackageIsCancelled ==
  ASSUME TypeOK, NEW u \in Bought, NEW fault \in {"VTAVISION", "CUSTOMER"},
         purchase' = [purchase EXCEPT ![u].cancelled = fault]
  PROVE  /\ purchase' \in Seq(PurchaseRows) /\ Bought' = Bought
         /\ purchase'[u] = [purchase[u] EXCEPT !.cancelled = fault]
         /\ \A v \in Bought : v # u => purchase'[v] = purchase[v]
         /\ \A v \in Bought :
              /\ purchase'[v].period = purchase[v].period
              /\ purchase'[v].quality = purchase[v].quality
              /\ purchase'[v].key = purchase[v].key /\ purchase'[v].units = purchase[v].units
<1> DEFINE row == [purchase[u] EXCEPT !.cancelled = fault]
<1>1. purchase \in Seq(PurchaseRows) /\ purchase[u] \in PurchaseRows
  BY Rows DEF TypeOK
<1>2. row \in PurchaseRows /\ row.period = purchase[u].period /\ row.quality = purchase[u].quality
      /\ row.key = purchase[u].key /\ row.units = purchase[u].units
  BY <1>1 DEF PurchaseRows
<1>3. purchase' = [purchase EXCEPT ![u] = row]
  BY <1>1
<1> HIDE DEF row
<1>4. \A n \in DOMAIN purchase, x \in PurchaseRows :
        /\ [purchase EXCEPT ![n] = x] \in Seq(PurchaseRows)
        /\ DOMAIN [purchase EXCEPT ![n] = x] = DOMAIN purchase
  BY <1>1, RowsOfSeq
<1>5. u \in DOMAIN purchase
  BY DEF Bought
<1>6. /\ [purchase EXCEPT ![u] = row] \in Seq(PurchaseRows)
      /\ DOMAIN [purchase EXCEPT ![u] = row] = DOMAIN purchase
  BY <1>2, <1>4, <1>5
<1>7. purchase' \in Seq(PurchaseRows) /\ Bought' = Bought
  BY <1>3, <1>6 DEF Bought
<1>8. purchase'[u] = row /\ \A v \in Bought : v # u => purchase'[v] = purchase[v]
  BY <1>3 DEF Bought
<1>9. \A v \in Bought :
        /\ purchase'[v].period = purchase[v].period /\ purchase'[v].quality = purchase[v].quality
        /\ purchase'[v].key = purchase[v].key /\ purchase'[v].units = purchase[v].units
  BY <1>2, <1>8
<1>10. purchase'[u] = [purchase[u] EXCEPT !.cancelled = fault]
  BY <1>8 DEF row
<1> QED BY <1>7, <1>8, <1>9, <1>10

-----------------------------------------------------------------------------
JobWriter(c) ==
  WriteLaunch(c) \/ WritePublish(c) \/ WriteFail(c) \/ WriteEndWaiting(c) \/ WriteEndLaunched(c)

\* Where the transactions that decide about a job may take it.
Outcomes ==
  {<<"LAUNCH", "GENERATING", "RESERVED">>, <<"PUBLISH", "DELIVERABLE_READY", "CONSUMED">>,
   <<"PUBLISH", "FAILED_TERMINAL", "RELEASED">>, <<"FAIL", "FAILED_TERMINAL", "RELEASED">>,
   <<"END_WAITING", "FAILED_TERMINAL", "RELEASED">>,
   <<"END_LAUNCHED", "FAILED_TERMINAL", "RELEASED">>}

LEMMA JobIsWritten ==
  ASSUME TypeOK, RequestsFit, NEW c \in Client, JobWriter(c)
  PROVE  /\ Decided(c) /\ Active(c) /\ Finish(c)
         /\ request[c].kind \in JobKinds /\ request[c].job \in Started
         /\ UNCHANGED <<subscription, opened, purchase, people>>
         /\ \E o \in Outcomes :
              o[1] = request[c].kind /\ job' = Moved(job, request[c].job, o[2], o[3])
<1> DEFINE To(o) == job' = Moved(job, request[c].job, o[2], o[3])
<1>1. ASSUME WriteLaunch(c)
      PROVE  Writes(c, "LAUNCH") /\ To(<<"LAUNCH", "GENERATING", "RESERVED">>)
             /\ UNCHANGED <<subscription, opened, purchase, people>>
  BY <1>1 DEF WriteLaunch, JobBecomes, Moved
<1>2. ASSUME WritePublish(c)
      PROVE  Writes(c, "PUBLISH") /\ UNCHANGED <<subscription, opened, purchase, people>>
             /\ \/ To(<<"PUBLISH", "FAILED_TERMINAL", "RELEASED">>)
                \/ To(<<"PUBLISH", "DELIVERABLE_READY", "CONSUMED">>)
  BY <1>2 DEF WritePublish, JobBecomes, Moved
<1>3. ASSUME WriteFail(c)
      PROVE  Writes(c, "FAIL") /\ To(<<"FAIL", "FAILED_TERMINAL", "RELEASED">>)
             /\ UNCHANGED <<subscription, opened, purchase, people>>
  BY <1>3 DEF WriteFail, JobBecomes, Moved
<1>4. ASSUME WriteEndWaiting(c)
      PROVE  Writes(c, "END_WAITING") /\ To(<<"END_WAITING", "FAILED_TERMINAL", "RELEASED">>)
             /\ UNCHANGED <<subscription, opened, purchase, people>>
  BY <1>4 DEF WriteEndWaiting, JobBecomes, Moved
<1>5. ASSUME WriteEndLaunched(c)
      PROVE  Writes(c, "END_LAUNCHED") /\ To(<<"END_LAUNCHED", "FAILED_TERMINAL", "RELEASED">>)
             /\ UNCHANGED <<subscription, opened, purchase, people>>
  BY <1>5 DEF WriteEndLaunched, JobBecomes, Moved
<1> HIDE DEF To
<1>6. PICK k \in JobKinds :
        /\ Writes(c, k) /\ UNCHANGED <<subscription, opened, purchase, people>>
        /\ \E o \in Outcomes : o[1] = k /\ To(o)
  <2>1. ASSUME NEW o \in Outcomes, Writes(c, o[1]), To(o),
               UNCHANGED <<subscription, opened, purchase, people>>
        PROVE  \E k \in JobKinds :
                 /\ Writes(c, k) /\ UNCHANGED <<subscription, opened, purchase, people>>
                 /\ \E p \in Outcomes : p[1] = k /\ To(p)
    <3>1. o[1] \in JobKinds
      BY DEF Outcomes, JobKinds
    <3> QED BY <2>1, <3>1
  <2>2. /\ <<"LAUNCH", "GENERATING", "RESERVED">> \in Outcomes
        /\ <<"PUBLISH", "FAILED_TERMINAL", "RELEASED">> \in Outcomes
        /\ <<"PUBLISH", "DELIVERABLE_READY", "CONSUMED">> \in Outcomes
        /\ <<"FAIL", "FAILED_TERMINAL", "RELEASED">> \in Outcomes
        /\ <<"END_WAITING", "FAILED_TERMINAL", "RELEASED">> \in Outcomes
        /\ <<"END_LAUNCHED", "FAILED_TERMINAL", "RELEASED">> \in Outcomes
    BY DEF Outcomes
  <2>3. CASE WriteLaunch(c)
    BY <1>1, <2>1, <2>2, <2>3
  <2>4. CASE WritePublish(c)
    BY <1>2, <2>1, <2>2, <2>4
  <2>5. CASE WriteFail(c)
    BY <1>3, <2>1, <2>2, <2>5
  <2>6. CASE WriteEndWaiting(c)
    BY <1>4, <2>1, <2>2, <2>6
  <2>7. CASE WriteEndLaunched(c)
    BY <1>5, <2>1, <2>2, <2>7
  <2> QED BY <2>3, <2>4, <2>5, <2>6, <2>7 DEF JobWriter
<1>7. request[c].kind = k /\ Decided(c) /\ Active(c) /\ Finish(c)
  BY <1>6 DEF Writes, Decided
<1>8. request[c].job \in Started
  BY <1>7 DEF RequestsFit, RequestFits
<1> QED BY <1>6, <1>7, <1>8 DEF To

LEMMA OutcomeRows ==
  ASSUME NEW o \in Outcomes
  PROVE  /\ o[2] \in {"GENERATING", "DELIVERABLE_VALIDATING", "DELIVERABLE_READY",
                      "FAILED_TERMINAL"}
         /\ o[3] \in {"RESERVED", "CONSUMED", "RELEASED"}
         /\ o[2] = "GENERATING" <=> o[1] = "LAUNCH"
         /\ o[2] = "GENERATING" => o[3] = "RESERVED"
         /\ o[2] = "DELIVERABLE_READY" => o[1] = "PUBLISH" /\ o[3] = "CONSUMED"
         /\ o[2] = "FAILED_TERMINAL" => o[3] = "RELEASED"
         /\ o[2] # "DELIVERABLE_VALIDATING"
BY DEF Outcomes

\* A job that moves keeps what it is for.
LEMMA WrittenRows ==
  ASSUME TypeOK, RequestsFit, NEW c \in Client, JobWriter(c)
  PROVE  LET j == request[c].job IN
         /\ j \in Started /\ job' \in Seq(JobRows) /\ Started' = Started
         /\ \A i \in Started : i # j => job'[i] = job[i]
         /\ \A i \in Started : /\ job'[i].project = job[i].project /\ job'[i].key = job[i].key
                               /\ job'[i].period = job[i].period
                               /\ job'[i].allocated = job[i].allocated
         /\ <<request[c].kind, job'[j].state, job'[j].reservation>> \in Outcomes
<1> DEFINE j == request[c].job
<1>1. PICK o \in Outcomes : o[1] = request[c].kind /\ job' = Moved(job, j, o[2], o[3])
  BY JobIsWritten
<1>2. j \in Started
  BY JobIsWritten
<1>3. o = <<o[1], o[2], o[3]>>
  BY DEF Outcomes
<1> HIDE DEF j
<1>4. /\ o[2] \in {"GENERATING", "DELIVERABLE_VALIDATING", "DELIVERABLE_READY",
                   "FAILED_TERMINAL"}
      /\ o[3] \in {"RESERVED", "CONSUMED", "RELEASED"}
  BY OutcomeRows
<1>5. /\ job' \in Seq(JobRows) /\ Started' = Started
      /\ \A i \in Started : j # i => job'[i] = job[i]
      /\ job'[j].state = o[2] /\ job'[j].reservation = o[3]
      /\ \A i \in Started : /\ job'[i].project = job[i].project /\ job'[i].key = job[i].key
                            /\ job'[i].period = job[i].period
                            /\ job'[i].allocated = job[i].allocated
  BY <1>1, <1>2, <1>4, JobMoves
<1> QED BY <1>1, <1>2, <1>3, <1>5 DEF j

\* The pipeline moves a job, without its reservation.
LEMMA PipelineRows ==
  ASSUME TypeOK, NEW j \in Started, Assembled(j) \/ Revise(j)
  PROVE  /\ job' \in Seq(JobRows) /\ Started' = Started
         /\ \A i \in Started : i # j => job'[i] = job[i]
         /\ \A i \in Started : /\ job'[i].project = job[i].project /\ job'[i].key = job[i].key
                               /\ job'[i].period = job[i].period
                               /\ job'[i].allocated = job[i].allocated
                               /\ job'[i].reservation = job[i].reservation
         /\ \/ /\ job[j].state = "GENERATING" /\ job[j].reservation = "RESERVED"
               /\ job'[j].state = "DELIVERABLE_VALIDATING"
            \/ job[j].state = "DELIVERABLE_READY" /\ job'[j].state = "GENERATING"
            \/ /\ job[j].state = "GENERATING" /\ job[j].reservation # "RESERVED"
               /\ job'[j].state = "DELIVERABLE_READY"
         /\ UNCHANGED <<clock, subscription, opened, purchase, people, request, held>>
<1>1. PICK state \in {"GENERATING", "DELIVERABLE_VALIDATING", "DELIVERABLE_READY"} :
        /\ job' = [job EXCEPT ![j].state = state]
        /\ \/ /\ job[j].state = "GENERATING" /\ job[j].reservation = "RESERVED"
              /\ state = "DELIVERABLE_VALIDATING"
           \/ job[j].state = "DELIVERABLE_READY" /\ state = "GENERATING"
           \/ /\ job[j].state = "GENERATING" /\ job[j].reservation # "RESERVED"
              /\ state = "DELIVERABLE_READY"
        /\ UNCHANGED <<clock, subscription, opened, purchase, people, request, held>>
  <2>1. CASE Assembled(j)
    BY <2>1 DEF Assembled, IsFirstVideo
  <2>2. CASE Revise(j)
    BY <2>2 DEF Revise, IsFirstVideo
  <2> QED BY <2>1, <2>2
<1>2. job[j] \in JobRows /\ job \in Seq(JobRows) /\ Started = 1..Len(job)
  BY Rows DEF TypeOK
<1>3. job' = Moved(job, j, state, job[j].reservation)
  <2> DEFINE row == [job[j] EXCEPT !.state = state]
  <2>1. row \in JobRows /\ row = [row EXCEPT !.reservation = job[j].reservation]
    <3>1. row \in JobRows /\ row.reservation = job[j].reservation
      BY <1>2 DEF JobRows
    <3> HIDE DEF row
    <3> QED BY <3>1 DEF JobRows
  <2>2. job' = [job EXCEPT ![j].state = state]
    BY <1>1
  <2>3. job' = [job EXCEPT ![j] = row]
    BY <1>2, <2>2
  <2>4. Moved(job, j, state, job[j].reservation)
          = [job EXCEPT ![j] = [row EXCEPT !.reservation = job[j].reservation]]
    BY <1>2 DEF Moved
  <2> QED BY <2>1, <2>3, <2>4
<1>4. job[j].reservation \in {"RESERVED", "CONSUMED", "RELEASED"}
  BY <1>2 DEF JobRows
<1>5. /\ job' \in Seq(JobRows) /\ Started' = Started
      /\ \A i \in Started : i # j => job'[i] = job[i]
      /\ job'[j].state = state /\ job'[j].reservation = job[j].reservation
      /\ \A i \in Started : /\ job'[i].project = job[i].project /\ job'[i].key = job[i].key
                            /\ job'[i].period = job[i].period
                            /\ job'[i].allocated = job[i].allocated
  BY <1>3, <1>4, JobMoves
<1> QED BY <1>1, <1>5

-----------------------------------------------------------------------------
\* A transaction is where it was, or it is the one that acts.
Same(c) == request'[c] = request[c] /\ held'[c] = held[c]
Acts(c) == Began(c) \/ TakeLock(c) \/ Decide(c) \/ Ended(c)

LEMMA ClientSteps ==
  ASSUME TypeOK, [Next]_vars
  PROVE  \/ \A c \in Client : Same(c)
         \/ \E c \in Client : Acts(c) /\ \A d \in Client \ {c} : Same(d)
<1>1. CASE UNCHANGED <<request, held>>
  BY <1>1 DEF Same
<1>2. ASSUME NEW c \in Client, Asking(c)
      PROVE  Acts(c) /\ \A d \in Client \ {c} : Same(d)
  <2>1. Began(c)
    BY <1>2, AskingMakes
  <2> QED BY <2>1 DEF Acts, Same, Began
<1>3. ASSUME NEW c \in Client, TakeLock(c)
      PROVE  Acts(c) /\ \A d \in Client \ {c} : Same(d)
  BY <1>3 DEF Acts, Same, TakeLock, TypeOK
<1>4. ASSUME NEW c \in Client, Decide(c)
      PROVE  Acts(c) /\ \A d \in Client \ {c} : Same(d)
  BY <1>4 DEF Acts, Same, Decide, TypeOK
<1>5. ASSUME NEW c \in Client, Ended(c)
      PROVE  Acts(c) /\ \A d \in Client \ {c} : Same(d)
  <2>1. \A d \in Client : d # c => request'[d] = request[d] /\ held'[d] = held[d]
    BY <1>5, EndedRequest DEF Ended
  <2> QED BY <1>5, <2>1 DEF Acts, Same
<1>6. ASSUME NEW c \in Client, Refuse(c) \/ Writing(c) PROVE Ended(c)
  <2>1. CASE Refuse(c)
    BY <2>1 DEF Refuse, Ended, Granted, Decided
  <2>2. CASE Writing(c)
    BY <2>2 DEF Writing, WriteStart, WriteApprove, WriteCancel, WriteLaunch, WritePublish,
       WriteFail, WriteEndWaiting, WriteEndLaunched, WriteDelete, WriteRemove, Writes, Ended,
       Decided
  <2> QED BY <1>6, <2>1, <2>2
<1>7. CASE Tick
  BY <1>1, <1>7 DEF Tick
<1>8. CASE \E offer \in Offer : Provision(offer)
  BY <1>1, <1>8 DEF Provision
<1>9. CASE \E j \in Started : Assembled(j) \/ Revise(j)
  BY <1>1, <1>9 DEF Assembled, Revise
<1>10. CASE \E c \in Client : Asking(c) \/ TakeLock(c) \/ Decide(c) \/ Refuse(c) \/ Writing(c)
  <2>1. PICK c \in Client : Asking(c) \/ TakeLock(c) \/ Decide(c) \/ Refuse(c) \/ Writing(c)
    BY <1>10
  <2>2. Acts(c) /\ \A d \in Client \ {c} : Same(d)
    BY <1>2, <1>3, <1>4, <1>5, <1>6, <2>1
  <2> QED BY <2>2
<1>11. CASE UNCHANGED vars
  BY <1>1, <1>11 DEF vars
<1> QED BY <1>7, <1>8, <1>9, <1>10, <1>11 DEF Next

\* Transactions that only end leave the requests well formed.
LEMMA RequestsAreTyped ==
  ASSUME TypeOK, RequestsFit, BoundsFit, [Next]_vars
  PROVE  request' \in [Client -> Requests] /\ held' \in [Client -> Nat]
<1>1. CASE UNCHANGED <<request, held>>
  BY <1>1 DEF TypeOK
<1>2. ASSUME NEW c \in Client, Asking(c)
      PROVE  request' \in [Client -> Requests] /\ held' \in [Client -> Nat]
  BY <1>2, AskingMakes DEF Began, TypeOK
<1>3. ASSUME NEW c \in Client, TakeLock(c)
      PROVE  request' \in [Client -> Requests] /\ held' \in [Client -> Nat]
  BY <1>3 DEF TakeLock, TypeOK
<1>4. ASSUME NEW c \in Client, Decide(c)
      PROVE  request' \in [Client -> Requests] /\ held' \in [Client -> Nat]
  <2>1. Active(c) /\ request' = [request EXCEPT ![c] = Remembering(request[c])]
        /\ held' = [held EXCEPT ![c] = held[c] + 1]
    BY <1>4 DEF Decide, Granted
  <2>2. Remembering(request[c]) \in Requests
    BY <2>1, Remembered
  <2> QED BY <2>1, <2>2 DEF TypeOK
<1>5. ASSUME NEW c \in Client, Finish(c)
      PROVE  request' \in [Client -> Requests] /\ held' \in [Client -> Nat]
  BY <1>5, EndedRequest
<1>6. ASSUME NEW c \in Client, Refuse(c) \/ Writing(c) PROVE Finish(c)
  BY <1>6 DEF Refuse, Writing, WriteStart, WriteApprove, WriteCancel, WriteLaunch, WritePublish,
     WriteFail, WriteEndWaiting, WriteEndLaunched, WriteDelete, WriteRemove, Writes
<1>7. CASE Tick
  BY <1>1, <1>7 DEF Tick
<1>8. CASE \E offer \in Offer : Provision(offer)
  BY <1>1, <1>8 DEF Provision
<1>9. CASE \E j \in Started : Assembled(j) \/ Revise(j)
  BY <1>1, <1>9 DEF Assembled, Revise
<1>10. CASE \E c \in Client : Asking(c) \/ TakeLock(c) \/ Decide(c) \/ Refuse(c) \/ Writing(c)
  BY <1>2, <1>3, <1>4, <1>5, <1>6, <1>10
<1>11. CASE UNCHANGED vars
  BY <1>1, <1>11 DEF vars
<1> QED BY <1>7, <1>8, <1>9, <1>10, <1>11 DEF Next

\* The rows keep their types and what they are for, whatever happens.
LEMMA RowsAreTyped ==
  ASSUME TypeOK, RequestsFit, BoundsFit, [Next]_vars
  PROVE  TypeOK' /\ RowsStay
<1>1. request' \in [Client -> Requests] /\ held' \in [Client -> Nat]
  BY RequestsAreTyped
<1> DEFINE Typed == /\ clock' \in Day /\ subscription' \in {NoSubscription} \cup Offer
                    /\ opened' \subseteq Int /\ purchase' \in Seq(PurchaseRows)
                    /\ job' \in Seq(JobRows) /\ deleted' \subseteq Property /\ approver' \in BOOLEAN
                    /\ RowsStay
<1> SUFFICES Typed
  BY <1>1 DEF TypeOK
<1>2. CASE UNCHANGED <<subscription, opened, purchase, job>> /\ clock' \in Day
           /\ deleted' \subseteq Property /\ approver' \in BOOLEAN
  BY <1>2 DEF TypeOK, RowsStay, Started, Bought
<1>3. /\ UNCHANGED clock => clock' \in Day
      /\ UNCHANGED people => deleted' \subseteq Property /\ approver' \in BOOLEAN
  BY DEF TypeOK, people
<1>4. CASE Tick
  <2>1. clock' \in Day
    BY <1>4, LedgerAssumption DEF Tick, TypeOK, LedgerAssumption
  <2> QED BY <1>2, <1>3, <1>4, <2>1 DEF Tick, ledger
<1>5. CASE \E offer \in Offer : Provision(offer)
  BY <1>3, <1>5 DEF Provision, TypeOK, RowsStay, Started, Bought
<1>6. ASSUME NEW j \in Started, Assembled(j) \/ Revise(j) PROVE Typed
  <2>1. /\ job' \in Seq(JobRows) /\ Started' = Started
        /\ \A i \in Started : /\ job'[i].project = job[i].project /\ job'[i].key = job[i].key
                              /\ job'[i].period = job[i].period
                              /\ job'[i].allocated = job[i].allocated
        /\ UNCHANGED <<clock, subscription, opened, purchase, people>>
    BY <1>6, PipelineRows
  <2> QED BY <1>3, <2>1 DEF TypeOK, RowsStay, Bought
<1>7. ASSUME NEW c \in Client, Asking(c) PROVE Typed
  <2>1. Began(c)
    BY <1>7, AskingMakes
  <2>2. request'[c] \in Requests
    BY <1>1
  <2>3. opened' \subseteq Int /\ opened \subseteq opened'
    <3>1. CASE request'[c].kind \in {"START", "APPROVE"}
      <4>1. request'[c].period \in Int
        BY <2>2, <3>1, RequestOfKind DEF Starts, Approvals
      <4> QED BY <2>1, <3>1, <4>1 DEF Began, Made, TypeOK
    <3>2. CASE request'[c].kind \notin {"START", "APPROVE"}
      BY <2>1, <3>2 DEF Began, Made, TypeOK
    <3> QED BY <3>1, <3>2
  <2> QED BY <1>3, <2>1, <2>3 DEF Began, TypeOK, RowsStay, Started, Bought
<1>8. ASSUME NEW c \in Client, TakeLock(c) \/ Decide(c) \/ Refuse(c) PROVE Typed
  <2>1. UNCHANGED <<clock, ledger, people>>
    BY <1>8 DEF TakeLock, Decide, Refuse, Finish
  <2> QED BY <1>2, <1>3, <2>1 DEF ledger
<1>9. ASSUME NEW c \in Client, WriteStart(c) PROVE Typed
  <2>1. request[c].kind = "START" /\ job' = Append(job, StartedJob(request[c]))
        /\ UNCHANGED <<clock, subscription, opened, purchase, people>>
    BY <1>9 DEF WriteStart, Writes, Finish
  <2>2. request[c] \in Starts
    BY <2>1, Rows, RequestOfKind
  <2>3. job' \in Seq(JobRows) /\ Started \subseteq Started' /\ \A j \in Started : job'[j] = job[j]
    BY <2>1, <2>2, JobStarts
  <2> QED BY <1>3, <2>1, <2>3 DEF TypeOK, RowsStay, Bought
<1>10. ASSUME NEW c \in Client, WriteApprove(c) PROVE Typed
  <2>1. request[c].kind = "APPROVE" /\ purchase' = Append(purchase, BoughtPackage(request[c]))
        /\ UNCHANGED <<clock, subscription, opened, job, people>>
    BY <1>10 DEF WriteApprove, Writes, Finish
  <2>2. request[c] \in Approvals /\ subscription # NoSubscription
    BY <2>1, Rows, RequestOfKind DEF RequestsFit, RequestFits
  <2>3. /\ purchase' \in Seq(PurchaseRows) /\ Bought \subseteq Bought'
        /\ \A u \in Bought : purchase'[u] = purchase[u]
    BY <2>1, <2>2, PackageIsBought
  <2> QED BY <1>3, <2>1, <2>3 DEF TypeOK, RowsStay, Started
<1>11. ASSUME NEW c \in Client, WriteCancel(c) PROVE Typed
  <2>1. /\ request[c].kind = "CANCEL"
        /\ purchase' = [purchase EXCEPT ![request[c].purchase].cancelled = request[c].fault]
        /\ UNCHANGED <<clock, subscription, opened, job, people>>
    BY <1>11 DEF WriteCancel, Writes, Finish
  <2>2. request[c] \in Cancellations /\ request[c].purchase \in Bought
    BY <2>1, Rows, RequestOfKind DEF RequestsFit, RequestFits
  <2> DEFINE u == request[c].purchase
             fault == request[c].fault
  <2>3. u \in Bought /\ fault \in {"VTAVISION", "CUSTOMER"}
        /\ purchase' = [purchase EXCEPT ![u].cancelled = fault]
    BY <2>1, <2>2 DEF Cancellations
  <2> HIDE DEF u, fault
  <2>4. /\ purchase' \in Seq(PurchaseRows) /\ Bought' = Bought
        /\ \A v \in Bought :
             /\ purchase'[v].period = purchase[v].period
             /\ purchase'[v].quality = purchase[v].quality
             /\ purchase'[v].key = purchase[v].key /\ purchase'[v].units = purchase[v].units
    BY <2>3, PackageIsCancelled
  <2> QED BY <1>3, <2>1, <2>4 DEF TypeOK, RowsStay, Started
<1>12. ASSUME NEW c \in Client, JobWriter(c) PROVE Typed
  <2>1. /\ job' \in Seq(JobRows) /\ Started' = Started
        /\ \A i \in Started : /\ job'[i].project = job[i].project /\ job'[i].key = job[i].key
                              /\ job'[i].period = job[i].period
                              /\ job'[i].allocated = job[i].allocated
    BY <1>12, WrittenRows
  <2>2. UNCHANGED <<clock, subscription, opened, purchase, people>>
    BY <1>12, JobIsWritten DEF Finish
  <2> QED BY <1>3, <2>1, <2>2 DEF TypeOK, RowsStay, Bought
<1>13. ASSUME NEW c \in Client, WriteDelete(c) PROVE Typed
  <2>1. request[c].kind = "DELETE" /\ deleted' = deleted \cup {request[c].property}
        /\ UNCHANGED <<clock, ledger, approver>>
    BY <1>13 DEF WriteDelete, Writes, Finish
  <2>2. request[c].property \in Property
    BY <2>1, Rows, RequestOfKind DEF Deletions
  <2> QED BY <1>2, <1>3, <2>1, <2>2 DEF ledger, TypeOK
<1>14. ASSUME NEW c \in Client, WriteRemove(c) PROVE Typed
  <2>1. approver' = FALSE /\ UNCHANGED <<clock, ledger, deleted>>
    BY <1>14 DEF WriteRemove, Writes, Finish
  <2> QED BY <1>2, <1>3, <2>1 DEF ledger, TypeOK
<1>15. CASE UNCHANGED vars
  BY <1>2, <1>3, <1>15 DEF vars, ledger
<1>16. CASE \E c \in Client : Asking(c) \/ TakeLock(c) \/ Decide(c) \/ Refuse(c) \/ Writing(c)
  <2>1. PICK c \in Client :
          Asking(c) \/ TakeLock(c) \/ Decide(c) \/ Refuse(c) \/ Writing(c)
    BY <1>16
  <2>2. Writing(c) => \/ WriteStart(c) \/ WriteApprove(c) \/ WriteCancel(c) \/ JobWriter(c)
                      \/ WriteDelete(c) \/ WriteRemove(c)
    BY DEF Writing, JobWriter
  <2> HIDE DEF Typed
  <2> QED BY <1>7, <1>8, <1>9, <1>10, <1>11, <1>12, <1>13, <1>14, <2>1, <2>2
<1>17. CASE \E j \in Started : Assembled(j) \/ Revise(j)
  BY <1>6, <1>17
<1> HIDE DEF Typed
<1> QED BY <1>4, <1>5, <1>15, <1>16, <1>17 DEF Next

-----------------------------------------------------------------------------
(***************************************************************************)
(* Locks, kind by kind.                                                    *)
(***************************************************************************)

\* How many properties come before one: they are locked in id order.
RankOf(p) == Cardinality({q \in Property : q < p})
Nth(n) == CHOOSE p \in Property : Cardinality({q \in Property : q < p}) = n - 1

LEMMA PropertiesInOrder ==
  /\ Cardinality(Property) \in Nat
  /\ \A p \in Property : RankOf(p) \in Nat
  /\ \A n \in 1..Cardinality(Property) : Nth(n) \in Property /\ RankOf(Nth(n)) = n - 1
<1> DEFINE size == Cardinality(Property)
           before(p) == {q \in Property : q < p}
           rank == [p \in Property |-> RankOf(p)]
<1>1. IsFiniteSet(Property) /\ Property \subseteq Nat /\ size \in Nat
  BY FS_CardinalityType, LedgerAssumption DEF LedgerAssumption
<1> HIDE DEF size
<1>2. ASSUME NEW p \in Property PROVE IsFiniteSet(before(p)) /\ RankOf(p) \in Nat
  <2>1. IsFiniteSet(before(p))
    BY <1>1, FS_Subset
  <2> QED BY <2>1, FS_CardinalityType DEF RankOf
<1>3. ASSUME NEW p \in Property, NEW S \in SUBSET Property, before(p) \cup {p} \subseteq S
      PROVE  RankOf(p) + 1 <= Cardinality(S)
  <2>0. IsFiniteSet(S)
    BY <1>1, FS_Subset
  <2>1. p \in Nat /\ p \notin before(p)
    BY <1>1
  <2>2. Cardinality(before(p) \cup {p}) = Cardinality(before(p)) + 1
    BY <1>2, <2>1, FS_AddElement
  <2>3. Cardinality(before(p) \cup {p}) <= Cardinality(S)
    BY <1>3, <2>0, FS_Subset
  <2> QED BY <2>2, <2>3 DEF RankOf
<1>4. ASSUME NEW p \in Property, NEW q \in Property, p < q PROVE RankOf(p) < RankOf(q)
  <2>0. p \in Nat /\ q \in Nat /\ \A x \in Property : x \in Nat
    BY <1>1
  <2>1. before(p) \cup {p} \subseteq before(q)
    <3>1. \A x \in Property : x < p => x < q
      BY <1>4, <2>0
    <3> QED BY <1>4, <3>1
  <2>2. RankOf(p) + 1 <= Cardinality(before(q))
    BY <1>3, <2>1
  <2> QED BY <1>2, <2>2 DEF RankOf
<1>5. ASSUME NEW p \in Property PROVE RankOf(p) \in 0..(size - 1)
  <2>1. RankOf(p) + 1 <= size
    BY <1>3 DEF size
  <2>2. RankOf(p) \in Nat
    BY <1>2
  <2> QED BY <1>1, <2>1, <2>2
<1>6. rank \in Injection(Property, 0..(size - 1))
  <2>1. rank \in [Property -> 0..(size - 1)]
    BY <1>5
  <2>2. ASSUME NEW p \in Property, NEW q \in Property, rank[p] = rank[q] PROVE p = q
    <3>1. p \in Nat /\ q \in Nat /\ RankOf(p) = RankOf(q) /\ RankOf(p) \in Nat
      BY <1>1, <1>2, <2>2
    <3>2. ~(p < q) /\ ~(q < p)
      BY <1>4, <3>1
    <3> QED BY <3>1, <3>2
  <2> QED BY <2>1, <2>2 DEF Injection, IsInjective
<1>7. rank \in Surjection(Property, 0..(size - 1))
  <2>1. 0 \in Int /\ size - 1 \in Int
    BY <1>1
  <2>2. IsFiniteSet(0..(size - 1))
        /\ Cardinality(0..(size - 1)) = IF 0 > size - 1 THEN 0 ELSE (size - 1) - 0 + 1
    BY <2>1, FS_Interval
  <2>3. Cardinality(0..(size - 1)) = size
    BY <1>1, <2>2
  <2> QED BY <1>6, <2>2, <2>3, FS_Injection DEF size
<1>8. ASSUME NEW n \in 1..size PROVE Nth(n) \in Property /\ RankOf(Nth(n)) = n - 1
  <2>1. n - 1 \in 0..(size - 1)
    BY <1>1
  <2>2. \E p \in Property : rank[p] = n - 1
    BY <1>7, <2>1 DEF Surjection
  <2>3. \E p \in Property : Cardinality({q \in Property : q < p}) = n - 1
    BY <2>2 DEF RankOf
  <2> QED BY <2>3 DEF Nth, RankOf
<1> QED BY <1>1, <1>2, <1>8 DEF size

LEMMA LocksByKind ==
  ASSUME NEW r \in Requests
  PROVE  /\ r.kind = "START" => LocksOf(r) = StartLocks(r) /\ Len(StartLocks(r)) = 3
         /\ r.kind = "APPROVE" => LocksOf(r) = ApproveLocks(r) /\ Len(ApproveLocks(r)) = 2
         /\ r.kind = "CANCEL" => LocksOf(r) = CancelLocks(r) /\ Len(CancelLocks(r)) = 1
         /\ r.kind = "LAUNCH" => LocksOf(r) = LaunchLocks(r) /\ Len(LaunchLocks(r)) = 6
         /\ r.kind \in {"PUBLISH", "END_WAITING", "END_LAUNCHED"} =>
              LocksOf(r) = EndLocks(r) /\ Len(EndLocks(r)) = 4
         /\ r.kind = "FAIL" => LocksOf(r) = FailLocks(r) /\ Len(FailLocks(r)) = 3
         /\ r.kind = "DELETE" => LocksOf(r) = DeleteLocks(r) /\ Len(DeleteLocks(r)) = 1
         /\ r.kind = "REMOVE" =>
              /\ Len(LocksOf(r)) = Cardinality(Property) + 1
              /\ LocksOf(r)[1] = Exclusive("membership", "approver")
              /\ \A n \in 1..Cardinality(Property) :
                   LocksOf(r)[n + 1] = Exclusive("property", Nth(n))
<1>1. /\ r.kind = "START" => LocksOf(r) = StartLocks(r)
      /\ r.kind = "APPROVE" => LocksOf(r) = ApproveLocks(r)
      /\ r.kind = "CANCEL" => LocksOf(r) = CancelLocks(r)
      /\ r.kind = "LAUNCH" => LocksOf(r) = LaunchLocks(r)
      /\ r.kind \in {"PUBLISH", "END_WAITING", "END_LAUNCHED"} => LocksOf(r) = EndLocks(r)
      /\ r.kind = "FAIL" => LocksOf(r) = FailLocks(r)
      /\ r.kind = "DELETE" => LocksOf(r) = DeleteLocks(r)
      /\ r.kind = "REMOVE" => LocksOf(r) = RemoveLocks(r)
  BY DEF LocksOf, PublishLocks
<1>2. Len(StartLocks(r)) = 3 /\ Len(ApproveLocks(r)) = 2 /\ Len(CancelLocks(r)) = 1
      /\ Len(LaunchLocks(r)) = 6 /\ Len(EndLocks(r)) = 4 /\ Len(FailLocks(r)) = 3
      /\ Len(DeleteLocks(r)) = 1
  BY DEF StartLocks, ApproveLocks, CancelLocks, LaunchLocks, EndLocks, FailLocks, DeleteLocks
<1>3. /\ Len(RemoveLocks(r)) = Cardinality(Property) + 1
      /\ RemoveLocks(r)[1] = Exclusive("membership", "approver")
      /\ \A n \in 1..Cardinality(Property) :
           RemoveLocks(r)[n + 1] = Exclusive("property", Nth(n))
  <2> DEFINE size == Cardinality(Property)
             row == Exclusive("membership", "approver")
             lock == [n \in 1..size |-> Exclusive("property", Nth(n))]
             L == {row} \cup {Exclusive("property", Nth(n)) : n \in 1..size}
  <2>1. size \in Nat
    BY PropertiesInOrder
  <2> HIDE DEF size
  <2>2. lock \in Seq(L) /\ Len(lock) = size
    <3>1. lock \in [1..size -> L]
      OBVIOUS
    <3>2. lock \in Seq(L)
      BY <2>1, <3>1, SeqDef
    <3>3. DOMAIN lock = 1..size
      OBVIOUS
    <3> HIDE DEF lock, L
    <3> QED BY <2>1, <3>2, <3>3
  <2>3. <<row>> \in Seq(L) /\ Len(<<row>>) = 1 /\ <<row>>[1] = row
    <3>1. row \in L
      OBVIOUS
    <3> HIDE DEF L, row
    <3> QED BY <3>1
  <2>4. RemoveLocks(r) = <<row>> \o lock
    BY DEF RemoveLocks, Nth, size
  <2> HIDE DEF row, L
  <2>5. \A n \in 1..size : lock[n] = Exclusive("property", Nth(n))
    OBVIOUS
  <2> HIDE DEF lock
  <2>6. /\ Len(<<row>> \o lock) = 1 + size
        /\ \A i \in 1..(1 + size) :
             (<<row>> \o lock)[i] = IF i <= 1 THEN <<row>>[i] ELSE lock[i - 1]
    BY <2>2, <2>3, ConcatProperties
  <2>7. \A n \in 1..size : (<<row>> \o lock)[n + 1] = lock[n]
    BY <2>1, <2>6
  <2>8. (<<row>> \o lock)[1] = row /\ 1 + size = size + 1
    BY <2>1, <2>3, <2>6
  <2> QED BY <2>4, <2>5, <2>6, <2>7, <2>8 DEF size, row
<1> QED BY <1>1, <1>2, <1>3

\* Every transaction asks for a lock, and only for what a lock is.
LEMMA LockCount ==
  ASSUME NEW r \in Requests, r.kind # "IDLE"
  PROVE  Len(LocksOf(r)) \in Nat /\ Len(LocksOf(r)) >= 1
<1>1. r.kind \in {"START", "APPROVE", "CANCEL", "DELETE", "REMOVE"} \cup JobKinds
  BY RequestOfKind
<1>2. CASE r.kind = "REMOVE"
  <2>1. Len(LocksOf(r)) = Cardinality(Property) + 1
    BY <1>2, LocksByKind
  <2> QED BY <2>1, PropertiesInOrder
<1>3. CASE r.kind # "REMOVE"
  <2>0. /\ r.kind = "START" => Len(LocksOf(r)) = 3
        /\ r.kind = "APPROVE" => Len(LocksOf(r)) = 2
        /\ r.kind = "CANCEL" => Len(LocksOf(r)) = 1
        /\ r.kind = "LAUNCH" => Len(LocksOf(r)) = 6
        /\ r.kind \in {"PUBLISH", "END_WAITING", "END_LAUNCHED"} => Len(LocksOf(r)) = 4
        /\ r.kind = "FAIL" => Len(LocksOf(r)) = 3
        /\ r.kind = "DELETE" => Len(LocksOf(r)) = 1
    BY LocksByKind
  <2> DEFINE n == Len(LocksOf(r))
  <2> HIDE DEF n
  <2>1. n \in {1, 2, 3, 4, 6}
    BY <1>1, <1>3, <2>0 DEF JobKinds, n
  <2>2. n \in Nat /\ n >= 1
    BY <2>1
  <2> QED BY <2>2 DEF n
<1> QED BY <1>2, <1>3

\* The same request but for what it saw.
Carried(c) ==
  /\ request'[c].kind = request[c].kind
  /\ request[c].kind = "START" =>
       /\ request'[c].project = request[c].project /\ request'[c].key = request[c].key
       /\ request'[c].at = request[c].at /\ request'[c].period = request[c].period
  /\ request[c].kind \in JobKinds => request'[c].job = request[c].job
  /\ request[c].kind \notin {"START", "PUBLISH"} => request'[c] = request[c]

\* The locks of a transaction are the same from its beginning to its end.
LEMMA LocksStay ==
  ASSUME TypeOK, TypeOK', RowsStay, NEW c \in Client, RequestFits(c), Active(c), Carried(c)
  PROVE  LocksOf(request[c])' = LocksOf(request[c])
<1>1. request[c] \in Requests /\ request'[c] \in Requests
  BY DEF TypeOK
<1>2. request[c].kind \in {"START", "APPROVE", "CANCEL", "DELETE", "REMOVE"} \cup JobKinds
  BY <1>1, RequestOfKind DEF Active
<1>3. request'[c].kind = request[c].kind
  BY DEF Carried
<1>4. CASE request[c].kind = "START"
  BY <1>3, <1>4 DEF LocksOf, StartLocks, Carried, Exclusive, Shared
<1>5. CASE request[c].kind = "APPROVE"
  BY <1>3, <1>5 DEF LocksOf, ApproveLocks, Carried, Exclusive, Shared
<1>6. CASE request[c].kind = "CANCEL"
  <2>1. request'[c].purchase = request[c].purchase /\ request[c].purchase \in Bought
    BY <1>6 DEF Carried, RequestFits
  <2>2. purchase'[request'[c].purchase].period = purchase[request[c].purchase].period
    BY <2>1 DEF RowsStay
  <2> QED BY <1>3, <1>6, <2>2 DEF LocksOf, CancelLocks, Exclusive
<1>7. CASE request[c].kind \in JobKinds
  <2>1. request'[c].job = request[c].job /\ request[c].job \in Started
    BY <1>7 DEF Carried, RequestFits
  <2>2. job'[request'[c].job].period = job[request[c].job].period
        /\ PropertyOfJob(request[c].job)' = PropertyOfJob(request[c].job)
    BY <2>1 DEF RowsStay, PropertyOfJob
  <2>3. CASE request[c].kind = "LAUNCH"
    BY <1>3, <2>1, <2>2, <2>3 DEF LocksOf, LaunchLocks, Exclusive, Shared, Reading
  <2>4. CASE request[c].kind = "FAIL"
    BY <1>3, <2>1, <2>2, <2>4 DEF LocksOf, FailLocks, Exclusive, Shared
  <2>5. CASE request[c].kind \in {"PUBLISH", "END_WAITING", "END_LAUNCHED"}
    BY <1>3, <2>1, <2>2, <2>5 DEF LocksOf, PublishLocks, EndLocks, Exclusive, Shared
  <2> QED BY <1>7, <2>3, <2>4, <2>5 DEF JobKinds
<1>8. CASE request[c].kind = "DELETE"
  BY <1>3, <1>8 DEF LocksOf, DeleteLocks, Carried, Exclusive, JobKinds
<1>9. CASE request[c].kind = "REMOVE"
  BY <1>3, <1>9 DEF LocksOf, RemoveLocks, Exclusive
<1> QED BY <1>2, <1>4, <1>5, <1>6, <1>7, <1>8, <1>9

-----------------------------------------------------------------------------
(***************************************************************************)
(* What a step does to one transaction and to the locks it holds.          *)
(***************************************************************************)

\* Locking one more.
GoesFurther(c) == TakeLock(c) \/ Decide(c)

LEMMA FurtherActor ==
  ASSUME TypeOK, TypeOK', RowsStay, RequestsFit, BoundsFit, NEW c \in Client, GoesFurther(c)
  PROVE  /\ Active(c) /\ Active(c)' /\ Carried(c) /\ Obtainable(c)
         /\ LocksOf(request[c])' = LocksOf(request[c])
         /\ held[c] < Len(LocksOf(request[c])) /\ held'[c] = held[c] + 1
         /\ HeldBy(c)' = HeldBy(c) \cup {NextLock(c)}
         /\ TakeLock(c) => ~Decided(c)'
         /\ Decide(c) => Decided(c)'
<1>1. /\ Active(c) /\ Obtainable(c) /\ held' = [held EXCEPT ![c] = held[c] + 1]
      /\ TakeLock(c) => /\ held[c] < Len(LocksOf(request[c])) - 1
                        /\ request' = request
      /\ Decide(c) => /\ held[c] = Len(LocksOf(request[c])) - 1
                      /\ request' = [request EXCEPT ![c] = Remembering(request[c])]
  BY DEF GoesFurther, TakeLock, Decide, Granted
<1>2. request[c] \in Requests /\ request[c].kind # "IDLE" /\ held[c] \in Nat
  BY <1>1 DEF TypeOK, Active
<1>3. Len(LocksOf(request[c])) \in Nat
  BY <1>2, LockCount
<1>4. held'[c] = held[c] + 1 /\ held[c] < Len(LocksOf(request[c]))
  <2>1. held'[c] = held[c] + 1
    BY <1>1 DEF TypeOK
  <2>2. CASE TakeLock(c)
    BY <1>1, <1>2, <1>3, <2>1, <2>2
  <2>3. CASE Decide(c)
    BY <1>1, <1>2, <1>3, <2>1, <2>3
  <2> QED BY <2>2, <2>3 DEF GoesFurther
<1>5. Carried(c) /\ Active(c)'
  <2>1. CASE TakeLock(c)
    BY <1>1, <2>1 DEF Carried, Active
  <2>2. CASE Decide(c)
    <3>1. request'[c] = Remembering(request[c])
      BY <1>1, <2>2 DEF TypeOK
    <3>2. LET r == request[c]
              q == Remembering(r)
          IN  /\ q.kind = r.kind
              /\ r.kind = "START" =>
                   q.project = r.project /\ q.key = r.key /\ q.at = r.at /\ q.period = r.period
              /\ r.kind \in JobKinds => q.job = r.job
              /\ r.kind \notin {"START", "PUBLISH"} => q = r
      BY <1>1, Remembered
    <3> QED BY <1>1, <3>1, <3>2 DEF Carried, Active
  <2> QED BY <2>1, <2>2 DEF GoesFurther
<1>6. LocksOf(request[c])' = LocksOf(request[c])
  BY <1>1, <1>5, LocksStay DEF RequestsFit
<1>7. HeldBy(c)' = HeldBy(c) \cup {NextLock(c)}
  <2> DEFINE L == LocksOf(request[c])
  <2>1. HeldBy(c) = {L[n] : n \in 1..held[c]} /\ HeldBy(c)' = {L[n] : n \in 1..held'[c]}
        /\ NextLock(c) = L[held[c] + 1]
    BY <1>1, <1>5, <1>6 DEF HeldBy, NextLock
  <2> HIDE DEF L
  <2>2. 1..held'[c] = 1..held[c] \cup {held[c] + 1}
    BY <1>2, <1>4
  <2> QED BY <2>1, <2>2
<1>8. TakeLock(c) => ~Decided(c)'
  <2> SUFFICES ASSUME TakeLock(c) PROVE held'[c] # Len(LocksOf(request[c]))
    BY <1>6 DEF Decided
  <2> QED BY <1>1, <1>2, <1>3, <1>4
<1>9. Decide(c) => Decided(c)'
  <2> SUFFICES ASSUME Decide(c) PROVE held'[c] = Len(LocksOf(request[c]))
    BY <1>5, <1>6 DEF Decided
  <2> QED BY <1>1, <1>2, <1>3, <1>4
<1> QED BY <1>1, <1>4, <1>5, <1>6, <1>7, <1>8, <1>9

LEMMA StillActor ==
  ASSUME TypeOK, TypeOK', RowsStay, RequestsFit, NEW c \in Client, Same(c)
  PROVE  /\ Active(c)' <=> Active(c)
         /\ Active(c) => LocksOf(request[c])' = LocksOf(request[c]) /\ Carried(c)
         /\ HeldBy(c)' = HeldBy(c)
         /\ Decided(c)' <=> Decided(c)
<1>1. request'[c] = request[c] /\ held'[c] = held[c]
  BY DEF Same
<1>2. Active(c)' <=> Active(c)
  BY <1>1 DEF Active
<1>3. ASSUME Active(c) PROVE LocksOf(request[c])' = LocksOf(request[c]) /\ Carried(c)
  <2>1. Carried(c)
    BY <1>1 DEF Carried
  <2> QED BY <1>3, <2>1, LocksStay DEF RequestsFit
<1> QED BY <1>1, <1>2, <1>3 DEF HeldBy, Decided

AllAsk == \A c \in Client : Active(c) =>
            Len(LocksOf(request[c])) \in Nat /\ Len(LocksOf(request[c])) >= 1

LEMMA ActiveAsks == TypeOK => AllAsk
<1> SUFFICES ASSUME TypeOK, NEW c \in Client, Active(c)
             PROVE  Len(LocksOf(request[c])) \in Nat /\ Len(LocksOf(request[c])) >= 1
  BY DEF AllAsk
<1>1. request[c] \in Requests /\ request[c].kind # "IDLE"
  BY DEF TypeOK, Active
<1> QED BY <1>1, LockCount

LEMMA ActiveAsksThen == TypeOK' => AllAsk'
BY ActiveAsks, PTL

LEMMA BegunActor ==
  ASSUME TypeOK', NEW c \in Client, RequestFits(c), Began(c)
  PROVE  ~Active(c) /\ Active(c)' /\ held'[c] = 0 /\ HeldBy(c)' = {} /\ ~Decided(c)'
<1>1. ~Active(c) /\ held'[c] = 0 /\ Active(c)'
  BY DEF Began, Made, RequestFits, Active
<1>2. HeldBy(c)' = {}
  BY <1>1 DEF HeldBy
<1>3. Len(LocksOf(request[c]))' >= 1
  BY <1>1, ActiveAsksThen DEF AllAsk
<1>4. ~Decided(c)'
  <2> SUFFICES ASSUME held'[c] = Len(LocksOf(request[c]))' PROVE FALSE
    BY DEF Decided
  <2> QED BY <1>1, <1>3
<1> QED BY <1>1, <1>2, <1>4

LEMMA EndedActor ==
  ASSUME TypeOK, NEW c \in Client, Ended(c)
  PROVE  Active(c) /\ ~Active(c)' /\ held'[c] = 0 /\ HeldBy(c)' = {} /\ ~Decided(c)'
<1>1. Active(c) /\ request'[c] = Idle /\ held'[c] = 0
  BY EndedRequest DEF Ended
<1>2. ~Active(c)'
  BY <1>1 DEF Active, Idle
<1> QED BY <1>1, <1>2 DEF HeldBy, Decided

-----------------------------------------------------------------------------
(***************************************************************************)
(* The base of the invariant: requests, periods, purchases, rows, locks.   *)
(***************************************************************************)

LEMMA ToWriteIsCounted ==
  ASSUME NEW W \in SUBSET Client
  PROVE  IsFiniteSet(W) /\ Cardinality(W) \in Nat
<1>1. IsFiniteSet(W)
  BY FS_Subset, LedgerAssumption DEF LedgerAssumption
<1> QED BY <1>1, FS_CardinalityType

LEMMA AtMostOneMore ==
  ASSUME NEW V, NEW W, IsFiniteSet(W), NEW x, V \subseteq W \cup {x}
  PROVE  /\ Cardinality(V) <= Cardinality(W) + 1
         /\ x \in W => Cardinality(V) <= Cardinality(W)
<1>1. IsFiniteSet(W \cup {x}) /\ Cardinality(W) \in Nat
  BY FS_AddElement, FS_CardinalityType
<1>2. Cardinality(W \cup {x}) = IF x \in W THEN Cardinality(W) ELSE Cardinality(W) + 1
  BY FS_AddElement
<1>3. IsFiniteSet(V) /\ Cardinality(V) <= Cardinality(W \cup {x})
  BY <1>1, FS_Subset
<1>4. Cardinality(V) \in Nat
  BY <1>3, FS_CardinalityType
<1>5. CASE x \in W
  BY <1>1, <1>2, <1>3, <1>4, <1>5
<1>6. CASE x \notin W
  BY <1>1, <1>2, <1>3, <1>4, <1>6
<1> QED BY <1>5, <1>6

LEMMA PurchasesAreBounded ==
  ASSUME TypeOK, PurchasesFit
  PROVE  BoundsFit
<1> DEFINE W == {c \in Client : request[c].kind = "APPROVE" /\ Decided(c)}
<1>1. Cardinality(W) \in Nat
  BY ToWriteIsCounted
<1>2. Len(purchase) + Cardinality(W) <= Purchases
  BY DEF PurchasesFit, ToWrite
<1> HIDE DEF W
<1> QED BY <1>1, <1>2, Rows, LedgerAssumption DEF BoundsFit, LedgerAssumption

LEMMA RequestsKept ==
  ASSUME TypeOK, TypeOK', RowsStay, RequestsFit, BoundsFit, PeriodsFit, [Next]_vars
  PROVE  RequestsFit'
<1>1. ASSUME NEW c \in Client, Active(c), Carried(c), held'[c] <= Len(LocksOf(request[c])),
             LocksOf(request[c])' = LocksOf(request[c])
      PROVE  RequestFits(c)'
  <2>1. RequestFits(c) /\ request[c] \in Requests /\ request'[c].kind = request[c].kind
    BY <1>1 DEF RequestsFit, TypeOK, Carried
  <2>2. Active(c)'
    BY <1>1, <2>1 DEF Active
  <2>3. request'[c].kind \in JobKinds => request'[c].job \in Started'
    BY <1>1, <2>1 DEF RequestFits, Carried, RowsStay
  <2>4. request'[c].kind = "CANCEL" => request'[c].purchase \in Bought'
    BY <1>1, <2>1 DEF RequestFits, Carried, RowsStay
  <2>5. ASSUME request'[c].kind \in {"START", "APPROVE"}
        PROVE  /\ subscription' # NoSubscription
               /\ request'[c].period \in opened'
               /\ Covers(Bounds(request[c].period), request[c].at)'
    <3>1. request'[c].period = request[c].period /\ request'[c].at = request[c].at
      BY <1>1, <2>1, <2>5 DEF Carried
    <3>2. subscription # NoSubscription /\ request[c].period \in opened
          /\ Covers(Bounds(request[c].period), request[c].at)
      BY <2>1, <2>5 DEF RequestFits
    <3>3. subscription' = subscription /\ opened \subseteq opened'
      BY <3>2 DEF RowsStay
    <3> QED BY <3>1, <3>2, <3>3 DEF Bounds
  <2> QED BY <1>1, <2>2, <2>3, <2>4, <2>5 DEF RequestFits
<1>2. ASSUME NEW c \in Client, Same(c) PROVE RequestFits(c)'
  <2>1. CASE Active(c)
    <3>1. held'[c] <= Len(LocksOf(request[c]))
      BY <1>2, <2>1 DEF Same, RequestsFit, RequestFits
    <3> QED BY <1>1, <1>2, <2>1, <3>1, StillActor
  <2>2. CASE ~Active(c)
    <3>1. request'[c] = request[c] /\ request[c].kind = "IDLE" /\ held'[c] = 0
      BY <1>2, <2>2 DEF Same, Active, RequestsFit, RequestFits
    <3> QED BY <3>1 DEF RequestFits, JobKinds, Active
  <2> QED BY <2>1, <2>2
<1>3. ASSUME NEW c \in Client, GoesFurther(c) PROVE RequestFits(c)'
  <2>1. /\ Active(c) /\ Carried(c) /\ LocksOf(request[c])' = LocksOf(request[c])
        /\ held[c] < Len(LocksOf(request[c])) /\ held'[c] = held[c] + 1
    BY <1>3, FurtherActor
  <2>2. held[c] \in Nat /\ Len(LocksOf(request[c])) \in Nat
    BY <2>1, LockCount DEF TypeOK, Active
  <2>3. held'[c] <= Len(LocksOf(request[c]))
    BY <2>1, <2>2
  <2> QED BY <1>1, <2>1, <2>3
<1>4. ASSUME NEW c \in Client, Ended(c) PROVE RequestFits(c)'
  <2>1. request'[c] = Idle /\ held'[c] = 0
    BY <1>4, EndedRequest DEF Ended
  <2> QED BY <2>1 DEF RequestFits, JobKinds, Active, Idle
<1>5. ASSUME NEW c \in Client, Began(c) PROVE RequestFits(c)'
  <2>1. RequestFits(c)
    BY DEF RequestsFit
  <2>2. Active(c)' /\ held'[c] = 0
    BY <1>5, <2>1, BegunActor
  <2>3. Len(LocksOf(request[c]))' \in Nat
    BY <2>2, ActiveAsksThen DEF AllAsk
  <2>4. held'[c] <= Len(LocksOf(request[c]))'
    BY <2>2, <2>3
  <2>5. Made(request'[c]) /\ UNCHANGED <<subscription, purchase, job>>
    BY <1>5 DEF Began
  <2>6. ASSUME request'[c].kind \in {"START", "APPROVE"}
        PROVE  /\ subscription' # NoSubscription
               /\ request'[c].period \in opened'
               /\ Covers(Bounds(request[c].period), request[c].at)'
    <3>1. /\ subscription # NoSubscription /\ subscription.anchorAt <= clock
          /\ request'[c].at = clock /\ opened' = opened \cup {request'[c].period}
          /\ request'[c].period = renewalPeriodAt(subscription.anchorAt, clock).index
      BY <2>5, <2>6 DEF Made
    <3>2. Known(subscription.anchorAt) /\ Known(clock)
      BY <3>1, ClockIsKnown
    <3>3. Covers(renewalPeriodBounds(subscription.anchorAt,
                   renewalPeriodAt(subscription.anchorAt, clock).index), clock)
      BY <3>1, <3>2, PeriodIsFound
    <3> QED BY <2>5, <3>1, <3>3 DEF Bounds
  <2>7. request'[c].kind \in JobKinds => request'[c].job \in Started'
    BY <2>5 DEF Made, Started
  <2>8. request'[c].kind = "CANCEL" => request'[c].purchase \in Bought'
    BY <2>5 DEF Made, Bought
  <2> QED BY <2>2, <2>4, <2>6, <2>7, <2>8 DEF RequestFits
<1>6. \A c \in Client : Same(c) \/ Acts(c)
  BY ClientSteps
<1> QED BY <1>2, <1>3, <1>4, <1>5, <1>6 DEF RequestsFit, Acts, GoesFurther

LEMMA PeriodsKept ==
  ASSUME TypeOK, PeriodsFit, [Next]_vars
  PROVE  PeriodsFit'
<1>1. CASE UNCHANGED <<subscription, opened>> /\ clock' \in Nat /\ clock <= clock'
  <2>1. opened # {} => subscription # NoSubscription /\ subscription.anchorAt \in Nat
    BY PlanOfContract DEF PeriodsFit
  <2> QED BY <1>1, <2>1, ClockIsKnown DEF PeriodsFit
<1>2. CASE UNCHANGED <<clock, subscription, opened>>
  BY <1>2 DEF PeriodsFit
<1>3. CASE Tick
  <2>1. clock' = clock + 1 /\ UNCHANGED <<subscription, opened>>
    BY <1>3 DEF Tick, ledger
  <2> QED BY <1>1, <2>1, ClockIsKnown
<1>4. CASE \E offer \in Offer : Provision(offer)
  <2>1. opened = {} /\ opened' = opened
    BY <1>4 DEF Provision, PeriodsFit
  <2> QED BY <2>1 DEF PeriodsFit
<1>5. ASSUME NEW c \in Client, Asking(c) PROVE PeriodsFit'
  <2>1. Made(request'[c]) /\ UNCHANGED <<clock, subscription>>
    BY <1>5, AskingMakes DEF Began
  <2>2. CASE request'[c].kind \notin {"START", "APPROVE"}
    BY <1>2, <2>1, <2>2 DEF Made
  <2>3. CASE request'[c].kind \in {"START", "APPROVE"}
    <3>1. /\ subscription # NoSubscription /\ subscription.anchorAt <= clock
          /\ opened' = opened \cup {request'[c].period}
          /\ request'[c].period = renewalPeriodAt(subscription.anchorAt, clock).index
      BY <2>1, <2>3 DEF Made
    <3>2. Known(subscription.anchorAt) /\ Known(clock)
      BY <3>1, ClockIsKnown
    <3>3. Dated(subscription.anchorAt, renewalPeriodAt(subscription.anchorAt, clock).index)
      BY <3>1, <3>2, PeriodIsFound
    <3> QED BY <2>1, <3>1, <3>3 DEF PeriodsFit
  <2> QED BY <2>2, <2>3
<1>6. ASSUME NEW c \in Client, TakeLock(c) \/ Decide(c) \/ Refuse(c)
      PROVE  UNCHANGED <<clock, subscription, opened>>
  BY <1>6 DEF TakeLock, Decide, Refuse, Finish, ledger
<1>7. ASSUME NEW c \in Client, Writing(c) PROVE UNCHANGED <<clock, subscription, opened>>
  BY <1>7 DEF Writing, WriteStart, WriteApprove, WriteCancel, WriteLaunch, WritePublish,
     WriteFail, WriteEndWaiting, WriteEndLaunched, WriteDelete, WriteRemove, Writes, Finish,
     JobBecomes, ledger
<1>8. CASE \E c \in Client : Asking(c) \/ TakeLock(c) \/ Decide(c) \/ Refuse(c) \/ Writing(c)
  BY <1>2, <1>5, <1>6, <1>7, <1>8
<1>9. CASE \E j \in Started : Assembled(j) \/ Revise(j)
  BY <1>2, <1>9 DEF Assembled, Revise
<1>10. CASE UNCHANGED vars
  BY <1>2, <1>10 DEF vars, ledger
<1> QED BY <1>3, <1>4, <1>8, <1>9, <1>10 DEF Next

LEMMA LocksKept ==
  ASSUME TypeOK, TypeOK', RowsStay, RequestsFit, BoundsFit, LocksExclude, [Next]_vars
  PROVE  LocksExclude'
<1>1. ASSUME NEW c \in Client, Same(c) PROVE HeldBy(c)' = HeldBy(c)
  BY <1>1, StillActor
<1>2. ASSUME NEW c \in Client, Began(c) \/ Ended(c) PROVE HeldBy(c)' = {}
  BY <1>2, BegunActor, EndedActor DEF RequestsFit
<1>3. ASSUME NEW c \in Client, GoesFurther(c)
      PROVE  /\ HeldBy(c)' = HeldBy(c) \cup {NextLock(c)}
             /\ \A d \in Client \ {c} : \A l \in HeldBy(d) : ~Conflict(NextLock(c), l)
  <2>1. /\ Active(c) /\ Obtainable(c) /\ held[c] < Len(LocksOf(request[c]))
        /\ HeldBy(c)' = HeldBy(c) \cup {NextLock(c)}
    BY <1>3, FurtherActor
  <2> QED BY <2>1 DEF Obtainable, WaitsFor
<1>4. \A l, m : Conflict(l, m) <=> Conflict(m, l)
  BY DEF Conflict
<1>5. CASE \A c \in Client : Same(c)
  BY <1>1, <1>5 DEF LocksExclude
<1>6. ASSUME NEW c \in Client, Acts(c), \A d \in Client \ {c} : Same(d)
      PROVE  LocksExclude'
  <2>1. \A d \in Client \ {c} : HeldBy(d)' = HeldBy(d)
    BY <1>1, <1>6
  <2>2. \A d \in Client \ {c} : \A l \in HeldBy(c)', m \in HeldBy(d) : ~Conflict(l, m)
    <3>1. CASE Began(c) \/ Ended(c)
      BY <1>2, <3>1
    <3>2. CASE GoesFurther(c)
      BY <1>3, <3>2 DEF LocksExclude
    <3> QED BY <1>6, <3>1, <3>2 DEF Acts, GoesFurther
  <2>3. \A d, e \in Client \ {c} : d # e => \A l \in HeldBy(d), m \in HeldBy(e) : ~Conflict(l, m)
    BY DEF LocksExclude
  <2> SUFFICES ASSUME NEW d \in Client, NEW e \in Client, d # e,
                      NEW l \in HeldBy(d)', NEW m \in HeldBy(e)'
               PROVE  ~Conflict(l, m)
    BY DEF LocksExclude, Conflict
  <2>4. CASE d = c
    BY <2>1, <2>2, <2>4
  <2>5. CASE e = c
    BY <1>4, <2>1, <2>2, <2>5
  <2>6. CASE d # c /\ e # c
    BY <2>1, <2>3, <2>6
  <2> QED BY <2>4, <2>5, <2>6
<1> QED BY <1>5, <1>6, ClientSteps

\* What a step does to the jobs.
LEMMA JobSteps ==
  ASSUME [Next]_vars
  PROVE  \/ UNCHANGED job
         \/ \E c \in Client : WriteStart(c)
         \/ \E c \in Client : JobWriter(c)
         \/ \E j \in Started : Assembled(j) \/ Revise(j)
<1>1. ASSUME NEW c \in Client, Asking(c) PROVE UNCHANGED job
  BY <1>1 DEF Asking, AskStart, AskApprove, AskCancel, AskLaunch, AskEndWaiting,
     AskEndLaunched, AskPublish, AskFail, AskDelete, AskRemove, ledger
<1>2. ASSUME NEW c \in Client, TakeLock(c) \/ Decide(c) \/ Refuse(c) PROVE UNCHANGED job
  BY <1>2 DEF TakeLock, Decide, Refuse, ledger
<1>3. ASSUME NEW c \in Client, Writing(c)
      PROVE  UNCHANGED job \/ WriteStart(c) \/ JobWriter(c)
  BY <1>3 DEF Writing, JobWriter, WriteApprove, WriteCancel, WriteDelete, WriteRemove, ledger
<1>4. CASE Tick \/ (\E offer \in Offer : Provision(offer)) \/ UNCHANGED vars
  BY <1>4 DEF Tick, Provision, vars, ledger
<1>5. CASE \E c \in Client : Asking(c) \/ TakeLock(c) \/ Decide(c) \/ Refuse(c) \/ Writing(c)
  BY <1>1, <1>2, <1>3, <1>5
<1> QED BY <1>4, <1>5 DEF Next

\* What a step does to the purchases.
LEMMA PurchaseSteps ==
  ASSUME [Next]_vars
  PROVE  \/ UNCHANGED purchase
         \/ \E c \in Client : WriteApprove(c)
         \/ \E c \in Client : WriteCancel(c)
<1>1. ASSUME NEW c \in Client, Asking(c) PROVE UNCHANGED purchase
  BY <1>1 DEF Asking, AskStart, AskApprove, AskCancel, AskLaunch, AskEndWaiting,
     AskEndLaunched, AskPublish, AskFail, AskDelete, AskRemove, ledger
<1>2. ASSUME NEW c \in Client, TakeLock(c) \/ Decide(c) \/ Refuse(c) PROVE UNCHANGED purchase
  BY <1>2 DEF TakeLock, Decide, Refuse, ledger
<1>3. ASSUME NEW c \in Client, Writing(c)
      PROVE  UNCHANGED purchase \/ WriteApprove(c) \/ WriteCancel(c)
  BY <1>3 DEF Writing, WriteStart, WriteLaunch, WritePublish, WriteFail, WriteEndWaiting,
     WriteEndLaunched, JobBecomes, WriteDelete, WriteRemove, ledger
<1>4. CASE \/ Tick \/ UNCHANGED vars
           \/ \E offer \in Offer : Provision(offer)
           \/ \E j \in Started : Assembled(j) \/ Revise(j)
  BY <1>4 DEF Tick, Provision, Assembled, Revise, vars, ledger
<1>5. CASE \E c \in Client : Asking(c) \/ TakeLock(c) \/ Decide(c) \/ Refuse(c) \/ Writing(c)
  BY <1>1, <1>2, <1>3, <1>5
<1> QED BY <1>4, <1>5 DEF Next

LEMMA WriterEnds ==
  ASSUME NEW c \in Client, Writing(c) \/ JobWriter(c)
  PROVE  Ended(c) /\ Decided(c)
BY DEF Writing, JobWriter, WriteStart, WriteApprove, WriteCancel, WriteLaunch, WritePublish,
   WriteFail, WriteEndWaiting, WriteEndLaunched, WriteDelete, WriteRemove, Writes, Ended, Decided

LEMMA RowsKept ==
  ASSUME TypeOK, RequestsFit, RowsStay, RowsFit, [Next]_vars
  PROVE  RowsFit'
<1>1. ASSUME NEW c \in Client, WriteStart(c) PROVE RowsFit'
  <2>1. request[c].kind = "START" /\ job' = Append(job, StartedJob(request[c]))
    BY <1>1 DEF WriteStart, Writes
  <2>2. request[c] \in Starts /\ subscription # NoSubscription
    BY <2>1, Rows, RequestOfKind DEF RequestsFit, RequestFits
  <2>3. /\ Started' = Started \cup {Len(job) + 1} /\ job'[Len(job) + 1] = StartedJob(request[c])
        /\ \A j \in Started : job'[j] = job[j]
    BY <2>1, <2>2, JobStarts
  <2>4. subscription' # NoSubscription
    BY <2>2 DEF RowsStay
  <2>5. StartedJob(request[c]).state = "RESERVED" /\ StartedJob(request[c]).reservation = "RESERVED"
    BY DEF StartedJob
  <2> QED BY <2>3, <2>4, <2>5 DEF RowsFit
<1>2. ASSUME Started' = Started, NEW j \in Started, \A i \in Started : i # j => job'[i] = job[i],
             job'[j].state # "RESERVED",
             job'[j].state = "DELIVERABLE_READY" => job'[j].reservation # "RESERVED"
      PROVE  RowsFit'
  BY <1>2 DEF RowsFit, RowsStay
<1>3. ASSUME NEW c \in Client, JobWriter(c) PROVE RowsFit'
  <2> DEFINE j == request[c].job
  <2>1. /\ j \in Started /\ Started' = Started
        /\ \A i \in Started : i # j => job'[i] = job[i]
        /\ <<request[c].kind, job'[j].state, job'[j].reservation>> \in Outcomes
    BY <1>3, WrittenRows
  <2> HIDE DEF j
  <2>2. /\ job'[j].state # "RESERVED"
        /\ job'[j].state = "DELIVERABLE_READY" => job'[j].reservation # "RESERVED"
    BY <2>1 DEF Outcomes
  <2> QED BY <1>2, <2>1, <2>2
<1>4. ASSUME NEW j \in Started, Assembled(j) \/ Revise(j) PROVE RowsFit'
  <2>1. /\ Started' = Started /\ \A i \in Started : i # j => job'[i] = job[i]
        /\ job'[j].reservation = job[j].reservation
        /\ \/ /\ job[j].state = "GENERATING" /\ job[j].reservation = "RESERVED"
              /\ job'[j].state = "DELIVERABLE_VALIDATING"
           \/ job[j].state = "DELIVERABLE_READY" /\ job'[j].state = "GENERATING"
           \/ /\ job[j].state = "GENERATING" /\ job[j].reservation # "RESERVED"
              /\ job'[j].state = "DELIVERABLE_READY"
    BY <1>4, PipelineRows
  <2> QED BY <1>2, <2>1
<1>5. CASE UNCHANGED job
  BY <1>5 DEF RowsFit, RowsStay, Started
<1> QED BY <1>1, <1>3, <1>4, <1>5, JobSteps

LEMMA PurchasesKept ==
  ASSUME TypeOK, TypeOK', RowsStay, RequestsFit, PurchasesFit, [Next]_vars
  PROVE  PurchasesFit'
<1> DEFINE W == {c \in Client : request[c].kind = "APPROVE" /\ Decided(c)}
           V == {c \in Client : request'[c].kind = "APPROVE" /\ Decided(c)'}
<1>1. /\ IsFiniteSet(W) /\ Cardinality(W) \in Nat /\ IsFiniteSet(V) /\ Cardinality(V) \in Nat
      /\ ToWrite("APPROVE") = Cardinality(W) /\ ToWrite("APPROVE")' = Cardinality(V)
  BY ToWriteIsCounted DEF ToWrite
<1>2. Len(purchase) \in Nat /\ Len(purchase) + Cardinality(W) <= Purchases /\ Purchases \in Nat
  BY <1>1, Rows, LedgerAssumption DEF PurchasesFit, LedgerAssumption
<1>3. BoundsFit
  BY PurchasesAreBounded
<1>4. ASSUME NEW c \in Client, Same(c) PROVE c \in V <=> c \in W
  BY <1>4, StillActor DEF Same
<1>5. ASSUME NEW c \in Client, Began(c) \/ Ended(c) PROVE c \notin V
  BY <1>5, BegunActor, EndedActor DEF RequestsFit
<1>6. ASSUME NEW c \in Client, GoesFurther(c), c \in V
      PROVE  Len(purchase) + Cardinality(W) < Purchases
  <2>1. /\ request'[c].kind = request[c].kind /\ Decided(c)' /\ ~TakeLock(c)
    BY <1>3, <1>6, FurtherActor DEF Carried
  <2>2. request[c].kind = "APPROVE" /\ Decide(c)
    BY <1>6, <2>1 DEF GoesFurther
  <2>3. ~ApproveRefused(request[c])
    BY <2>2 DEF Decide, GoesOn
  <2> HIDE DEF W, V
  <2>4. ~(Len(purchase) + Cardinality(W) >= Purchases)
    BY <1>1, <2>3 DEF ApproveRefused
  <2> QED BY <1>1, <1>2, <2>4
<1>7. CASE \A c \in Client : Same(c)
  <2>1. V = W
    BY <1>4, <1>7
  <2>2. UNCHANGED purchase
    <3>1. ASSUME NEW c \in Client, WriteApprove(c) \/ WriteCancel(c) PROVE FALSE
      <4>1. Ended(c)
        BY <3>1, WriterEnds DEF Writing
      <4>2. Active(c) /\ ~Active(c)'
        BY <4>1, EndedActor
      <4> QED BY <1>7, <4>2, StillActor
    <3> QED BY <3>1, PurchaseSteps
  <2> QED BY <1>1, <2>1, <2>2 DEF PurchasesFit
<1>8. ASSUME NEW c \in Client, Acts(c), \A d \in Client \ {c} : Same(d)
      PROVE  PurchasesFit'
  <2>1. V \subseteq W \cup {c}
    BY <1>4, <1>8
  <2>2. CASE UNCHANGED purchase
    <3>1. CASE c \notin V
      <4>1. V \subseteq W
        BY <2>1, <3>1
      <4>2. Cardinality(V) <= Cardinality(W)
        BY <1>1, <4>1, FS_Subset
      <4> HIDE DEF W, V
      <4>3. Len(purchase) + Cardinality(V) <= Purchases
        BY <1>1, <1>2, <4>2
      <4> QED BY <1>1, <2>2, <4>3 DEF PurchasesFit
    <3>2. CASE c \in V
      <4>1. c \notin W => Len(purchase) + Cardinality(W) < Purchases
        <5>1. Same(c) \/ Began(c) \/ Ended(c) \/ GoesFurther(c)
          BY <1>8 DEF Acts, GoesFurther
        <5> QED BY <1>4, <1>5, <1>6, <3>2, <5>1
      <4> HIDE DEF W, V
      <4>2. /\ Cardinality(V) <= Cardinality(W) + 1
            /\ c \in W => Cardinality(V) <= Cardinality(W)
        BY <1>1, <2>1, AtMostOneMore
      <4>4. Len(purchase) + Cardinality(V) <= Purchases
        <5>1. CASE c \in W
          BY <1>1, <1>2, <4>2, <5>1
        <5>2. CASE c \notin W
          BY <1>1, <1>2, <4>1, <4>2, <5>2
        <5> QED BY <5>1, <5>2
      <4> QED BY <1>1, <2>2, <4>4 DEF PurchasesFit
    <3> QED BY <3>1, <3>2
  <2>3. ASSUME NEW d \in Client, WriteApprove(d) \/ WriteCancel(d) PROVE d = c /\ Ended(c)
    <3>1. Ended(d)
      BY <2>3, WriterEnds DEF Writing
    <3>2. Active(d) /\ ~Active(d)'
      BY <3>1, EndedActor
    <3>3. ~Same(d)
      BY <3>2, StillActor
    <3> QED BY <1>8, <3>1, <3>3
  <2>4. CASE \E d \in Client : WriteApprove(d)
    <3>1. WriteApprove(c) /\ Ended(c)
      BY <2>3, <2>4
    <3>2. c \in W /\ c \notin V
      <4>1. request[c].kind = "APPROVE" /\ Decided(c)
        BY <3>1 DEF WriteApprove, Writes
      <4> QED BY <1>5, <3>1, <4>1
    <3>3. request[c] \in Approvals /\ subscription # NoSubscription
      <4>1. request[c].kind = "APPROVE"
        BY <3>1 DEF WriteApprove, Writes
      <4> QED BY <4>1, Rows, RequestOfKind DEF RequestsFit, RequestFits
    <3>4. purchase' = Append(purchase, BoughtPackage(request[c]))
      BY <3>1 DEF WriteApprove
    <3>5. Len(purchase') = Len(purchase) + 1
      <4>1. purchase \in Seq(PurchaseRows) /\ BoughtPackage(request[c]) \in PurchaseRows
        BY <3>3, <3>4, PackageIsBought DEF TypeOK
      <4> QED BY <3>4, <4>1
    <3> HIDE DEF W, V
    <3>6. Cardinality(W \ {c}) = Cardinality(W) - 1 /\ IsFiniteSet(W \ {c})
      BY <1>1, <3>2, FS_RemoveElement
    <3>7. V \subseteq W \ {c}
      BY <2>1, <3>2
    <3>8. Cardinality(V) <= Cardinality(W \ {c})
      BY <3>6, <3>7, FS_Subset
    <3>9. Len(purchase') + Cardinality(V) <= Purchases
      BY <1>1, <1>2, <3>5, <3>6, <3>8
    <3> QED BY <1>1, <3>9 DEF PurchasesFit
  <2>5. CASE \E d \in Client : WriteCancel(d)
    <3>1. WriteCancel(c) /\ Ended(c)
      BY <2>3, <2>5
    <3>2. V \subseteq W
      BY <1>5, <2>1, <3>1
    <3>3. Len(purchase') = Len(purchase)
      <4>1. request[c].kind = "CANCEL"
            /\ purchase' = [purchase EXCEPT ![request[c].purchase].cancelled = request[c].fault]
        BY <3>1 DEF WriteCancel, Writes
      <4>2. request[c] \in Cancellations /\ request[c].purchase \in Bought
        BY <4>1, Rows, RequestOfKind DEF RequestsFit, RequestFits
      <4> DEFINE u == request[c].purchase
                 fault == request[c].fault
      <4>3. u \in Bought /\ fault \in {"VTAVISION", "CUSTOMER"}
            /\ purchase' = [purchase EXCEPT ![u].cancelled = fault]
        BY <4>1, <4>2 DEF Cancellations
      <4> HIDE DEF u, fault
      <4>4. Bought' = Bought
        BY <4>3, PackageIsCancelled
      <4>5. Bought = 1..Len(purchase) /\ Len(purchase) \in Nat
        BY Rows
      <4>6. Bought' = 1..Len(purchase') /\ Len(purchase') \in Nat
        BY RowsOfSeq DEF Bought, TypeOK
      <4> DEFINE a == Len(purchase)
                 b == Len(purchase')
      <4> HIDE DEF a, b
      <4>7. a \in Nat /\ b \in Nat /\ 1..a = 1..b
        BY <4>4, <4>5, <4>6 DEF a, b
      <4>8. a = b
        <5>1. \A n \in Nat : n \in 1..a <=> n \in 1..b
          BY <4>7
        <5>2. a >= 1 => a <= b
          BY <4>7, <5>1
        <5>3. b >= 1 => b <= a
          BY <4>7, <5>1
        <5> QED BY <4>7, <5>2, <5>3
      <4> QED BY <4>8 DEF a, b
    <3>4. Cardinality(V) <= Cardinality(W)
      BY <1>1, <3>2, FS_Subset
    <3> HIDE DEF W, V
    <3>5. Len(purchase') + Cardinality(V) <= Purchases
      BY <1>1, <1>2, <3>3, <3>4
    <3> QED BY <1>1, <3>5 DEF PurchasesFit
  <2> QED BY <2>2, <2>4, <2>5, PurchaseSteps
<1> QED BY <1>7, <1>8, ClientSteps

LEMMA BaseKept ==
  ASSUME BaseInv, [Next]_vars
  PROVE  BaseInv' /\ RowsStay /\ BoundsFit
<1>1. TypeOK /\ RequestsFit /\ RowsFit /\ PeriodsFit /\ PurchasesFit /\ LocksExclude
  BY DEF BaseInv
<1>2. BoundsFit
  BY <1>1, PurchasesAreBounded
<1>3. TypeOK' /\ RowsStay
  BY <1>1, <1>2, RowsAreTyped
<1> QED BY <1>1, <1>2, <1>3, RequestsKept, RowsKept, PeriodsKept, PurchasesKept, LocksKept
        DEF BaseInv

-----------------------------------------------------------------------------
(***************************************************************************)
(* Decisions.  A transaction that has decided holds all its locks, so what  *)
(* it decided by is still so when it writes.                               *)
(***************************************************************************)

\* The locks a transaction has.
LEMMA LocksHad ==
  ASSUME TypeOK, RequestsFit, NEW c \in Client, Active(c)
  PROVE  /\ \A n \in 1..held[c] : LocksOf(request[c])[n] \in HeldBy(c)
         /\ request[c].kind = "LAUNCH" /\ held[c] >= 1 =>
              Exclusive("job-launch", "organization") \in HeldBy(c)
         /\ Decided(c) =>
              /\ request[c].kind = "START" =>
                   /\ Exclusive("project-start", request[c].project) \in HeldBy(c)
                   /\ Exclusive("cost", request[c].period) \in HeldBy(c)
              /\ request[c].kind \in JobKinds => Exclusive("job", request[c].job) \in HeldBy(c)
              /\ request[c].kind = "LAUNCH" => held[c] >= 2
<1>1. \A n \in 1..held[c] : LocksOf(request[c])[n] \in HeldBy(c)
  BY DEF HeldBy
<1>2. request[c] \in Requests /\ held[c] \in Nat
  BY Rows
<1>3. ASSUME request[c].kind = "LAUNCH", held[c] >= 1
      PROVE  Exclusive("job-launch", "organization") \in HeldBy(c)
  <2>1. LocksOf(request[c])[1] = Exclusive("job-launch", "organization")
    BY <1>2, <1>3, LocksByKind DEF LaunchLocks
  <2>2. 1 \in 1..held[c]
    BY <1>2, <1>3
  <2> QED BY <1>1, <2>1, <2>2
<1>4. ASSUME Decided(c), request[c].kind = "START"
      PROVE  /\ Exclusive("project-start", request[c].project) \in HeldBy(c)
             /\ Exclusive("cost", request[c].period) \in HeldBy(c)
  <2>1. LocksOf(request[c]) = StartLocks(request[c]) /\ Len(StartLocks(request[c])) = 3
    BY <1>2, <1>4, LocksByKind
  <2>2. held[c] = 3 /\ 1 \in 1..held[c] /\ 2 \in 1..held[c]
    BY <1>4, <2>1 DEF Decided
  <2>3. /\ StartLocks(request[c])[1] = Exclusive("project-start", request[c].project)
        /\ StartLocks(request[c])[2] = Exclusive("cost", request[c].period)
    BY DEF StartLocks
  <2> QED BY <1>1, <2>1, <2>2, <2>3
<1>5. ASSUME Decided(c), request[c].kind \in JobKinds
      PROVE  /\ Exclusive("job", request[c].job) \in HeldBy(c)
             /\ request[c].kind = "LAUNCH" => held[c] >= 2
  <2>1. CASE request[c].kind = "LAUNCH"
    <3>1. LocksOf(request[c]) = LaunchLocks(request[c]) /\ Len(LaunchLocks(request[c])) = 6
      BY <1>2, <2>1, LocksByKind
    <3>2. held[c] = 6 /\ 6 \in 1..held[c]
      BY <1>5, <3>1 DEF Decided
    <3>3. LaunchLocks(request[c])[6] = Exclusive("job", request[c].job)
      BY DEF LaunchLocks
    <3> QED BY <1>1, <3>1, <3>2, <3>3
  <2>2. CASE request[c].kind = "FAIL"
    <3>1. LocksOf(request[c]) = FailLocks(request[c]) /\ Len(FailLocks(request[c])) = 3
      BY <1>2, <2>2, LocksByKind
    <3>2. held[c] = 3 /\ 3 \in 1..held[c]
      BY <1>5, <3>1 DEF Decided
    <3>3. FailLocks(request[c])[3] = Exclusive("job", request[c].job)
      BY DEF FailLocks
    <3> QED BY <1>1, <2>2, <3>1, <3>2, <3>3
  <2>3. CASE request[c].kind \in {"PUBLISH", "END_WAITING", "END_LAUNCHED"}
    <3>1. LocksOf(request[c]) = EndLocks(request[c]) /\ Len(EndLocks(request[c])) = 4
      BY <1>2, <2>3, LocksByKind
    <3>2. held[c] = 4 /\ 4 \in 1..held[c]
      BY <1>5, <3>1 DEF Decided
    <3>3. EndLocks(request[c])[4] = Exclusive("job", request[c].job)
      BY DEF EndLocks
    <3> QED BY <1>1, <2>3, <3>1, <3>2, <3>3
  <2> QED BY <1>5, <2>1, <2>2, <2>3 DEF JobKinds
<1>6. request[c].kind = "LAUNCH" => request[c].kind \in JobKinds
  BY DEF JobKinds
<1> QED BY <1>1, <1>3, <1>4, <1>5, <1>6

\* One lock that excludes is held by one transaction.
LEMMA OneHolder ==
  ASSUME LocksExclude, NEW c \in Client, NEW d \in Client, NEW what, NEW which,
         Exclusive(what, which) \in HeldBy(c), Exclusive(what, which) \in HeldBy(d)
  PROVE  c = d
<1>1. Conflict(Exclusive(what, which), Exclusive(what, which))
  BY DEF Conflict, Exclusive
<1> QED BY <1>1 DEF LocksExclude

\* No job takes its project back.
LEMMA ProjectsAreLetGo ==
  ASSUME TypeOK, RequestsFit, DecisionsHold,
         \/ \E c \in Client : JobWriter(c)
         \/ \E j \in Started : Assembled(j) \/ Revise(j)
  PROVE  /\ Started' = Started
         /\ \A i \in Started : holdsItsProject(i)' => holdsItsProject(i)
<1>1. ASSUME NEW j \in Started, Started' = Started,
             \A i \in Started : i # j => job'[i] = job[i], job[j].state # "FAILED_TERMINAL"
      PROVE  /\ Started' = Started
             /\ \A i \in Started : holdsItsProject(i)' => holdsItsProject(i)
  BY <1>1 DEF holdsItsProject, JOB_STATES_ENDED_WITHOUT_A_VIDEO
<1>2. ASSUME NEW c \in Client, JobWriter(c)
      PROVE  request[c].job \in Started /\ job[request[c].job].state # "FAILED_TERMINAL"
  <2>1. Decided(c) /\ request[c].kind \in JobKinds /\ request[c].job \in Started
    BY <1>2, JobIsWritten
  <2>2. DecisionHolds(c)
    BY <2>1 DEF DecisionsHold
  <2> QED BY <2>1, <2>2 DEF DecisionHolds, JobKinds, PublicationDue, SettlementDue, HoldsAPlace,
             JOB_STATES_HOLDING_A_PLACE
<1>3. ASSUME NEW c \in Client, JobWriter(c)
      PROVE  /\ Started' = Started
             /\ \A i \in Started : holdsItsProject(i)' => holdsItsProject(i)
  <2> DEFINE j == request[c].job
  <2>1. /\ j \in Started /\ Started' = Started /\ \A i \in Started : i # j => job'[i] = job[i]
        /\ job[j].state # "FAILED_TERMINAL"
    BY <1>2, <1>3, WrittenRows
  <2> HIDE DEF j
  <2> QED BY <1>1, <2>1
<1>4. ASSUME NEW j \in Started, Assembled(j) \/ Revise(j)
      PROVE  /\ Started' = Started
             /\ \A i \in Started : holdsItsProject(i)' => holdsItsProject(i)
  <2>1. /\ Started' = Started /\ \A i \in Started : i # j => job'[i] = job[i]
        /\ job[j].state # "FAILED_TERMINAL"
    BY <1>4, PipelineRows
  <2> QED BY <1>1, <2>1
<1> QED BY <1>3, <1>4

\* What a decision is about is the same while its transaction does nothing.
Undisturbed(d) ==
  /\ request'[d] = request[d]
  /\ request[d].kind \in JobKinds =>
       job'[request[d].job].state = job[request[d].job].state
       /\ job'[request[d].job].reservation = job[request[d].job].reservation
  /\ request[d].kind = "START" =>
       \A j \in Started' : job'[j].project = request[d].project =>
         /\ j \in Started /\ job'[j].project = job[j].project /\ job'[j].key = job[j].key
         /\ holdsItsProject(j)' => holdsItsProject(j)

LEMMA UndisturbedHolds ==
  ASSUME NEW d \in Client, DecisionHolds(d), Undisturbed(d)
  PROVE  DecisionHolds(d)'
<1>1. request[d].kind = "START" =>
        ~findStarted(request[d].project, request[d].key)' /\ ~findHolding(request[d].project)'
  BY DEF DecisionHolds, Undisturbed, findStarted, findHolding
<1>2. request[d].kind \in JobKinds => (PublicationDue(request[d].job)' <=> PublicationDue(request[d].job))
      /\ (SettlementDue(request[d].job)' <=> SettlementDue(request[d].job))
  BY DEF Undisturbed, PublicationDue, SettlementDue, IsFirstVideo, HoldsAPlace
<1> QED BY <1>1, <1>2 DEF DecisionHolds, Undisturbed, JobKinds, findStarted, findHolding

LEMMA DecisionsKept ==
  ASSUME BaseInv, BaseInv', RowsStay, BoundsFit, DecisionsHold, [Next]_vars
  PROVE  DecisionsHold'
<1>1. TypeOK /\ TypeOK' /\ RequestsFit /\ RowsFit /\ LocksExclude
  BY DEF BaseInv
<1>2. ASSUME NEW d \in Client, Decide(d) PROVE DecisionHolds(d)'
  <2>1. /\ Active(d) /\ GoesOn(request[d]) /\ UNCHANGED <<job, deleted>> /\ Carried(d)
    <3>1. GoesOn(request[d]) /\ UNCHANGED <<job, deleted>>
      BY <1>2 DEF Decide, ledger, people
    <3> QED BY <1>1, <1>2, <3>1, FurtherActor DEF GoesFurther
  <2>2. /\ request'[d].kind = request[d].kind
        /\ request[d].kind = "START" =>
             request'[d].project = request[d].project /\ request'[d].key = request[d].key
        /\ request[d].kind \in JobKinds => request'[d].job = request[d].job
    BY <2>1 DEF Carried
  <2>3. CASE request[d].kind = "START"
    <3>1. ~findStarted(request[d].project, request[d].key) /\ ~findHolding(request[d].project)
      BY <2>1, <2>3 DEF GoesOn, StartRefused
    <3>2. ~findStarted(request[d].project, request[d].key)' /\ ~findHolding(request[d].project)'
      BY <2>1, <2>2, <2>3, <3>1 DEF findStarted, findHolding, Started, holdsItsProject
    <3> QED BY <2>2, <2>3, <3>2 DEF DecisionHolds
  <2>4. CASE request[d].kind \in JobKinds
    <3>1. /\ request[d].kind \in {"LAUNCH", "END_WAITING"} =>
               job[request[d].job].state = "RESERVED" /\ job[request[d].job].reservation = "RESERVED"
          /\ request[d].kind = "PUBLISH" => PublicationDue(request[d].job)
          /\ request[d].kind \in {"FAIL", "END_LAUNCHED"} => SettlementDue(request[d].job)
      BY <2>1, <2>4 DEF GoesOn, decideJobLaunch, decideUnlaunchableJobEnding,
         decideLaunchedJobEnding, IsFirstVideo, SettlementDue, HoldsAPlace,
         JOB_STATES_HOLDING_A_PLACE, JOB_STATES_BEFORE_ASSEMBLY
    <3>2. request'[d].job = request[d].job /\ job' = job
      BY <2>1, <2>2, <2>4
    <3>3. /\ request[d].kind = "PUBLISH" => PublicationDue(request[d].job)'
          /\ request[d].kind \in {"FAIL", "END_LAUNCHED"} => SettlementDue(request[d].job)'
      BY <3>1, <3>2 DEF PublicationDue, SettlementDue, IsFirstVideo, HoldsAPlace
    <3> QED BY <2>2, <2>4, <3>1, <3>2, <3>3 DEF DecisionHolds, JobKinds
  <2>5. CASE request[d].kind \notin JobKinds \cup {"START"}
    BY <2>2, <2>5 DEF DecisionHolds, JobKinds
  <2> QED BY <2>3, <2>4, <2>5
<1>3. ASSUME NEW d \in Client, Same(d), Decided(d) PROVE DecisionHolds(d)'
  <2>1. DecisionHolds(d) /\ request'[d] = request[d] /\ Active(d) /\ Active(d)'
    BY <1>1, <1>3, StillActor DEF DecisionsHold, Same, Decided
  <2>2. request[d].kind \in JobKinds => request[d].job \in Started
    BY <1>1 DEF RequestsFit, RequestFits
  <2>3. \A j \in Started : job'[j].project = job[j].project /\ job'[j].key = job[j].key
    BY DEF RowsStay
  <2>5. CASE UNCHANGED job
    <3>1. Undisturbed(d)
      BY <2>1, <2>5 DEF Undisturbed, Started, holdsItsProject
    <3> QED BY <2>1, <3>1, UndisturbedHolds
  <2>6. ASSUME NEW c \in Client, Ended(c) PROVE c # d
    BY <1>1, <2>1, <2>6, EndedActor
  <2>7. ASSUME NEW c \in Client, WriteStart(c) PROVE Undisturbed(d)
    <3>1. Ended(c) /\ Decided(c) /\ c # d /\ request[c].kind = "START" /\ Active(c)
          /\ job' = Append(job, StartedJob(request[c]))
      BY <2>6, <2>7, WriterEnds DEF Writing, WriteStart, Writes, Decided
    <3>2. request[c] \in Starts
      BY <1>1, <3>1, Rows, RequestOfKind
    <3>3. /\ Started' = Started \cup {Len(job) + 1} /\ job'[Len(job) + 1] = StartedJob(request[c])
          /\ \A j \in Started : job'[j] = job[j]
      BY <1>1, <3>1, <3>2, JobStarts
    <3>4. request[d].kind = "START" => request[d].project # request[c].project
      <4>1. Exclusive("project-start", request[c].project) \in HeldBy(c)
        BY <1>1, <3>1, LocksHad
      <4>2. request[d].kind = "START" =>
              Exclusive("project-start", request[d].project) \in HeldBy(d)
        BY <1>1, <1>3, <2>1, LocksHad
      <4> QED BY <1>1, <3>1, <4>1, <4>2, OneHolder
    <3>5. StartedJob(request[c]).project = request[c].project
      BY DEF StartedJob
    <3> QED BY <2>1, <2>2, <3>3, <3>4, <3>5 DEF Undisturbed, holdsItsProject
  <2>8. ASSUME NEW c \in Client, JobWriter(c) PROVE Undisturbed(d)
    <3>1. Ended(c) /\ Decided(c) /\ c # d /\ request[c].kind \in JobKinds /\ Active(c)
      BY <1>1, <2>6, <2>8, WriterEnds, JobIsWritten
    <3>2. \A i \in Started : i # request[c].job => job'[i] = job[i]
      BY <1>1, <2>8, WrittenRows
    <3>3. request[d].kind \in JobKinds => request[d].job # request[c].job
      <4>1. Exclusive("job", request[c].job) \in HeldBy(c)
        BY <1>1, <3>1, LocksHad
      <4>2. request[d].kind \in JobKinds => Exclusive("job", request[d].job) \in HeldBy(d)
        BY <1>1, <1>3, <2>1, LocksHad
      <4> QED BY <1>1, <3>1, <4>1, <4>2, OneHolder
    <3>4. Started' = Started /\ \A i \in Started : holdsItsProject(i)' => holdsItsProject(i)
      BY <1>1, <2>8, ProjectsAreLetGo
    <3> QED BY <2>1, <2>2, <2>3, <3>2, <3>3, <3>4 DEF Undisturbed
  <2>9. ASSUME NEW j \in Started, Assembled(j) \/ Revise(j) PROVE DecisionHolds(d)'
    <3>1. /\ Started' = Started /\ \A i \in Started : i # j => job'[i] = job[i]
          /\ job'[j].reservation = job[j].reservation
          /\ \/ /\ job[j].state = "GENERATING" /\ job[j].reservation = "RESERVED"
                /\ job'[j].state = "DELIVERABLE_VALIDATING"
             \/ job[j].state = "DELIVERABLE_READY" /\ job'[j].state = "GENERATING"
             \/ /\ job[j].state = "GENERATING" /\ job[j].reservation # "RESERVED"
                /\ job'[j].state = "DELIVERABLE_READY"
      BY <1>1, <2>9, PipelineRows
    <3>2. \A i \in Started : holdsItsProject(i)' => holdsItsProject(i)
      BY <1>1, <2>9, ProjectsAreLetGo
    <3>3. CASE ~(request[d].kind \in JobKinds /\ request[d].job = j)
      <4>1. Undisturbed(d)
        BY <2>1, <2>2, <2>3, <3>1, <3>2, <3>3 DEF Undisturbed
      <4> QED BY <2>1, <4>1, UndisturbedHolds
    <3>4. CASE request[d].kind \in JobKinds /\ request[d].job = j
      <4>1. request[d].kind \in {"FAIL", "END_LAUNCHED"}
        <5>1. job[request[d].job].state \in {"GENERATING", "DELIVERABLE_READY"}
          BY <3>1, <3>4
        <5>2. request[d].kind \notin {"LAUNCH", "END_WAITING"}
          BY <2>1, <5>1 DEF DecisionHolds
        <5>3. request[d].kind # "PUBLISH"
          BY <2>1, <5>1 DEF DecisionHolds, PublicationDue
        <5> QED BY <3>4, <5>2, <5>3 DEF JobKinds
      <4>2. SettlementDue(j)'
        <5>1. SettlementDue(j)
          BY <2>1, <3>4, <4>1 DEF DecisionHolds
        <5> QED BY <1>1, <3>1, <5>1 DEF SettlementDue, HoldsAPlace, IsFirstVideo,
                   JOB_STATES_HOLDING_A_PLACE, RowsFit
      <4> QED BY <2>1, <3>4, <4>1, <4>2 DEF DecisionHolds, SettlementDue, HoldsAPlace, IsFirstVideo
    <3> QED BY <3>3, <3>4
  <2> QED BY <2>1, <2>5, <2>7, <2>8, <2>9, JobSteps, UndisturbedHolds
<1>4. SUFFICES ASSUME NEW d \in Client, Decided(d)' PROVE DecisionHolds(d)'
  BY DEF DecisionsHold
<1>5. Same(d) \/ Acts(d)
  BY <1>1, ClientSteps
<1>6. CASE Same(d)
  BY <1>1, <1>3, <1>4, <1>6, StillActor
<1>7. CASE Acts(d)
  <2>1. ~Began(d) /\ ~Ended(d) /\ ~TakeLock(d)
    BY <1>1, <1>4, BegunActor, EndedActor, FurtherActor DEF GoesFurther, RequestsFit
  <2> QED BY <1>2, <1>7, <2>1 DEF Acts
<1> QED BY <1>5, <1>6, <1>7

LEMMA OneHoldingKept ==
  ASSUME BaseInv, RowsStay, DecisionsHold, OneHoldingJobPerProject, [Next]_vars
  PROVE  OneHoldingJobPerProject'
<1>1. TypeOK /\ RequestsFit
  BY DEF BaseInv
<1>2. ASSUME Started' = Started, \A i \in Started : holdsItsProject(i)' => holdsItsProject(i)
      PROVE  OneHoldingJobPerProject'
  BY <1>2 DEF OneHoldingJobPerProject, RowsStay
<1>3. CASE UNCHANGED job
  BY <1>2, <1>3 DEF Started, holdsItsProject
<1>4. ASSUME NEW c \in Client, WriteStart(c) PROVE OneHoldingJobPerProject'
  <2> DEFINE r == request[c]
             new == Len(job) + 1
  <2>1. Decided(c) /\ r.kind = "START" /\ job' = Append(job, StartedJob(r))
    BY <1>4 DEF WriteStart, Writes
  <2>2. r \in Starts
    BY <1>1, <2>1, Rows, RequestOfKind
  <2>3. /\ Started' = Started \cup {new} /\ job'[new] = StartedJob(r)
        /\ \A j \in Started : job'[j] = job[j]
    BY <1>1, <2>1, <2>2, JobStarts
  <2>4. ~findStarted(r.project, r.key) /\ ~findHolding(r.project)
    BY <2>1 DEF DecisionsHold, DecisionHolds
  <2>5. job'[new].project = r.project /\ job'[new].key = r.key
    BY <2>3 DEF StartedJob
  <2>6. \A j \in Started : /\ holdsItsProject(j)' <=> holdsItsProject(j)
                           /\ job[j].project = r.project =>
                                ~holdsItsProject(j) /\ job[j].key # r.key
    BY <2>3, <2>4 DEF holdsItsProject, findStarted, findHolding
  <2> HIDE DEF r, new
  <2> SUFFICES ASSUME NEW i \in Started', NEW j \in Started', i # j,
                      job'[i].project = job'[j].project
               PROVE  ~(holdsItsProject(i)' /\ holdsItsProject(j)') /\ job'[i].key # job'[j].key
    BY DEF OneHoldingJobPerProject
  <2>7. CASE i \in Started /\ j \in Started
    BY <2>3, <2>6, <2>7 DEF OneHoldingJobPerProject
  <2>8. CASE i = new \/ j = new
    BY <2>3, <2>5, <2>6, <2>8
  <2> QED BY <2>3, <2>7, <2>8
<1> QED BY <1>1, <1>2, <1>3, <1>4, JobSteps, ProjectsAreLetGo

\* No step but a launch gives a first video a place.
LEMMA PlacesAreGiven ==
  ASSUME BaseInv, [Next]_vars, ~\E c \in Client : WriteLaunch(c)
  PROVE  Placed' \subseteq Placed
<1>1. TypeOK /\ RequestsFit /\ RowsFit
  BY DEF BaseInv
<1>2. CASE UNCHANGED job
  BY <1>2 DEF Placed, Started, HoldsAPlace, IsFirstVideo
<1>3. ASSUME NEW c \in Client, WriteStart(c) PROVE Placed' \subseteq Placed
  <2>1. request[c].kind = "START" /\ job' = Append(job, StartedJob(request[c]))
    BY <1>3 DEF WriteStart, Writes
  <2>2. request[c] \in Starts
    BY <1>1, <2>1, Rows, RequestOfKind
  <2>3. /\ Started' = Started \cup {Len(job) + 1} /\ job'[Len(job) + 1] = StartedJob(request[c])
        /\ \A j \in Started : job'[j] = job[j]
    BY <1>1, <2>1, <2>2, JobStarts
  <2>4. StartedJob(request[c]).state = "RESERVED"
    BY DEF StartedJob
  <2> QED BY <2>3, <2>4 DEF Placed, HoldsAPlace, IsFirstVideo, JOB_STATES_HOLDING_A_PLACE
<1>4. ASSUME NEW j \in Started, Started' = Started,
             \A i \in Started : i # j => job'[i] = job[i],
             HoldsAPlace(j)' /\ IsFirstVideo(j)' => HoldsAPlace(j) /\ IsFirstVideo(j)
      PROVE  Placed' \subseteq Placed
  BY <1>4 DEF Placed, HoldsAPlace, IsFirstVideo
<1>5. ASSUME NEW c \in Client, JobWriter(c) PROVE Placed' \subseteq Placed
  <2>1. PICK j \in Started : j = request[c].job
    BY <1>1, <1>5, JobIsWritten
  <2>2. /\ Started' = Started /\ \A i \in Started : i # j => job'[i] = job[i]
        /\ <<request[c].kind, job'[j].state, job'[j].reservation>> \in Outcomes
    BY <1>1, <1>5, <2>1, WrittenRows
  <2>3. request[c].kind # "LAUNCH"
    BY <1>5 DEF JobWriter, WritePublish, WriteFail, WriteEndWaiting, WriteEndLaunched, Writes
  <2>4. job'[j].state \notin {"GENERATING", "DELIVERABLE_VALIDATING"}
    BY <2>2, <2>3 DEF Outcomes
  <2>5. ~HoldsAPlace(j)'
    BY <2>4 DEF HoldsAPlace, JOB_STATES_HOLDING_A_PLACE
  <2> QED BY <1>4, <2>2, <2>5
<1>6. ASSUME NEW j \in Started, Assembled(j) \/ Revise(j) PROVE Placed' \subseteq Placed
  <2>1. /\ Started' = Started /\ \A i \in Started : i # j => job'[i] = job[i]
        /\ job'[j].reservation = job[j].reservation
        /\ \/ /\ job[j].state = "GENERATING" /\ job[j].reservation = "RESERVED"
              /\ job'[j].state = "DELIVERABLE_VALIDATING"
           \/ job[j].state = "DELIVERABLE_READY" /\ job'[j].state = "GENERATING"
           \/ /\ job[j].state = "GENERATING" /\ job[j].reservation # "RESERVED"
              /\ job'[j].state = "DELIVERABLE_READY"
    BY <1>1, <1>6, PipelineRows
  <2>2. HoldsAPlace(j)' /\ IsFirstVideo(j)' => HoldsAPlace(j) /\ IsFirstVideo(j)
    BY <1>1, <2>1 DEF HoldsAPlace, IsFirstVideo, JOB_STATES_HOLDING_A_PLACE, RowsFit
  <2> QED BY <1>4, <2>1, <2>2
<1> QED BY <1>2, <1>3, <1>5, <1>6, JobSteps

LEMMA PlacesAreCounted ==
  ASSUME TypeOK
  PROVE  IsFiniteSet(Placed) /\ Cardinality(Placed) \in Nat /\ Cardinality(Placed) <= PlacesHeld
<1> DEFINE places == {j \in Started : HoldsAPlace(j)}
<1>1. IsFiniteSet(Started)
  BY Rows
<1>2. IsFiniteSet(places)
  BY <1>1, FS_Subset
<1>3. Placed \in SUBSET places
  BY DEF Placed
<1>4. IsFiniteSet(Placed) /\ Cardinality(Placed) <= Cardinality(places)
  BY <1>2, <1>3, FS_Subset
<1> QED BY <1>4, FS_CardinalityType DEF PlacesHeld

PlacesAreNatural == Cardinality(Placed) \in Nat

LEMMA PlacesAreCountedNow == TypeOK => PlacesAreNatural
BY PlacesAreCounted DEF PlacesAreNatural

LEMMA PlacesAreCountedThen == TypeOK' => PlacesAreNatural'
BY PlacesAreCountedNow, PTL

\* A launch that writes takes one place.
LEMMA LaunchTakesAPlace ==
  ASSUME TypeOK, RequestsFit, NEW c \in Client, WriteLaunch(c)
  PROVE  Cardinality(Placed') <= Cardinality(Placed) + 1
<1> DEFINE j == request[c].job
<1>1. JobWriter(c)
  BY DEF JobWriter
<1>2. /\ Started' = Started /\ \A i \in Started : i # j => job'[i] = job[i]
  BY <1>1, WrittenRows
<1> HIDE DEF j
<1>3. Placed' \subseteq Placed \cup {j}
  BY <1>2 DEF Placed, HoldsAPlace, IsFirstVideo
<1> QED BY <1>3, PlacesAreCounted, AtMostOneMore

LEMMA PlacesKept ==
  ASSUME BaseInv, BaseInv', RowsStay, BoundsFit, PlacesFit, PlacesWithinLimit, [Next]_vars
  PROVE  PlacesFit' /\ PlacesWithinLimit'
<1>1. TypeOK /\ TypeOK' /\ RequestsFit /\ RowsFit /\ LocksExclude
  BY DEF BaseInv
<1> DEFINE limit == Plan[subscription.planKey].concurrentJobs
           n == Cardinality(Placed)
           m == Cardinality(Placed')
<1>2. n \in Nat /\ n <= PlacesHeld
  BY <1>1, PlacesAreCounted
<1>3. m \in Nat
  BY <1>1, PlacesAreCountedThen DEF PlacesAreNatural
<1>4. subscription # NoSubscription => subscription' = subscription /\ limit \in Nat
  BY <1>1, PlanOfContract DEF RowsStay, PlanFacts
<1>5. subscription = NoSubscription => UNCHANGED job
  <2>1. SUFFICES ASSUME subscription = NoSubscription PROVE UNCHANGED job
    OBVIOUS
  <2>2. Started = {}
    BY <1>1, <2>1 DEF RowsFit
  <2>3. ASSUME NEW c \in Client, WriteStart(c) PROVE FALSE
    BY <1>1, <2>1, <2>3 DEF WriteStart, Writes, RequestsFit, RequestFits
  <2>4. ASSUME NEW c \in Client, JobWriter(c) PROVE FALSE
    BY <1>1, <2>2, <2>4, JobIsWritten
  <2> QED BY <2>2, <2>3, <2>4, JobSteps
<1>6. ASSUME NEW c \in Client, WriteLaunch(c)
      PROVE  /\ Active(c) /\ ~Active(c)' /\ n < limit /\ m <= n + 1
             /\ Exclusive("job-launch", "organization") \in HeldBy(c)
  <2>1. Decided(c) /\ Active(c) /\ request[c].kind = "LAUNCH" /\ Ended(c)
    BY <1>6, WriterEnds DEF Writing, WriteLaunch, Writes, Decided
  <2>2. held[c] >= 2
    BY <1>1, <2>1, LocksHad
  <2>3. held[c] >= 1
    BY <1>1, <2>2, Rows
  <2> QED BY <1>1, <1>6, <2>1, <2>2, <2>3, EndedActor, LocksHad, LaunchTakesAPlace DEF PlacesFit
<1>7. (~\E c \in Client : WriteLaunch(c)) => m <= n
  <2>1. SUFFICES ASSUME ~\E c \in Client : WriteLaunch(c) PROVE m <= n
    OBVIOUS
  <2>2. Placed' \subseteq Placed
    BY <2>1, PlacesAreGiven
  <2> QED BY <1>1, <2>2, PlacesAreCounted, FS_Subset
<1> HIDE DEF n, m, limit
<1>8. PlacesWithinLimit'
  <2> SUFFICES ASSUME subscription' # NoSubscription
               PROVE  m <= Plan[subscription'.planKey].concurrentJobs
    BY DEF PlacesWithinLimit, m, Placed
  <2>1. CASE subscription = NoSubscription
    <3>1. Started = {} /\ UNCHANGED job
      BY <1>1, <1>5, <2>1 DEF RowsFit
    <3>2. Placed' = {}
      BY <3>1 DEF Placed, Started
    <3>3. m = 0
      BY <3>2, FS_EmptySet DEF m
    <3>4. Plan[subscription'.planKey].concurrentJobs \in Nat
      <4>1. subscription' \in Offer
        BY <1>1 DEF TypeOK
      <4>2. Plan[subscription'.planKey] \in PlanFacts
        BY <4>1, CatalogAssumption, LedgerAssumption DEF CatalogAssumption, LedgerAssumption
      <4> QED BY <4>2 DEF PlanFacts
    <3> QED BY <3>3, <3>4
  <2>2. CASE subscription # NoSubscription
    <3>1. n <= limit /\ subscription' = subscription /\ limit \in Nat
      BY <1>4, <2>2 DEF PlacesWithinLimit, n, limit, Placed
    <3>2. m <= limit
      BY <1>2, <1>3, <1>6, <1>7, <3>1
    <3> QED BY <3>1, <3>2 DEF limit
  <2> QED BY <2>1, <2>2
<1>9. ASSUME NEW d \in Client, request'[d].kind = "LAUNCH", held'[d] >= 2
      PROVE  m < Plan[subscription'.planKey].concurrentJobs
  <2>1. (Same(d) \/ GoesFurther(d)) /\ Active(d) /\ request[d].kind = "LAUNCH"
    <3>1. Same(d) \/ Acts(d)
      BY <1>1, ClientSteps
    <3>2. ~(Began(d) \/ Ended(d))
      <4>1. held'[d] # 0
        BY <1>9
      <4> QED BY <1>1, <4>1, BegunActor, EndedActor DEF RequestsFit
    <3>3. request[d].kind = request'[d].kind
      BY <1>1, <3>1, <3>2, FurtherActor DEF Acts, GoesFurther, Same, Carried
    <3> QED BY <1>9, <3>1, <3>2, <3>3 DEF Acts, GoesFurther, Active
  <2>2. subscription # NoSubscription
    <3>1. request[d].job \in Started
      BY <1>1, <2>1 DEF RequestsFit, RequestFits, JobKinds
    <3> QED BY <1>1, <3>1 DEF RowsFit
  <2>3. subscription' = subscription /\ limit \in Nat
    BY <1>4, <2>2
  <2>4. held[d] \in Nat /\ held[d] >= 1
    <3>1. held[d] \in Nat
      BY <1>1, Rows
    <3>2. Same(d) => held'[d] = held[d]
      BY DEF Same
    <3>3. GoesFurther(d) => held'[d] = held[d] + 1
      BY <1>1, FurtherActor
    <3> QED BY <1>9, <2>1, <3>1, <3>2, <3>3
  <2>5. n < limit
    <3>1. CASE held[d] >= 2
      BY <2>1, <3>1 DEF PlacesFit, n, limit
    <3>2. CASE held[d] = 1
      <4>1. TakeLock(d)
        <5>1. GoesFurther(d)
          <6>1. Same(d) => held'[d] = held[d]
            BY DEF Same
          <6> QED BY <1>9, <2>1, <3>2, <6>1
        <5>2. Len(LocksOf(request[d])) = 6
          BY <1>1, <2>1, Rows, LocksByKind
        <5>3. ~Decide(d)
          BY <3>2, <5>2 DEF Decide, Granted
        <5> QED BY <5>1, <5>3 DEF GoesFurther
      <4>2. ~HeldBack(d)
        BY <4>1 DEF TakeLock
      <4>3. NextLock(d) = Reading("places")
        <5>1. LocksOf(request[d]) = LaunchLocks(request[d])
          BY <1>1, <2>1, Rows, LocksByKind
        <5>2. LaunchLocks(request[d])[2] = Reading("places")
          BY DEF LaunchLocks
        <5> QED BY <3>2, <5>1, <5>2 DEF NextLock
      <4>4. PlacesHeld < limit
        BY <4>2, <4>3 DEF HeldBack, PlaceFree, limit
      <4>5. PlacesHeld \in Nat
        <5>1. IsFiniteSet({j \in Started : HoldsAPlace(j)})
          BY <1>1, Rows, FS_Subset
        <5> QED BY <5>1, FS_CardinalityType DEF PlacesHeld
      <4> QED BY <1>2, <2>3, <4>4, <4>5
    <3> QED BY <2>4, <3>1, <3>2
  <2>6. m <= n
    <3>1. ASSUME NEW c \in Client, WriteLaunch(c) PROVE FALSE
      <4>1. Exclusive("job-launch", "organization") \in HeldBy(c) /\ ~Active(c)'
        BY <1>6, <3>1
      <4>2. Exclusive("job-launch", "organization") \in HeldBy(d)
        BY <1>1, <2>1, <2>4, LocksHad
      <4>3. c = d
        BY <1>1, <4>1, <4>2, OneHolder
      <4> QED BY <1>9, <4>1, <4>3 DEF Active
    <3> QED BY <1>7, <3>1
  <2>7. m < limit
    BY <1>2, <1>3, <2>3, <2>5, <2>6
  <2> QED BY <2>3, <2>7 DEF limit
<1> QED BY <1>8, <1>9 DEF PlacesFit, m

-----------------------------------------------------------------------------
(***************************************************************************)
(* The invariant, and what follows from it.                                *)
(***************************************************************************)

LEMMA InitBase == Init => LockInv
<1> SUFFICES ASSUME Init PROVE LockInv
  OBVIOUS
<1>1. /\ clock = FirstDay /\ subscription = NoSubscription /\ opened = {} /\ purchase = << >>
      /\ job = << >> /\ deleted = {} /\ approver = TRUE
      /\ request = [c \in Client |-> Idle] /\ held = [c \in Client |-> 0]
  BY DEF Init
<1>2. Started = {} /\ Bought = {}
  BY <1>1 DEF Started, Bought
<1>3. \A c \in Client : ~Active(c) /\ request[c].kind = "IDLE" /\ held[c] = 0
  BY <1>1 DEF Active, Idle
<1>4. TypeOK
  <2>1. Idle \in Requests
    BY DEF Requests
  <2>2. FirstDay \in Day
    BY LedgerAssumption DEF LedgerAssumption
  <2> QED BY <1>1, <2>1, <2>2 DEF TypeOK
<1>5. RequestsFit
  BY <1>3 DEF RequestsFit, RequestFits, JobKinds
<1>6. RowsFit
  BY <1>2 DEF RowsFit
<1>7. PeriodsFit
  BY <1>1 DEF PeriodsFit
<1>8. PurchasesFit
  <2>1. {c \in Client : request[c].kind = "APPROVE" /\ Decided(c)} = {}
    BY <1>3
  <2>2. ToWrite("APPROVE") = 0
    BY <2>1, FS_EmptySet DEF ToWrite
  <2>3. Len(purchase) = 0
    BY <1>1
  <2> QED BY <2>2, <2>3, LedgerAssumption DEF PurchasesFit, LedgerAssumption
<1>9. LocksExclude
  BY <1>3 DEF LocksExclude, HeldBy
<1>10. DecisionsHold /\ PlacesFit
  BY <1>3 DEF DecisionsHold, PlacesFit, Decided
<1>11. OneHoldingJobPerProject /\ PlacesWithinLimit
  BY <1>1, <1>2 DEF OneHoldingJobPerProject, PlacesWithinLimit
<1> QED BY <1>4, <1>5, <1>6, <1>7, <1>8, <1>9, <1>10, <1>11 DEF LockInv, BaseInv

LEMMA LockInvKept == LockInv /\ [Next]_vars => LockInv'
<1> SUFFICES ASSUME LockInv, [Next]_vars PROVE LockInv'
  OBVIOUS
<1>1. BaseInv /\ DecisionsHold /\ OneHoldingJobPerProject /\ PlacesFit /\ PlacesWithinLimit
  BY DEF LockInv
<1>2. BaseInv' /\ RowsStay /\ BoundsFit
  BY <1>1, BaseKept
<1> QED BY <1>1, <1>2, DecisionsKept, OneHoldingKept, PlacesKept DEF LockInv

LEMMA LockInvariant == Spec => []LockInv
BY InitBase, LockInvKept, PTL DEF Spec

-----------------------------------------------------------------------------
(***************************************************************************)
(* Units.  A start's allocation is what its period's pools and blocks had   *)
(* left when it decided; the lock on its period keeps that so to its write. *)
(***************************************************************************)

\* The Units drawn of a source by some jobs, as given rows say.
UnitsIn(rows, jobs, s) ==
  UNION {{j} \X (1..rows[j].allocated[s]) :
           j \in {i \in jobs : occupiesEntitlement(rows[i].reservation)}}

DrawnOfPlan(i) == Drawn(JobsOfPeriod(i), 0)
HighQualityJobs(i) == {j \in JobsOfPeriod(i) : QualityOf(j) = "HIGH_QUALITY"}
DrawnHighQuality(i) == Drawn(HighQualityJobs(i), 0)
DrawnOfBlock(u) == Drawn(Started, u)

\* A job's Units are the plan's, or of blocks of its own period and quality.
AllocationsFit ==
  \A j \in Started :
    /\ job[j].period \in opened
    /\ \A s \in Source : s # 0 /\ job[j].allocated[s] > 0 =>
         /\ s \in Bought /\ purchase[s].period = job[j].period
         /\ purchase[s].quality = QualityOf(j)

\* What a start has seen is there beside all that was drawn.
SeenFits(r) ==
  /\ DrawnOfPlan(r.period) + r.seen[0] <= Plan[subscription.planKey].baseUnits
  /\ OrderOf[r.project].quality = "HIGH_QUALITY" =>
       DrawnHighQuality(r.period) + r.seen[0]
         <= Plan[subscription.planKey].includedHighQualityUnits
  /\ \A s \in Source : s # 0 /\ r.seen[s] > 0 =>
       /\ s \in Bought /\ purchase[s].period = r.period
       /\ purchase[s].quality = OrderOf[r.project].quality
       /\ DrawnOfBlock(s) + r.seen[s] <= purchase[s].units

StartsFit ==
  \A c \in Client : request[c].kind = "START" /\ Decided(c) => SeenFits(request[c])

SpendInv == LockInv /\ AllocationsFit /\ StartsFit /\ NoUnitSpentTwice

LEMMA UnitsInRows ==
  ASSUME NEW rows, NEW jobs, IsFiniteSet(jobs), NEW s,
         \A j \in jobs : rows[j].allocated[s] \in Nat
  PROVE  /\ UnitsIn(rows, jobs, s)
              = {u \in jobs \X Int : /\ occupiesEntitlement(rows[u[1]].reservation)
                                     /\ u[2] \in 1..rows[u[1]].allocated[s]}
         /\ IsFiniteSet(UnitsIn(rows, jobs, s)) /\ Cardinality(UnitsIn(rows, jobs, s)) \in Nat
<1> DEFINE S == {i \in jobs : occupiesEntitlement(rows[i].reservation)}
           f == [j \in S |-> rows[j].allocated[s]]
<1>1. IsFiniteSet(S)
  BY FS_Subset
<1>2. f \in [S -> Nat] /\ \A j \in S : f[j] = rows[j].allocated[s]
  OBVIOUS
<1>3. UnitsIn(rows, jobs, s) = UnitsOf(S, f)
  BY DEF UnitsIn, UnitsOf
<1>4. UnitsOf(S, f) = {u \in S \X Int : u[2] \in 1..f[u[1]]}
  BY UnitOf
<1>5. UnitsOf(S, f) = {u \in jobs \X Int : /\ occupiesEntitlement(rows[u[1]].reservation)
                                           /\ u[2] \in 1..rows[u[1]].allocated[s]}
  BY <1>2, <1>4
<1> HIDE DEF S, f
<1>6. IsFiniteSet(UnitsOf(S, f)) /\ Cardinality(UnitsOf(S, f)) \in Nat
  BY <1>1, <1>2, UnitsAreFinite
<1> QED BY <1>3, <1>5, <1>6

\* Fewer jobs, some of which gave their Units back, have drawn no more.
LEMMA UnitsFall ==
  ASSUME NEW rows, NEW jobs, IsFiniteSet(jobs), NEW s,
         \A j \in jobs : rows[j].allocated[s] \in Nat,
         NEW later, NEW some \in SUBSET jobs,
         \A j \in some : /\ later[j].allocated[s] = rows[j].allocated[s]
                         /\ occupiesEntitlement(later[j].reservation) =>
                              occupiesEntitlement(rows[j].reservation)
  PROVE  Cardinality(UnitsIn(later, some, s)) <= Cardinality(UnitsIn(rows, jobs, s))
<1>1. IsFiniteSet(some)
  BY FS_Subset
<1>2. UnitsIn(later, some, s) = {u \in some \X Int :
                                   /\ occupiesEntitlement(later[u[1]].reservation)
                                   /\ u[2] \in 1..later[u[1]].allocated[s]}
  BY <1>1, UnitsInRows
<1>3. UnitsIn(rows, jobs, s) = {u \in jobs \X Int :
                                  /\ occupiesEntitlement(rows[u[1]].reservation)
                                  /\ u[2] \in 1..rows[u[1]].allocated[s]}
      /\ IsFiniteSet(UnitsIn(rows, jobs, s))
  BY UnitsInRows
<1>4. UnitsIn(later, some, s) \subseteq UnitsIn(rows, jobs, s)
  BY <1>2, <1>3
<1> QED BY <1>3, <1>4, FS_Subset

\* One more job draws no more than its allocation.
LEMMA UnitsGrow ==
  ASSUME NEW rows, NEW jobs, IsFiniteSet(jobs), NEW s,
         \A j \in jobs : rows[j].allocated[s] \in Nat,
         NEW later, NEW new, new \notin jobs, \A j \in jobs : later[j] = rows[j],
         NEW n \in Nat, later[new].allocated[s] = n
  PROVE  Cardinality(UnitsIn(later, jobs \cup {new}, s))
           <= Cardinality(UnitsIn(rows, jobs, s)) + n
<1> DEFINE old == UnitsIn(rows, jobs, s)
           more == {new} \X (1..n)
           all == UnitsIn(later, jobs \cup {new}, s)
<1>1. IsFiniteSet(old) /\ Cardinality(old) \in Nat
  BY UnitsInRows
<1>2. IsFiniteSet(more) /\ Cardinality(more) = n
  <2>1. IsFiniteSet({new}) /\ Cardinality({new}) = 1
    BY FS_Singleton
  <2>2. 1 \in Int /\ n \in Int
    OBVIOUS
  <2>3. IsFiniteSet(1..n) /\ Cardinality(1..n) = n
    BY <2>2, FS_Interval
  <2>4. /\ IsFiniteSet({new} \X (1..n))
        /\ Cardinality({new} \X (1..n)) = Cardinality({new}) * Cardinality(1..n)
    BY <2>1, <2>3, FS_Product
  <2> QED BY <2>1, <2>3, <2>4
<1>3. all \subseteq old \cup more
  BY DEF UnitsIn
<1> HIDE DEF old, more, all
<1>4. IsFiniteSet(old \cup more)
      /\ Cardinality(old \cup more) = Cardinality(old) + Cardinality(more) - Cardinality(old \cap more)
  BY <1>1, <1>2, FS_Union
<1>5. Cardinality(old \cap more) \in Nat
  <2>1. IsFiniteSet(old \cap more)
    BY <1>1, FS_Subset
  <2> QED BY <2>1, FS_CardinalityType
<1>6. IsFiniteSet(all) /\ Cardinality(all) <= Cardinality(old \cup more)
  BY <1>3, <1>4, FS_Subset
<1>7. Cardinality(all) \in Nat
  BY <1>6, FS_CardinalityType
<1>8. Cardinality(all) <= Cardinality(old) + n
  BY <1>1, <1>2, <1>4, <1>5, <1>6, <1>7
<1> QED BY <1>8 DEF old, all

\* The four counts, as the rows say.
LEMMA DrawnNow ==
  /\ \A i : DrawnOfPlan(i) = Cardinality(UnitsIn(job, JobsOfPeriod(i), 0))
  /\ \A i : DrawnHighQuality(i) = Cardinality(UnitsIn(job, HighQualityJobs(i), 0))
  /\ \A s : DrawnOfBlock(s) = Cardinality(UnitsIn(job, Started, s))
BY DEF DrawnOfPlan, DrawnHighQuality, DrawnOfBlock, Drawn, UnitsDrawn, UnitsIn

LEMMA DrawnThen ==
  /\ \A i : DrawnOfPlan(i)' = Cardinality(UnitsIn(job', JobsOfPeriod(i)', 0))
  /\ \A i : DrawnHighQuality(i)' = Cardinality(UnitsIn(job', HighQualityJobs(i)', 0))
  /\ \A s : DrawnOfBlock(s)' = Cardinality(UnitsIn(job', Started', s))
BY DEF DrawnOfPlan, DrawnHighQuality, DrawnOfBlock, Drawn, UnitsDrawn, UnitsIn

\* No Unit given back is taken again by its job.
LEMMA UnitsStayGivenBack ==
  ASSUME BaseInv, DecisionsHold,
         \/ UNCHANGED job
         \/ \E c \in Client : JobWriter(c)
         \/ \E j \in Started : Assembled(j) \/ Revise(j)
  PROVE  /\ Started' = Started
         /\ \A j \in Started : occupiesEntitlement(job'[j].reservation) =>
                                 occupiesEntitlement(job[j].reservation)
<1>1. TypeOK /\ RequestsFit
  BY DEF BaseInv
<1>2. ASSUME NEW c \in Client, JobWriter(c)
      PROVE  /\ Started' = Started
             /\ \A j \in Started : occupiesEntitlement(job'[j].reservation) =>
                                     occupiesEntitlement(job[j].reservation)
  <2> DEFINE j == request[c].job
  <2>1. Started' = Started /\ \A i \in Started : i # j => job'[i] = job[i]
    BY <1>1, <1>2, WrittenRows
  <2>2. Decided(c) /\ request[c].kind \in JobKinds
    BY <1>1, <1>2, JobIsWritten
  <2>3. job[j].reservation = "RESERVED"
    BY <2>2 DEF DecisionsHold, DecisionHolds, PublicationDue, SettlementDue, IsFirstVideo, JobKinds
  <2> HIDE DEF j
  <2>4. occupiesEntitlement(job[j].reservation)
    BY <2>3 DEF occupiesEntitlement
  <2> QED BY <2>1, <2>4
<1>3. ASSUME NEW j \in Started, Assembled(j) \/ Revise(j)
      PROVE  Started' = Started /\ \A i \in Started : job'[i].reservation = job[i].reservation
  BY <1>1, <1>3, PipelineRows
<1>4. CASE UNCHANGED job
  BY <1>4 DEF Started
<1> QED BY <1>2, <1>3, <1>4

LEMMA AllocatedIsNatural ==
  ASSUME TypeOK, NEW s \in Source
  PROVE  \A j \in Started : job[j].allocated[s] \in Nat
BY Rows DEF JobRows

LEMMA JobsAreFinite ==
  ASSUME TypeOK, NEW i
  PROVE  /\ IsFiniteSet(Started) /\ IsFiniteSet(JobsOfPeriod(i)) /\ IsFiniteSet(HighQualityJobs(i))
         /\ JobsOfPeriod(i) \subseteq Started /\ HighQualityJobs(i) \subseteq Started
<1>1. JobsOfPeriod(i) \subseteq Started /\ HighQualityJobs(i) \subseteq Started
  BY DEF JobsOfPeriod, HighQualityJobs
<1> QED BY <1>1, Rows, FS_Subset

\* The counts are natural numbers.
DrawnIsNatural ==
  /\ \A i \in Int : DrawnOfPlan(i) \in Nat /\ DrawnHighQuality(i) \in Nat
  /\ \A s \in Source : DrawnOfBlock(s) \in Nat

LEMMA DrawnIsTyped == TypeOK => DrawnIsNatural
<1> SUFFICES ASSUME TypeOK PROVE DrawnIsNatural
  OBVIOUS
<1>1. 0 \in Source
  BY LedgerAssumption DEF LedgerAssumption
<1>2. ASSUME NEW i \in Int PROVE DrawnOfPlan(i) \in Nat /\ DrawnHighQuality(i) \in Nat
  <2>1. JobsOfPeriod(i) \in SUBSET Started /\ HighQualityJobs(i) \in SUBSET Started
    BY JobsAreFinite
  <2> QED BY <1>1, <2>1, DrawnIsCounted DEF DrawnOfPlan, DrawnHighQuality
<1>3. ASSUME NEW s \in Source PROVE DrawnOfBlock(s) \in Nat
  BY DrawnIsCounted DEF DrawnOfBlock
<1> QED BY <1>2, <1>3 DEF DrawnIsNatural

LEMMA DrawnIsTypedThen == TypeOK' => DrawnIsNatural'
BY DrawnIsTyped, PTL

\* Unless a start writes, no more is drawn than before.
DrawnFalls ==
  /\ \A i \in Int : /\ DrawnOfPlan(i)' <= DrawnOfPlan(i)
                    /\ DrawnHighQuality(i)' <= DrawnHighQuality(i)
  /\ \A s \in Source : DrawnOfBlock(s)' <= DrawnOfBlock(s)

LEMMA NothingIsDrawn ==
  ASSUME BaseInv, RowsStay, DecisionsHold, [Next]_vars, ~\E c \in Client : WriteStart(c)
  PROVE  DrawnFalls
<1>1. TypeOK
  BY DEF BaseInv
<1>2. /\ Started' = Started
      /\ \A j \in Started : occupiesEntitlement(job'[j].reservation) =>
                              occupiesEntitlement(job[j].reservation)
  BY JobSteps, UnitsStayGivenBack
<1>3. \A j \in Started : /\ job'[j].project = job[j].project
                         /\ job'[j].period = job[j].period
                         /\ job'[j].allocated = job[j].allocated
  BY DEF RowsStay
<1>4. ASSUME NEW jobs \in SUBSET Started, NEW s \in Source
      PROVE  Cardinality(UnitsIn(job', jobs, s)) <= Cardinality(UnitsIn(job, jobs, s))
  <2>1. IsFiniteSet(jobs)
    BY <1>1, JobsAreFinite, FS_Subset
  <2>2. \A j \in jobs : job[j].allocated[s] \in Nat
    BY <1>1, AllocatedIsNatural
  <2>3. \A j \in jobs : /\ job'[j].allocated[s] = job[j].allocated[s]
                        /\ occupiesEntitlement(job'[j].reservation) =>
                             occupiesEntitlement(job[j].reservation)
    BY <1>2, <1>3
  <2> DEFINE rows == job
             later == job'
  <2> HIDE DEF rows, later
  <2>4. \A j \in jobs : rows[j].allocated[s] \in Nat
    BY <2>2 DEF rows
  <2>5. \A j \in jobs : /\ later[j].allocated[s] = rows[j].allocated[s]
                        /\ occupiesEntitlement(later[j].reservation) =>
                             occupiesEntitlement(rows[j].reservation)
    BY <2>3 DEF rows, later
  <2>6. Cardinality(UnitsIn(later, jobs, s)) <= Cardinality(UnitsIn(rows, jobs, s))
    BY <2>1, <2>4, <2>5, UnitsFall
  <2> QED BY <2>6 DEF rows, later
<1>5. 0 \in Source
  BY LedgerAssumption DEF LedgerAssumption
<1>6. \A i : JobsOfPeriod(i)' = JobsOfPeriod(i) /\ HighQualityJobs(i)' = HighQualityJobs(i)
  BY <1>2, <1>3 DEF JobsOfPeriod, HighQualityJobs, QualityOf
<1>7. ASSUME NEW i \in Int
      PROVE  DrawnOfPlan(i)' <= DrawnOfPlan(i) /\ DrawnHighQuality(i)' <= DrawnHighQuality(i)
  <2>1. JobsOfPeriod(i) \in SUBSET Started /\ HighQualityJobs(i) \in SUBSET Started
    BY <1>1, JobsAreFinite
  <2>2. /\ DrawnOfPlan(i)' = Cardinality(UnitsIn(job', JobsOfPeriod(i), 0))
        /\ DrawnHighQuality(i)' = Cardinality(UnitsIn(job', HighQualityJobs(i), 0))
    BY <1>6, DrawnThen
  <2> QED BY <1>4, <1>5, <2>1, <2>2, DrawnNow
<1>8. ASSUME NEW s \in Source PROVE DrawnOfBlock(s)' <= DrawnOfBlock(s)
  <2>1. DrawnOfBlock(s)' = Cardinality(UnitsIn(job', Started, s))
    BY <1>2, DrawnThen
  <2> QED BY <1>4, <2>1, DrawnNow
<1> QED BY <1>7, <1>8 DEF DrawnFalls

\* A start that writes draws its allocation, from its own period and its blocks.
DrawnBy(r) ==
  /\ \A i \in Int : /\ i # r.period => /\ DrawnOfPlan(i)' <= DrawnOfPlan(i)
                                       /\ DrawnHighQuality(i)' <= DrawnHighQuality(i)
                    /\ i = r.period => /\ DrawnOfPlan(i)' <= DrawnOfPlan(i) + r.seen[0]
                                       /\ DrawnHighQuality(i)' <= DrawnHighQuality(i) +
                                            (IF OrderOf[r.project].quality = "HIGH_QUALITY"
                                             THEN r.seen[0] ELSE 0)
  /\ \A s \in Source : DrawnOfBlock(s)' <= DrawnOfBlock(s) + r.seen[s]

LEMMA StartDraws ==
  ASSUME TypeOK, NEW r \in Starts, job' = Append(job, StartedJob(r))
  PROVE  DrawnBy(r)
<1> DEFINE new == Len(job) + 1
<1>1. /\ Started' = Started \cup {new} /\ new \notin Started /\ job'[new] = StartedJob(r)
      /\ \A j \in Started : job'[j] = job[j]
  BY JobStarts
<1>2. /\ job'[new].project = r.project /\ job'[new].period = r.period
      /\ job'[new].allocated = r.seen
  BY <1>1 DEF StartedJob
<1>3. r.seen \in [Source -> Nat]
  BY DEF Starts
<1>4. 0 \in Source
  BY LedgerAssumption DEF LedgerAssumption
<1> HIDE DEF new
<1>5. ASSUME NEW jobs \in SUBSET Started, NEW s \in Source
      PROVE  /\ Cardinality(UnitsIn(job', jobs, s)) <= Cardinality(UnitsIn(job, jobs, s))
             /\ Cardinality(UnitsIn(job', jobs \cup {new}, s))
                  <= Cardinality(UnitsIn(job, jobs, s)) + r.seen[s]
  <2>1. IsFiniteSet(jobs)
    BY JobsAreFinite, FS_Subset
  <2>2. \A j \in jobs : job[j].allocated[s] \in Nat
    BY AllocatedIsNatural
  <2>3. \A j \in jobs : job'[j] = job[j]
    BY <1>1
  <2> DEFINE rows == job
             later == job'
             n == r.seen[s]
  <2> HIDE DEF rows, later
  <2>4. n \in Nat /\ later[new].allocated[s] = n /\ new \notin jobs
    BY <1>1, <1>2, <1>3 DEF later
  <2> HIDE DEF n
  <2>5. /\ \A j \in jobs : rows[j].allocated[s] \in Nat
        /\ \A j \in jobs : later[j] = rows[j]
    BY <2>2, <2>3 DEF rows, later
  <2>6. Cardinality(UnitsIn(later, jobs \cup {new}, s)) <= Cardinality(UnitsIn(rows, jobs, s)) + n
    BY <2>1, <2>4, <2>5, UnitsGrow
  <2>7. Cardinality(UnitsIn(later, jobs, s)) <= Cardinality(UnitsIn(rows, jobs, s))
    <3>1. jobs \in SUBSET jobs
      OBVIOUS
    <3>2. \A j \in jobs : /\ later[j].allocated[s] = rows[j].allocated[s]
                          /\ occupiesEntitlement(later[j].reservation) =>
                               occupiesEntitlement(rows[j].reservation)
      BY <2>5
    <3> QED BY <2>1, <2>5, <3>1, <3>2, UnitsFall
  <2> QED BY <2>6, <2>7 DEF rows, later, n
<1>6. \A i : /\ i # r.period => /\ JobsOfPeriod(i)' = JobsOfPeriod(i)
                                /\ HighQualityJobs(i)' = HighQualityJobs(i)
             /\ i = r.period =>
                  /\ JobsOfPeriod(i)' = JobsOfPeriod(i) \cup {new}
                  /\ HighQualityJobs(i)' = IF OrderOf[r.project].quality = "HIGH_QUALITY"
                                           THEN HighQualityJobs(i) \cup {new}
                                           ELSE HighQualityJobs(i)
  BY <1>1, <1>2 DEF JobsOfPeriod, HighQualityJobs, QualityOf
<1>7. ASSUME NEW i \in Int
      PROVE  /\ i # r.period => /\ DrawnOfPlan(i)' <= DrawnOfPlan(i)
                                /\ DrawnHighQuality(i)' <= DrawnHighQuality(i)
             /\ i = r.period => /\ DrawnOfPlan(i)' <= DrawnOfPlan(i) + r.seen[0]
                                /\ DrawnHighQuality(i)' <= DrawnHighQuality(i) +
                                     (IF OrderOf[r.project].quality = "HIGH_QUALITY"
                                      THEN r.seen[0] ELSE 0)
  <2>1. JobsOfPeriod(i) \in SUBSET Started /\ HighQualityJobs(i) \in SUBSET Started
    BY JobsAreFinite
  <2>2. /\ DrawnOfPlan(i) = Cardinality(UnitsIn(job, JobsOfPeriod(i), 0))
        /\ DrawnHighQuality(i) = Cardinality(UnitsIn(job, HighQualityJobs(i), 0))
        /\ DrawnOfPlan(i)' = Cardinality(UnitsIn(job', JobsOfPeriod(i)', 0))
        /\ DrawnHighQuality(i)' = Cardinality(UnitsIn(job', HighQualityJobs(i)', 0))
    BY DrawnNow, DrawnThen
  <2>3. DrawnHighQuality(i) \in Nat
    BY DrawnIsTyped DEF DrawnIsNatural
  <2>4. CASE i # r.period
    <3>1. JobsOfPeriod(i)' = JobsOfPeriod(i) /\ HighQualityJobs(i)' = HighQualityJobs(i)
      BY <1>6, <2>4
    <3> QED BY <1>4, <1>5, <2>1, <2>2, <2>4, <3>1
  <2>5. CASE i = r.period
    <3>1. JobsOfPeriod(i)' = JobsOfPeriod(i) \cup {new}
      BY <1>6, <2>5
    <3>2. DrawnOfPlan(i)' <= DrawnOfPlan(i) + r.seen[0]
      BY <1>4, <1>5, <2>1, <2>2, <3>1
    <3>3. CASE OrderOf[r.project].quality = "HIGH_QUALITY"
      <4>1. HighQualityJobs(i)' = HighQualityJobs(i) \cup {new}
        BY <1>6, <2>5, <3>3
      <4>2. DrawnHighQuality(i)' <= DrawnHighQuality(i) + r.seen[0]
        BY <1>4, <1>5, <2>1, <2>2, <4>1
      <4> QED BY <2>5, <3>2, <3>3, <4>2
    <3>4. CASE OrderOf[r.project].quality # "HIGH_QUALITY"
      <4>1. HighQualityJobs(i)' = HighQualityJobs(i)
        BY <1>6, <2>5, <3>4
      <4>2. DrawnHighQuality(i)' <= DrawnHighQuality(i)
        BY <1>4, <1>5, <2>1, <2>2, <4>1
      <4>3. DrawnHighQuality(i) + 0 = DrawnHighQuality(i)
        BY <2>3
      <4> QED BY <2>5, <3>2, <3>4, <4>2, <4>3
    <3> QED BY <3>3, <3>4
  <2> QED BY <2>4, <2>5
<1>8. ASSUME NEW s \in Source PROVE DrawnOfBlock(s)' <= DrawnOfBlock(s) + r.seen[s]
  <2>1. DrawnOfBlock(s)' = Cardinality(UnitsIn(job', Started \cup {new}, s))
    BY <1>1, DrawnThen
  <2>2. Started \in SUBSET Started
    OBVIOUS
  <2> QED BY <1>5, <2>1, <2>2, DrawnNow
<1> QED BY <1>7, <1>8 DEF DrawnBy

\* A start that writes is one that decided, and its job's row is new.
LEMMA StartWritten ==
  ASSUME TypeOK, RequestsFit, NEW c \in Client, WriteStart(c)
  PROVE  /\ request[c].kind = "START" /\ Decided(c) /\ Active(c) /\ Ended(c)
         /\ request[c] \in Starts /\ request[c].period \in opened
         /\ subscription # NoSubscription
         /\ UNCHANGED <<subscription, opened, purchase>>
         /\ job' = Append(job, StartedJob(request[c]))
<1>1. /\ request[c].kind = "START" /\ Decided(c) /\ job' = Append(job, StartedJob(request[c]))
      /\ UNCHANGED <<subscription, opened, purchase>>
  BY DEF WriteStart, Writes
<1>2. Ended(c) /\ Active(c)
  BY WriterEnds DEF Writing, Ended
<1>3. request[c] \in Starts
  BY <1>1, Rows, RequestOfKind
<1> QED BY <1>1, <1>2, <1>3 DEF RequestsFit, RequestFits

LEMMA BoundsFitNow == BaseInv => BoundsFit
BY PurchasesAreBounded DEF BaseInv

LEMMA BoundsFitThen == BaseInv' => BoundsFit'
BY BoundsFitNow, PTL

LEMMA AllocationsKept ==
  ASSUME BaseInv, RowsStay, AllocationsFit, StartsFit, [Next]_vars
  PROVE  AllocationsFit'
<1>1. TypeOK /\ RequestsFit
  BY DEF BaseInv
<1>2. ASSUME NEW j \in Started
      PROVE  /\ job'[j].period \in opened'
             /\ \A s \in Source : s # 0 /\ job'[j].allocated[s] > 0 =>
                  /\ s \in Bought' /\ purchase'[s].period = job'[j].period
                  /\ purchase'[s].quality = QualityOf(j)'
  <2>1. /\ job'[j].project = job[j].project /\ job'[j].period = job[j].period
        /\ job'[j].allocated = job[j].allocated
        /\ opened \subseteq opened' /\ Bought \subseteq Bought'
        /\ \A u \in Bought : /\ purchase'[u].period = purchase[u].period
                             /\ purchase'[u].quality = purchase[u].quality
    BY DEF RowsStay
  <2>2. QualityOf(j)' = QualityOf(j)
    BY <2>1 DEF QualityOf
  <2> QED BY <2>1, <2>2 DEF AllocationsFit
<1>3. CASE Started' = Started
  BY <1>2, <1>3 DEF AllocationsFit
<1>4. ASSUME NEW c \in Client, WriteStart(c) PROVE AllocationsFit'
  <2> DEFINE r == request[c]
  <2>0. PICK new : new = Len(job) + 1
    OBVIOUS
  <2>1. /\ r \in Starts /\ r.period \in opened /\ SeenFits(r)
        /\ job' = Append(job, StartedJob(r)) /\ UNCHANGED <<subscription, opened, purchase>>
    BY <1>1, <1>4, StartWritten DEF StartsFit
  <2> HIDE DEF r
  <2>2. Started' = Started \cup {new} /\ job'[new] = StartedJob(r)
    BY <1>1, <2>0, <2>1, JobStarts
  <2>3. /\ job'[new].period = r.period /\ job'[new].allocated = r.seen
        /\ QualityOf(new)' = OrderOf[r.project].quality
    BY <2>2 DEF StartedJob, QualityOf
  <2>4. Bought' = Bought
    BY <2>1 DEF Bought
  <2>5. /\ job'[new].period \in opened'
        /\ \A s \in Source : s # 0 /\ job'[new].allocated[s] > 0 =>
             /\ s \in Bought' /\ purchase'[s].period = job'[new].period
             /\ purchase'[s].quality = QualityOf(new)'
    BY <2>1, <2>3, <2>4 DEF SeenFits
  <2> SUFFICES ASSUME NEW j \in Started'
               PROVE  /\ job'[j].period \in opened'
                      /\ \A s \in Source : s # 0 /\ job'[j].allocated[s] > 0 =>
                           /\ s \in Bought' /\ purchase'[s].period = job'[j].period
                           /\ purchase'[s].quality = QualityOf(j)'
    BY DEF AllocationsFit
  <2>6. CASE j = new
    BY <2>5, <2>6
  <2> QED BY <1>2, <2>2, <2>6
<1>5. ASSUME NEW c \in Client, JobWriter(c) PROVE Started' = Started
  BY <1>1, <1>5, WrittenRows
<1>6. ASSUME NEW j \in Started, Assembled(j) \/ Revise(j) PROVE Started' = Started
  BY <1>1, <1>6, PipelineRows
<1>7. UNCHANGED job => Started' = Started
  BY DEF Started
<1> QED BY <1>3, <1>4, <1>5, <1>6, <1>7, JobSteps

\* Where nothing was opened or bought, nothing is drawn.
LEMMA NothingDrawnYet ==
  ASSUME TypeOK, AllocationsFit
  PROVE  /\ \A i : i \notin opened => DrawnOfPlan(i) = 0 /\ DrawnHighQuality(i) = 0
         /\ \A s \in Source : s # 0 /\ s \notin Bought => DrawnOfBlock(s) = 0
<1>1. ASSUME NEW i, i \notin opened PROVE DrawnOfPlan(i) = 0 /\ DrawnHighQuality(i) = 0
  <2>1. JobsOfPeriod(i) = {} /\ HighQualityJobs(i) = {}
    BY <1>1 DEF AllocationsFit, JobsOfPeriod, HighQualityJobs
  <2>2. UnitsIn(job, {}, 0) = {}
    BY DEF UnitsIn
  <2>3. Cardinality(UnitsIn(job, {}, 0)) = 0
    BY <2>2, FS_EmptySet
  <2> QED BY <2>1, <2>3, DrawnNow
<1>2. ASSUME NEW s \in Source, s # 0, s \notin Bought PROVE DrawnOfBlock(s) = 0
  <2>1. \A j \in Started : ~(job[j].allocated[s] > 0)
    BY <1>2 DEF AllocationsFit
  <2>2. \A j \in Started : job[j].allocated[s] \in Nat
    BY AllocatedIsNatural
  <2>3. \A j \in Started : 1..job[j].allocated[s] = {}
    BY <2>1, <2>2
  <2>4. UnitsIn(job, Started, s) = {}
    BY <2>3 DEF UnitsIn
  <2>5. Cardinality(UnitsIn(job, Started, s)) = 0
    BY <2>4, FS_EmptySet
  <2> QED BY <2>5, DrawnNow
<1> QED BY <1>1, <1>2

\* What the invariant says of the counts.
LEMMA SpentIsDrawn ==
  NoUnitSpentTwice <=>
    /\ \A i \in opened :
         /\ DrawnOfPlan(i) <= Plan[subscription.planKey].baseUnits
         /\ DrawnHighQuality(i) <= Plan[subscription.planKey].includedHighQualityUnits
    /\ \A u \in Bought :
         /\ DrawnOfBlock(u) <= purchase[u].units
         /\ \A j \in Started : job[j].allocated[u] > 0 =>
              QualityOf(j) = purchase[u].quality /\ job[j].period = purchase[u].period
BY DEF NoUnitSpentTwice, DrawnOfPlan, DrawnHighQuality, DrawnOfBlock, HighQualityJobs

\* The same of the counts a step later.
LEMMA SpentIsDrawnThen ==
  NoUnitSpentTwice' <=>
    /\ \A i \in opened' :
         /\ DrawnOfPlan(i)' <= Plan[subscription'.planKey].baseUnits
         /\ DrawnHighQuality(i)' <= Plan[subscription'.planKey].includedHighQualityUnits
    /\ \A u \in Bought' :
         /\ DrawnOfBlock(u)' <= purchase'[u].units
         /\ \A j \in Started' : job'[j].allocated[u] > 0 =>
              QualityOf(j)' = purchase'[u].quality /\ job'[j].period = purchase'[u].period
BY DEF NoUnitSpentTwice, DrawnOfPlan, DrawnHighQuality, DrawnOfBlock, HighQualityJobs

\* Every block is a source.
LEMMA BlocksAreSources ==
  ASSUME BaseInv
  PROVE  \A u \in Bought : u \in Source /\ u # 0 /\ purchase[u].units \in Nat
<1>1. BoundsFit /\ TypeOK
  BY BoundsFitNow DEF BaseInv
<1>2. Bought = 1..Len(purchase) /\ Len(purchase) \in Nat /\ Len(purchase) <= Purchases
      /\ Purchases \in Nat
  BY <1>1, Rows, LedgerAssumption DEF BoundsFit, LedgerAssumption
<1>3. \A u \in Bought : purchase[u].units \in Nat
  BY <1>1, Rows DEF PurchaseRows
<1> QED BY <1>2, <1>3

SourcesOfBlocks == \A u \in Bought : u \in Source /\ u # 0 /\ purchase[u].units \in Nat

LEMMA BlocksNow == BaseInv => SourcesOfBlocks
BY BlocksAreSources DEF SourcesOfBlocks

LEMMA BlocksThen == BaseInv' => SourcesOfBlocks'
BY BlocksNow, PTL

\* The plan of a contract, and a step later.
PlanIsTyped ==
  subscription # NoSubscription =>
    /\ Plan[subscription.planKey].baseUnits \in Nat
    /\ Plan[subscription.planKey].includedHighQualityUnits \in Nat

LEMMA PlanNow == TypeOK => PlanIsTyped
BY PlanOfContract DEF PlanIsTyped, PlanFacts

LEMMA PlanThen == TypeOK' => PlanIsTyped'
BY PlanNow, PTL

LEMMA SpentKept ==
  ASSUME BaseInv, BaseInv', RowsStay, DecisionsHold, AllocationsFit, AllocationsFit', StartsFit,
         NoUnitSpentTwice, [Next]_vars
  PROVE  NoUnitSpentTwice'
<1>1. TypeOK /\ TypeOK' /\ RequestsFit /\ PeriodsFit /\ PeriodsFit'
  BY DEF BaseInv
<1>2. DrawnIsNatural /\ DrawnIsNatural' /\ SourcesOfBlocks /\ SourcesOfBlocks'
  BY <1>1, DrawnIsTyped, DrawnIsTypedThen, BlocksNow, BlocksThen
<1>3. opened \subseteq Int /\ opened' \subseteq Int
  BY <1>1 DEF TypeOK
<1>4. ASSUME NEW i \in opened'
      PROVE  /\ Plan[subscription'.planKey].baseUnits \in Nat
             /\ Plan[subscription'.planKey].includedHighQualityUnits \in Nat
  <2>1. subscription' # NoSubscription
    BY <1>1 DEF PeriodsFit
  <2> QED BY <1>1, <2>1, PlanThen DEF PlanIsTyped
<1>5. ASSUME NEW i \in opened PROVE subscription' = subscription
  BY <1>1 DEF PeriodsFit, RowsStay
<1>6. ASSUME NEW u \in Bought', NEW j \in Started', job'[j].allocated[u] > 0
      PROVE  QualityOf(j)' = purchase'[u].quality /\ job'[j].period = purchase'[u].period
  <2>1. u \in Source /\ u # 0
    BY <1>2 DEF SourcesOfBlocks
  <2> QED BY <1>6, <2>1 DEF AllocationsFit
<1>7. /\ \A i \in opened : /\ DrawnOfPlan(i) <= Plan[subscription.planKey].baseUnits
                           /\ DrawnHighQuality(i) <= Plan[subscription.planKey].includedHighQualityUnits
      /\ \A u \in Bought : DrawnOfBlock(u) <= purchase[u].units
  BY SpentIsDrawn
<1>8. /\ \A i : i \notin opened => DrawnOfPlan(i) = 0 /\ DrawnHighQuality(i) = 0
      /\ \A s \in Source : s # 0 /\ s \notin Bought => DrawnOfBlock(s) = 0
  BY <1>1, NothingDrawnYet
<1>9. \A u \in Bought : u \in Bought' /\ purchase'[u].units = purchase[u].units
  BY DEF RowsStay
<1>10. ASSUME DrawnFalls PROVE NoUnitSpentTwice'
  <2>1. ASSUME NEW i \in opened'
        PROVE  /\ DrawnOfPlan(i)' <= Plan[subscription'.planKey].baseUnits
               /\ DrawnHighQuality(i)' <= Plan[subscription'.planKey].includedHighQualityUnits
    <3>1. /\ DrawnOfPlan(i)' <= DrawnOfPlan(i) /\ DrawnHighQuality(i)' <= DrawnHighQuality(i)
          /\ DrawnOfPlan(i) \in Nat /\ DrawnHighQuality(i) \in Nat
          /\ DrawnOfPlan(i)' \in Nat /\ DrawnHighQuality(i)' \in Nat
      BY <1>2, <1>3, <1>10 DEF DrawnFalls, DrawnIsNatural
    <3>2. CASE i \in opened
      <4>1. /\ DrawnOfPlan(i) <= Plan[subscription'.planKey].baseUnits
            /\ DrawnHighQuality(i) <= Plan[subscription'.planKey].includedHighQualityUnits
        BY <1>5, <1>7, <3>2
      <4> QED BY <1>4, <3>1, <4>1
    <3>3. CASE i \notin opened
      <4>1. DrawnOfPlan(i) = 0 /\ DrawnHighQuality(i) = 0
        BY <1>8, <3>3
      <4> QED BY <1>4, <3>1, <4>1
    <3> QED BY <3>2, <3>3
  <2>2. ASSUME NEW u \in Bought' PROVE DrawnOfBlock(u)' <= purchase'[u].units
    <3>1. u \in Source /\ u # 0 /\ purchase'[u].units \in Nat
      BY <1>2 DEF SourcesOfBlocks
    <3>2. DrawnOfBlock(u)' <= DrawnOfBlock(u) /\ DrawnOfBlock(u) \in Nat /\ DrawnOfBlock(u)' \in Nat
      BY <1>2, <1>10, <3>1 DEF DrawnFalls, DrawnIsNatural
    <3>3. CASE u \in Bought
      <4>1. DrawnOfBlock(u) <= purchase'[u].units
        BY <1>7, <1>9, <3>3
      <4> QED BY <3>1, <3>2, <4>1
    <3>4. CASE u \notin Bought
      <4>1. DrawnOfBlock(u) = 0
        BY <1>8, <3>1, <3>4
      <4> QED BY <3>1, <3>2, <4>1
    <3> QED BY <3>3, <3>4
  <2> QED BY <1>6, <2>1, <2>2, SpentIsDrawnThen
<1>11. ASSUME NEW c \in Client, WriteStart(c) PROVE NoUnitSpentTwice'
  <2>1. PICK r \in Starts : r = request[c]
    BY <1>1, <1>11, StartWritten
  <2>2. /\ r.period \in opened /\ SeenFits(r) /\ UNCHANGED <<subscription, opened, purchase>>
        /\ DrawnBy(r) /\ r.seen \in [Source -> Nat]
    BY <1>1, <1>11, <2>1, StartWritten, StartDraws DEF StartsFit, Starts
  <2>3. 0 \in Source
    BY LedgerAssumption DEF LedgerAssumption
  <2>4. ASSUME NEW i \in opened
        PROVE  /\ DrawnOfPlan(i)' <= Plan[subscription.planKey].baseUnits
               /\ DrawnHighQuality(i)' <= Plan[subscription.planKey].includedHighQualityUnits
    <3>1. /\ DrawnOfPlan(i) \in Nat /\ DrawnHighQuality(i) \in Nat
          /\ DrawnOfPlan(i)' \in Nat /\ DrawnHighQuality(i)' \in Nat
          /\ DrawnOfPlan(i) <= Plan[subscription.planKey].baseUnits
          /\ DrawnHighQuality(i) <= Plan[subscription.planKey].includedHighQualityUnits
          /\ Plan[subscription.planKey].baseUnits \in Nat
          /\ Plan[subscription.planKey].includedHighQualityUnits \in Nat
      BY <1>2, <1>3, <1>4, <1>7, <2>2 DEF DrawnIsNatural
    <3>2. CASE i # r.period
      <4>1. DrawnOfPlan(i)' <= DrawnOfPlan(i) /\ DrawnHighQuality(i)' <= DrawnHighQuality(i)
        BY <1>3, <2>2, <3>2 DEF DrawnBy
      <4> QED BY <3>1, <4>1
    <3>3. CASE i = r.period
      <4>1. /\ DrawnOfPlan(i)' <= DrawnOfPlan(i) + r.seen[0]
            /\ DrawnHighQuality(i)' <= DrawnHighQuality(i) +
                 (IF OrderOf[r.project].quality = "HIGH_QUALITY" THEN r.seen[0] ELSE 0)
        BY <1>3, <2>2, <3>3 DEF DrawnBy
      <4>2. /\ DrawnOfPlan(i) + r.seen[0] <= Plan[subscription.planKey].baseUnits
            /\ OrderOf[r.project].quality = "HIGH_QUALITY" =>
                 DrawnHighQuality(i) + r.seen[0]
                   <= Plan[subscription.planKey].includedHighQualityUnits
        BY <2>2, <3>3 DEF SeenFits
      <4>3. r.seen[0] \in Nat
        BY <2>2, <2>3
      <4>4. CASE OrderOf[r.project].quality = "HIGH_QUALITY"
        BY <3>1, <4>1, <4>2, <4>3, <4>4
      <4>5. CASE OrderOf[r.project].quality # "HIGH_QUALITY"
        BY <3>1, <4>1, <4>2, <4>3, <4>5
      <4> QED BY <4>4, <4>5
    <3> QED BY <3>2, <3>3
  <2>5. ASSUME NEW u \in Bought PROVE DrawnOfBlock(u)' <= purchase[u].units
    <3>1. u \in Source /\ u # 0 /\ purchase[u].units \in Nat
      BY <1>2 DEF SourcesOfBlocks
    <3>2. /\ DrawnOfBlock(u)' <= DrawnOfBlock(u) + r.seen[u] /\ r.seen[u] \in Nat
          /\ DrawnOfBlock(u) \in Nat /\ DrawnOfBlock(u)' \in Nat
          /\ DrawnOfBlock(u) <= purchase[u].units
          /\ r.seen[u] > 0 => DrawnOfBlock(u) + r.seen[u] <= purchase[u].units
      BY <1>2, <1>7, <2>2, <3>1 DEF DrawnBy, SeenFits, DrawnIsNatural
    <3>3. CASE r.seen[u] > 0
      BY <3>1, <3>2, <3>3
    <3>4. CASE r.seen[u] = 0
      BY <3>1, <3>2, <3>4
    <3> QED BY <3>2, <3>3, <3>4
  <2>6. opened' = opened /\ Bought' = Bought /\ subscription' = subscription /\ purchase' = purchase
    BY <2>2 DEF Bought
  <2> QED BY <1>6, <2>4, <2>5, <2>6, SpentIsDrawnThen
<1> QED BY <1>10, <1>11, NothingIsDrawn

\* What a start has seen is still there while nothing is drawn from it.
LEMMA SeenKept ==
  ASSUME BaseInv, BaseInv', RowsStay, NEW r \in Starts, r.period \in opened, SeenFits(r),
         DrawnOfPlan(r.period)' <= DrawnOfPlan(r.period),
         DrawnHighQuality(r.period)' <= DrawnHighQuality(r.period),
         \A s \in Source : s # 0 /\ r.seen[s] > 0 => DrawnOfBlock(s)' <= DrawnOfBlock(s)
  PROVE  SeenFits(r)'
<1>1. TypeOK /\ TypeOK' /\ PeriodsFit
  BY DEF BaseInv
<1>2. DrawnIsNatural /\ DrawnIsNatural' /\ PlanIsTyped /\ SourcesOfBlocks
  BY <1>1, DrawnIsTyped, DrawnIsTypedThen, PlanNow, BlocksNow
<1>3. r.seen \in [Source -> Nat] /\ r.period \in Int
  BY DEF Starts
<1>4. 0 \in Source
  BY LedgerAssumption DEF LedgerAssumption
<1>5. subscription # NoSubscription /\ subscription' = subscription
  BY <1>1 DEF PeriodsFit, RowsStay
<1>6. /\ Plan[subscription.planKey].baseUnits \in Nat
      /\ Plan[subscription.planKey].includedHighQualityUnits \in Nat
  BY <1>2, <1>5 DEF PlanIsTyped
<1>7. /\ DrawnOfPlan(r.period) \in Nat /\ DrawnOfPlan(r.period)' \in Nat
      /\ DrawnHighQuality(r.period) \in Nat /\ DrawnHighQuality(r.period)' \in Nat
      /\ r.seen[0] \in Nat
  BY <1>2, <1>3, <1>4 DEF DrawnIsNatural
<1>8. DrawnOfPlan(r.period)' + r.seen[0] <= Plan[subscription'.planKey].baseUnits
  <2>1. DrawnOfPlan(r.period) + r.seen[0] <= Plan[subscription.planKey].baseUnits
    BY DEF SeenFits
  <2> QED BY <1>5, <1>6, <1>7, <2>1
<1>9. OrderOf[r.project].quality = "HIGH_QUALITY" =>
        DrawnHighQuality(r.period)' + r.seen[0]
          <= Plan[subscription'.planKey].includedHighQualityUnits
  <2> SUFFICES ASSUME OrderOf[r.project].quality = "HIGH_QUALITY"
               PROVE  DrawnHighQuality(r.period)' + r.seen[0]
                        <= Plan[subscription'.planKey].includedHighQualityUnits
    OBVIOUS
  <2>1. DrawnHighQuality(r.period) + r.seen[0] <= Plan[subscription.planKey].includedHighQualityUnits
    BY DEF SeenFits
  <2> QED BY <1>5, <1>6, <1>7, <2>1
<1>10. ASSUME NEW s \in Source, s # 0, r.seen[s] > 0
       PROVE  /\ s \in Bought' /\ purchase'[s].period = r.period
              /\ purchase'[s].quality = OrderOf[r.project].quality
              /\ DrawnOfBlock(s)' + r.seen[s] <= purchase'[s].units
  <2>1. /\ s \in Bought /\ purchase[s].period = r.period
        /\ purchase[s].quality = OrderOf[r.project].quality
        /\ DrawnOfBlock(s) + r.seen[s] <= purchase[s].units
    BY <1>10 DEF SeenFits
  <2>2. /\ s \in Bought' /\ purchase'[s].period = purchase[s].period
        /\ purchase'[s].quality = purchase[s].quality /\ purchase'[s].units = purchase[s].units
    BY <2>1 DEF RowsStay
  <2>3. /\ DrawnOfBlock(s) \in Nat /\ DrawnOfBlock(s)' \in Nat /\ r.seen[s] \in Nat
        /\ DrawnOfBlock(s)' <= DrawnOfBlock(s) /\ purchase[s].units \in Nat
    BY <1>2, <1>3, <1>10, <2>1 DEF DrawnIsNatural, SourcesOfBlocks
  <2>4. DrawnOfBlock(s)' + r.seen[s] <= purchase[s].units
    BY <2>1, <2>3
  <2> QED BY <2>1, <2>2, <2>4
<1> QED BY <1>8, <1>9, <1>10 DEF SeenFits

\* A start decides on what there is: its pools and blocks have what it takes.
LEMMA SeenWhenDecided ==
  ASSUME BaseInv, NoUnitSpentTwice, NEW c \in Client, request[c].kind = "START",
         NEW r \in Starts, r.project = request[c].project, r.period = request[c].period,
         r.seen = AllocationFor(request[c])
  PROVE  SeenFits(r)
<1>1. TypeOK /\ RequestsFit /\ BoundsFit
  BY BoundsFitNow DEF BaseInv
<1>2. DrawnIsNatural /\ SourcesOfBlocks /\ PlanIsTyped
  BY <1>1, DrawnIsTyped, BlocksNow, PlanNow
<1>3. subscription # NoSubscription /\ r.period \in opened /\ r.period \in Int
  BY <1>1 DEF RequestsFit, RequestFits, Starts
<1>4. r.seen \in [Source -> Nat] /\ 0 \in Source
  BY LedgerAssumption DEF Starts, LedgerAssumption
<1> DEFINE base == Plan[subscription.planKey].baseUnits - DrawnOfPlan(r.period)
           highQuality == Plan[subscription.planKey].includedHighQualityUnits
                            - DrawnHighQuality(r.period)
<1>5. /\ DrawnOfPlan(r.period) \in Nat /\ DrawnHighQuality(r.period) \in Nat
      /\ Plan[subscription.planKey].baseUnits \in Nat
      /\ Plan[subscription.planKey].includedHighQualityUnits \in Nat
      /\ DrawnOfPlan(r.period) <= Plan[subscription.planKey].baseUnits
      /\ DrawnHighQuality(r.period) <= Plan[subscription.planKey].includedHighQualityUnits
  BY <1>2, <1>3, SpentIsDrawn DEF DrawnIsNatural, PlanIsTyped
<1>6. /\ periodEntitlementBalance(r.period).base = base
      /\ periodEntitlementBalance(r.period).highQuality = highQuality
  BY <1>1, <1>3, BalanceOfPeriod
     DEF BoundsFit, DrawnOfPlan, DrawnHighQuality, HighQualityJobs
<1>7. /\ r.seen[0] <= Larger(0, base)
      /\ OrderOf[r.project].quality = "HIGH_QUALITY" => r.seen[0] <= Larger(0, highQuality)
      /\ \A s \in Source : s # 0 /\ r.seen[s] > 0 =>
           /\ s \in Bought /\ purchase[s].period = r.period
           /\ purchase[s].quality = OrderOf[r.project].quality
           /\ r.seen[s] <= purchase[s].units - DrawnOfBlock(s)
  <2> HIDE DEF base, highQuality
  <2> QED BY <1>1, <1>6, AllocationOfStart DEF DrawnOfBlock
<1>8. base \in Nat /\ highQuality \in Nat
  BY <1>5
<1>9. r.seen[0] \in Nat
  BY <1>4
<1>10. /\ r.seen[0] <= base
       /\ OrderOf[r.project].quality = "HIGH_QUALITY" => r.seen[0] <= highQuality
  <2> HIDE DEF base, highQuality
  <2>1. Larger(0, base) = base /\ Larger(0, highQuality) = highQuality
    BY <1>8 DEF Larger
  <2> QED BY <1>7, <2>1
<1>11. DrawnOfPlan(r.period) + r.seen[0] <= Plan[subscription.planKey].baseUnits
  BY <1>5, <1>9, <1>10
<1>12. OrderOf[r.project].quality = "HIGH_QUALITY" =>
         DrawnHighQuality(r.period) + r.seen[0]
           <= Plan[subscription.planKey].includedHighQualityUnits
  BY <1>5, <1>9, <1>10
<1>13. ASSUME NEW s \in Source, s # 0, r.seen[s] > 0
       PROVE  DrawnOfBlock(s) + r.seen[s] <= purchase[s].units
  <2>1. s \in Bought /\ r.seen[s] <= purchase[s].units - DrawnOfBlock(s)
    BY <1>7, <1>13
  <2>2. DrawnOfBlock(s) \in Nat /\ r.seen[s] \in Nat /\ purchase[s].units \in Nat
    BY <1>2, <1>4, <2>1 DEF DrawnIsNatural, SourcesOfBlocks
  <2> QED BY <2>1, <2>2
<1> QED BY <1>7, <1>11, <1>12, <1>13 DEF SeenFits

LEMMA StartsKept ==
  ASSUME BaseInv, BaseInv', RowsStay, BoundsFit, DecisionsHold, StartsFit, NoUnitSpentTwice,
         [Next]_vars
  PROVE  StartsFit'
<1>1. TypeOK /\ TypeOK' /\ RequestsFit /\ LocksExclude
  BY DEF BaseInv
<1> SUFFICES ASSUME NEW d \in Client, request'[d].kind = "START", Decided(d)'
             PROVE  SeenFits(request[d])'
  BY DEF StartsFit
<1>2. PICK r \in Starts : r = request'[d]
  BY <1>1, RequestOfKind DEF TypeOK
<1>3. SUFFICES SeenFits(r)'
  BY <1>2 DEF SeenFits
<1>4. Same(d) \/ Decide(d)
  <2>1. Same(d) \/ Acts(d)
    BY <1>1, ClientSteps
  <2>2. ~Began(d) /\ ~Ended(d) /\ ~TakeLock(d)
    BY <1>1, BegunActor, EndedActor, FurtherActor DEF GoesFurther, RequestsFit
  <2> QED BY <2>1, <2>2 DEF Acts
<1>5. CASE Decide(d)
  <2>1. /\ request[d].kind = "START" /\ r.project = request[d].project
        /\ r.period = request[d].period /\ r.seen = AllocationFor(request[d])
        /\ UNCHANGED ledger
    <3>1. request' = [request EXCEPT ![d] = Remembering(request[d])] /\ UNCHANGED ledger
          /\ Active(d)
      BY <1>5 DEF Decide, Granted
    <3>2. r = Remembering(request[d])
      BY <1>1, <1>2, <3>1 DEF TypeOK
    <3>3. /\ Remembering(request[d]).kind = request[d].kind
          /\ request[d].kind = "START" =>
               /\ Remembering(request[d]).project = request[d].project
               /\ Remembering(request[d]).period = request[d].period
               /\ Remembering(request[d]).seen = AllocationFor(request[d])
      BY <1>1, <3>1, Remembered
    <3> QED BY <1>2, <3>1, <3>2, <3>3
  <2>2. SeenFits(r)
    BY <2>1, SeenWhenDecided
  <2> QED BY <2>1, <2>2 DEF SeenFits, DrawnOfPlan, DrawnHighQuality, HighQualityJobs,
             DrawnOfBlock, Drawn, UnitsDrawn, JobsOfPeriod, QualityOf, Started, Bought, ledger
<1>6. CASE Same(d)
  <2>1. /\ request[d] = r /\ Decided(d) /\ Active(d)
    BY <1>1, <1>2, <1>6, StillActor DEF Same, Decided
  <2>2. SeenFits(r) /\ r.period \in opened /\ r.kind = "START" /\ r.period \in Int
        /\ r.seen \in [Source -> Nat]
    BY <1>1, <1>2, <2>1 DEF StartsFit, RequestsFit, RequestFits, Starts
  <2>3. CASE ~\E c \in Client : WriteStart(c)
    <3>1. DrawnFalls
      BY <2>3, NothingIsDrawn
    <3> QED BY <2>2, <3>1, SeenKept DEF DrawnFalls
  <2>4. ASSUME NEW c \in Client, WriteStart(c) PROVE SeenFits(r)'
    <3>1. PICK q \in Starts : q = request[c]
      BY <1>1, <2>4, StartWritten
    <3>2. /\ q.kind = "START" /\ Decided(c) /\ Active(c) /\ Ended(c)
          /\ job' = Append(job, StartedJob(q)) /\ SeenFits(q)
      BY <1>1, <2>4, <3>1, StartWritten DEF StartsFit
    <3>3. c # d
      BY <1>1, <3>2, EndedActor
    <3>4. q.period # r.period
      <4>1. Exclusive("cost", q.period) \in HeldBy(c)
        BY <1>1, <3>1, <3>2, LocksHad
      <4>2. Exclusive("cost", r.period) \in HeldBy(d)
        BY <1>1, <2>1, <2>2, LocksHad
      <4> QED BY <1>1, <3>3, <4>1, <4>2, OneHolder
    <3>5. DrawnBy(q)
      BY <1>1, <3>2, StartDraws
    <3>6. /\ DrawnOfPlan(r.period)' <= DrawnOfPlan(r.period)
          /\ DrawnHighQuality(r.period)' <= DrawnHighQuality(r.period)
      BY <2>2, <3>4, <3>5 DEF DrawnBy
    <3>7. ASSUME NEW s \in Source, s # 0, r.seen[s] > 0
          PROVE  DrawnOfBlock(s)' <= DrawnOfBlock(s)
      <4>1. purchase[s].period = r.period
        BY <2>2, <3>7 DEF SeenFits
      <4>2. ~(q.seen[s] > 0)
        BY <3>2, <3>4, <3>7, <4>1 DEF SeenFits
      <4>3. q.seen[s] \in Nat
        BY DEF Starts
      <4>4. q.seen[s] = 0
        BY <4>2, <4>3
      <4>5. DrawnOfBlock(s)' <= DrawnOfBlock(s) + 0
        BY <3>5, <4>4 DEF DrawnBy
      <4>6. DrawnOfBlock(s) \in Nat
        BY <1>1, DrawnIsTyped DEF DrawnIsNatural
      <4> QED BY <4>5, <4>6
    <3> QED BY <2>2, <3>6, <3>7, SeenKept
  <2> QED BY <2>3, <2>4
<1> QED BY <1>4, <1>5, <1>6

LEMMA SpendInvKept == SpendInv /\ [Next]_vars => SpendInv'
<1> SUFFICES ASSUME SpendInv, [Next]_vars PROVE SpendInv'
  OBVIOUS
<1>1. LockInv /\ BaseInv /\ DecisionsHold /\ AllocationsFit /\ StartsFit /\ NoUnitSpentTwice
  BY DEF SpendInv, LockInv
<1>2. LockInv'
  BY <1>1, LockInvKept
<1>3. BaseInv' /\ RowsStay /\ BoundsFit
  BY <1>1, BaseKept
<1>4. AllocationsFit'
  BY <1>1, <1>3, AllocationsKept
<1>5. StartsFit'
  BY <1>1, <1>3, StartsKept
<1>6. NoUnitSpentTwice'
  BY <1>1, <1>3, <1>4, SpentKept
<1> QED BY <1>2, <1>4, <1>5, <1>6 DEF SpendInv

LEMMA InitSpend == Init => SpendInv
<1> SUFFICES ASSUME Init PROVE SpendInv
  OBVIOUS
<1>1. LockInv
  BY InitBase
<1>2. opened = {} /\ Started = {} /\ Bought = {} /\ \A c \in Client : ~Active(c)
  BY DEF Init, Started, Bought, Active, Idle
<1> QED BY <1>1, <1>2 DEF SpendInv, AllocationsFit, StartsFit, NoUnitSpentTwice, Decided

LEMMA SpendInvariant == Spec => []SpendInv
BY InitSpend, SpendInvKept, PTL DEF Spec

-----------------------------------------------------------------------------
(***************************************************************************)
(* The account.  An allocation is made in full: the blocks stand in line,  *)
(* and each gives what those before it could not.                          *)
(***************************************************************************)

\* What one set of holders has, another has under other names.
LEMMA SameUnits ==
  ASSUME NEW S, IsFiniteSet(S), NEW f \in [S -> Nat], NEW T, NEW g \in [T -> Nat],
         NEW h \in [S -> T], NEW back \in [T -> S],
         \A x \in S : back[h[x]] = x, \A y \in T : h[back[y]] = y,
         \A x \in S : g[h[x]] = f[x]
  PROVE  IsFiniteSet(T) /\ Cardinality(UnitsOf(T, g)) = Cardinality(UnitsOf(S, f))
<1> DEFINE U == UnitsOf(S, f)
           V == UnitsOf(T, g)
           there == [u \in U |-> <<h[u[1]], u[2]>>]
           here == [v \in V |-> <<back[v[1]], v[2]>>]
<1>1. h \in Surjection(S, T)
  BY DEF Surjection
<1>2. IsFiniteSet(T)
  BY <1>1, FS_Surjection
<1>3. /\ IsFiniteSet(U) /\ Cardinality(U) \in Nat
      /\ IsFiniteSet(V) /\ Cardinality(V) \in Nat
  BY <1>2, UnitsAreFinite
<1>4. /\ U = {u \in S \X Int : u[2] \in 1..f[u[1]]}
      /\ V = {v \in T \X Int : v[2] \in 1..g[v[1]]}
  BY UnitOf
<1> HIDE DEF U, V
<1>5. \A u \in U : <<h[u[1]], u[2]>> \in V /\ back[h[u[1]]] = u[1] /\ u = <<u[1], u[2]>>
  BY <1>4
<1>6. \A y \in T : g[y] = f[back[y]]
  OBVIOUS
<1>7. \A v \in V : <<back[v[1]], v[2]>> \in U /\ h[back[v[1]]] = v[1] /\ v = <<v[1], v[2]>>
  BY <1>4, <1>6
<1>8. there \in Surjection(U, V)
  <2>1. \A v \in V : there[<<back[v[1]], v[2]>>] = v
    BY <1>7
  <2>2. there \in [U -> V]
    BY <1>5
  <2> HIDE DEF there
  <2> QED BY <1>7, <2>1, <2>2 DEF Surjection
<1>9. here \in Surjection(V, U)
  <2>1. \A u \in U : here[<<h[u[1]], u[2]>>] = u
    BY <1>5
  <2>2. here \in [V -> U]
    BY <1>7
  <2> HIDE DEF here
  <2> QED BY <1>5, <2>1, <2>2 DEF Surjection
<1> HIDE DEF there, here
<1>10. Cardinality(V) <= Cardinality(U) /\ Cardinality(U) <= Cardinality(V)
  BY <1>3, <1>8, <1>9, FS_Surjection
<1>11. Cardinality(V) = Cardinality(U)
  BY <1>3, <1>10
<1> QED BY <1>2, <1>11 DEF U, V

\* Of two blocks one precedes the other.
InLine(B) ==
  /\ \A b \in B : ~Precedes(b, b)
  /\ \A b, c \in B : b # c => Precedes(b, c) \/ Precedes(c, b)
  /\ \A a, b, c \in B : Precedes(a, b) /\ Precedes(b, c) => Precedes(a, c)

LEMMA BlocksAreInLine ==
  ASSUME NEW B, \A b \in B : b.purchasedAt \in Int /\ b.id \in Int,
         \A b, c \in B : b.id = c.id => b = c
  PROVE  InLine(B)
<1>1. \A b \in B : ~Precedes(b, b)
  BY DEF Precedes
<1>2. \A b, c \in B : b # c => Precedes(b, c) \/ Precedes(c, b)
  BY DEF Precedes
<1>3. \A a, b, c \in B : Precedes(a, b) /\ Precedes(b, c) => Precedes(a, c)
  BY DEF Precedes
<1> QED BY <1>1, <1>2, <1>3 DEF InLine

LEMMA OneIsLast ==
  ASSUME NEW B, IsFiniteSet(B), InLine(B), NEW T \in SUBSET B, T # {}
  PROVE  \E m \in T : \A b \in T \ {m} : Precedes(b, m) /\ ~Precedes(m, b)
<1> DEFINE after(b) == {c \in T : Precedes(b, c)}
           sizes == {Cardinality(after(b)) : b \in T}
<1>1. IsFiniteSet(T)
  BY FS_Subset
<1>2. \A b \in T : IsFiniteSet(after(b)) /\ Cardinality(after(b)) \in Nat
  <2> TAKE b \in T
  <2>1. after(b) \in SUBSET T
    OBVIOUS
  <2> HIDE DEF after
  <2> QED BY <1>1, <2>1, FS_Subset, FS_CardinalityType
<1>3. sizes \in SUBSET Nat /\ sizes # {}
  BY <1>2
<1>4. PICK n \in sizes : \A k \in sizes : n <= k
  <2> HIDE DEF sizes
  <2> QED BY <1>3, NaturalsHaveALeast
<1>5. PICK m \in T : n = Cardinality(after(m))
  OBVIOUS
<1>6. ASSUME NEW d \in T, Precedes(m, d) PROVE FALSE
  <2>1. after(d) \in SUBSET after(m) /\ d \in after(m) /\ d \notin after(d)
    BY <1>6 DEF InLine
  <2>2. Cardinality(after(m)) <= Cardinality(after(d))
    BY <1>4, <1>5
  <2>3. IsFiniteSet(after(m)) /\ Cardinality(after(m)) \in Nat /\ Cardinality(after(d)) \in Nat
    BY <1>2
  <2> HIDE DEF after
  <2>4. Cardinality(after(d)) <= Cardinality(after(m))
        /\ (Cardinality(after(m)) = Cardinality(after(d)) => after(m) = after(d))
    BY <2>1, <2>3, FS_Subset
  <2>5. Cardinality(after(m)) = Cardinality(after(d))
    BY <2>2, <2>3, <2>4
  <2> QED BY <2>1, <2>4, <2>5
<1> QED BY <1>6 DEF InLine

\* One more block has what it has, and gives what it gives.
LEMMA OneMoreBlock ==
  ASSUME NEW B, \A b \in B : b.left \in Nat, NEW give \in [B -> Nat],
         NEW R \in SUBSET B, IsFiniteSet(R), NEW m \in B, m \notin R
  PROVE  /\ LeftOf(R) \in Nat /\ m.left \in Nat /\ give[m] \in Nat
         /\ Cardinality(UnitsOf(R \cup {m}, give)) = Cardinality(UnitsOf(R, give)) + give[m]
         /\ LeftOf(R \cup {m}) = LeftOf(R) + m.left
<1> DEFINE T == R \cup {m}
           gave == [b \in R |-> give[b]]
           gives == [b \in T |-> give[b]]
           had == [b \in R |-> b.left]
           has == [b \in T |-> b.left]
<1>1. T \in SUBSET B /\ IsFiniteSet(T)
  BY FS_AddElement
<1>2. \A b \in R : b.left \in Nat
  OBVIOUS
<1>3. \A b \in T : b.left \in Nat
  BY <1>1
<1>4. /\ LeftOf(R) = Cardinality(UnitsOf(R, had)) /\ LeftOf(R) \in Nat
      /\ LeftOf(T) = Cardinality(UnitsOf(T, has))
  <2> HIDE DEF T
  <2> QED BY <1>1, <1>2, <1>3, LeftIsCounted
<1>5. UnitsOf(R, gave) = UnitsOf(R, give) /\ UnitsOf(T, gives) = UnitsOf(T, give)
  BY DEF UnitsOf
<1>6. gave \in [R -> Nat] /\ had \in [R -> Nat]
  BY <1>1, <1>2
<1>7. gives \in [R \cup {m} -> Nat] /\ has \in [R \cup {m} -> Nat]
  BY <1>1, <1>3
<1>8. (\A b \in R : gives[b] = gave[b]) /\ (\A b \in R : has[b] = had[b])
      /\ gives[m] = give[m] /\ has[m] = m.left
  OBVIOUS
<1> HIDE DEF gave, gives, had, has
<1>9. Cardinality(UnitsOf(R \cup {m}, gives)) = Cardinality(UnitsOf(R, gave)) + gives[m]
  BY <1>6, <1>7, <1>8, OneMoreHolder
<1>10. Cardinality(UnitsOf(R \cup {m}, has)) = Cardinality(UnitsOf(R, had)) + has[m]
  BY <1>6, <1>7, <1>8, OneMoreHolder
<1>11. m.left \in Nat /\ give[m] \in Nat
  OBVIOUS
<1> QED BY <1>4, <1>5, <1>8, <1>9, <1>10, <1>11

\* Blocks in line, each giving what those before it could not, give what is needed or all
\* they have.
LEMMA FilledInLine ==
  ASSUME NEW B, IsFiniteSet(B), InLine(B), \A b \in B : b.left \in Nat,
         NEW needed \in Nat, NEW give \in [B -> Nat],
         \A b \in B : give[b] =
           Larger(0, Smaller(needed - LeftOf({c \in B : Precedes(c, b)}), b.left))
  PROVE  Cardinality(UnitsOf(B, give)) = Smaller(needed, LeftOf(B))
<1> DEFINE Begun(T) == \A b \in T, c \in B : Precedes(c, b) => c \in T
           Filled(T) == Cardinality(UnitsOf(T, give)) = Smaller(needed, LeftOf(T))
           bad == {T \in SUBSET B : Begun(T) /\ ~Filled(T)}
           sizes == {Cardinality(T) : T \in bad}
<1>1. \A T \in SUBSET B : IsFiniteSet(T) /\ Cardinality(T) \in Nat
  BY FS_Subset, FS_CardinalityType
<1>2. SUFFICES ASSUME bad # {} PROVE FALSE
  <2>1. B \in SUBSET B /\ Begun(B)
    OBVIOUS
  <2> HIDE DEF Filled, Begun
  <2>2. Filled(B) => Cardinality(UnitsOf(B, give)) = Smaller(needed, LeftOf(B))
    BY DEF Filled
  <2> QED BY <2>1, <2>2
<1>3. PICK T \in bad : \A R \in bad : Cardinality(T) <= Cardinality(R)
  <2>1. sizes \in SUBSET Nat /\ sizes # {}
    BY <1>1, <1>2
  <2>2. PICK n \in sizes : \A k \in sizes : n <= k
    <3> HIDE DEF sizes
    <3> QED BY <2>1, NaturalsHaveALeast
  <2>3. PICK T \in bad : n = Cardinality(T)
    OBVIOUS
  <2> HIDE DEF bad
  <2> QED BY <2>2, <2>3
<1>4. T \in SUBSET B /\ Begun(T) /\ ~Filled(T) /\ IsFiniteSet(T) /\ Cardinality(T) \in Nat
  BY <1>1, <1>3
<1>5. T # {}
  <2> SUFFICES ASSUME T = {} PROVE FALSE
    OBVIOUS
  <2>1. UnitsOf(T, give) = {} /\ UNION {{b} \X (1..b.left) : b \in T} = {}
    BY DEF UnitsOf
  <2>2. Cardinality(UnitsOf(T, give)) = 0 /\ LeftOf(T) = 0
    BY <2>1, FS_EmptySet DEF LeftOf
  <2>3. Smaller(needed, 0) = 0
    BY DEF Smaller
  <2> QED BY <1>4, <2>2, <2>3
<1>6. PICK m \in T : \A b \in T \ {m} : Precedes(b, m) /\ ~Precedes(m, b)
  BY <1>4, <1>5, OneIsLast
<1> DEFINE R == T \ {m}
<1>7. R \in SUBSET B /\ m \in B /\ m \notin R /\ T = R \cup {m}
  BY <1>4
<1>8. {c \in B : Precedes(c, m)} = R
  BY <1>4, <1>6 DEF InLine
<1>9. Begun(R)
  <2> SUFFICES ASSUME NEW b \in R, NEW c \in B, Precedes(c, b) PROVE c \in R
    OBVIOUS
  <2>1. c \in T
    BY <1>4
  <2> QED BY <1>6, <2>1
<1>10. Cardinality(R) < Cardinality(T)
  <2>1. Cardinality(T \ {m}) = Cardinality(T) - 1
    BY <1>4, FS_RemoveElement
  <2> QED BY <1>4, <2>1
<1>11. Filled(R)
  <2>1. R \notin bad
    <3> SUFFICES ASSUME R \in bad PROVE FALSE
      OBVIOUS
    <3>1. Cardinality(T) <= Cardinality(R)
      BY <1>3
    <3>2. Cardinality(R) \in Nat
      BY <1>1, <1>7
    <3> HIDE DEF R
    <3> QED BY <1>4, <1>10, <3>1, <3>2
  <2> HIDE DEF R, Filled, Begun
  <2> QED BY <1>7, <1>9, <2>1
<1> HIDE DEF R
<1>12. R \in SUBSET B /\ IsFiniteSet(R) /\ m \in B /\ m \notin R /\ T = R \cup {m}
  BY <1>1, <1>7
<1>13. /\ LeftOf(R) \in Nat /\ m.left \in Nat /\ give[m] \in Nat
       /\ Cardinality(UnitsOf(T, give)) = Cardinality(UnitsOf(R, give)) + give[m]
       /\ LeftOf(T) = LeftOf(R) + m.left
  BY <1>12, OneMoreBlock
<1>17. give[m] = Larger(0, Smaller(needed - LeftOf(R), m.left))
  BY <1>7, <1>8
<1>18. Cardinality(UnitsOf(R, give)) = Smaller(needed, LeftOf(R))
  BY <1>11
<1>19. \A a, x \in Nat :
         Smaller(needed, a) + Larger(0, Smaller(needed - a, x)) = Smaller(needed, a + x)
  BY DEF Smaller, Larger
<1>20. Cardinality(UnitsOf(T, give)) = Smaller(needed, LeftOf(T))
  BY <1>13, <1>17, <1>18, <1>19
<1> QED BY <1>4, <1>20

\* What is allocated adds up to what the order needs.
LEMMA AllocationIsFull ==
  ASSUME NEW balance, balance.base \in Int, balance.highQuality \in Int,
         IsFiniteSet(balance.blocks),
         \A b \in balance.blocks : b.left \in Int /\ b.purchasedAt \in Int /\ b.id \in Int,
         \A b, c \in balance.blocks : b.id = c.id => b = c,
         NEW quality, NEW units \in Nat, Sufficient(balance, quality, units),
         NEW S, IsFiniteSet(S), 0 \in S, \A b \in balance.blocks : b.id \in S /\ b.id # 0,
         NEW allocation, allocation = planUnitAllocation(balance, quality, units, S)
  PROVE  Cardinality(UnitsOf(S, allocation)) = units
<1> DEFINE eligible == fifoEligibleBlocks(balance, quality)
           base == FromBase(balance, quality, units)
           needed == units - base
           give == [b \in eligible |-> FromBlock(balance, quality, units, b)]
           ids == {b.id : b \in eligible}
           block == [s \in ids |-> CHOOSE b \in eligible : b.id = s]
           name == [b \in eligible |-> b.id]
           given == [s \in ids |-> allocation[s]]
           funded == [s \in ids \cup {0} |-> allocation[s]]
<1>1. /\ base \in Nat /\ base <= units
      /\ BaseEligible(balance, quality) \in Nat
      /\ base = Smaller(units, BaseEligible(balance, quality))
  BY DEF FromBase, BaseEligible, Smaller, Larger
<1>2. /\ eligible \in SUBSET balance.blocks
      /\ \A b \in eligible : b.left \in Nat /\ b.id \in Int /\ b.purchasedAt \in Int
      /\ \A b, c \in eligible : b.id = c.id => b = c
      /\ ids \in SUBSET S /\ 0 \notin ids
  BY DEF fifoEligibleBlocks
<1>3. IsFiniteSet(eligible)
  <2> HIDE DEF eligible
  <2> QED BY <1>2, FS_Subset
<1>4. units <= BaseEligible(balance, quality) + LeftOf(eligible)
  BY DEF Sufficient
<1>5. \A b \in eligible :
        /\ FromBlock(balance, quality, units, b)
             = Larger(0, Smaller(needed - LeftOf({c \in eligible : Precedes(c, b)}), b.left))
        /\ FromBlock(balance, quality, units, b) \in Nat
  <2> TAKE b \in eligible
  <2>1. FromBlock(balance, quality, units, b)
          = Larger(0, Smaller(needed - LeftOf({c \in eligible : Precedes(c, b)}), b.left))
    BY DEF FromBlock
  <2> DEFINE before == {c \in eligible : Precedes(c, b)}
  <2>2. before \in SUBSET eligible
    OBVIOUS
  <2> HIDE DEF eligible, before
  <2>3. IsFiniteSet(before) /\ \A c \in before : c.left \in Nat
    BY <1>2, <1>3, <2>2, FS_Subset
  <2>4. LeftOf(before) \in Nat /\ b.left \in Nat
    BY <1>2, <2>3, LeftIsCounted
  <2>5. needed \in Int
    BY <1>1
  <2> HIDE DEF needed
  <2>6. Larger(0, Smaller(needed - LeftOf(before), b.left)) \in Nat
    BY <2>4, <2>5 DEF Larger, Smaller
  <2> QED BY <2>1, <2>6 DEF before
<1>6. allocation = [s \in S |->
        IF s = 0 THEN base
        ELSE IF \E b \in eligible : b.id = s
             THEN FromBlock(balance, quality, units, CHOOSE b \in eligible : b.id = s) ELSE 0]
  BY DEF planUnitAllocation
<1>7. needed \in Nat
  BY <1>1
<1> HIDE DEF eligible, base
<1>8. give \in [eligible -> Nat] /\ \A b \in eligible :
        give[b] = Larger(0, Smaller(needed - LeftOf({c \in eligible : Precedes(c, b)}), b.left))
  BY <1>5
<1>9. InLine(eligible)
  BY <1>2, BlocksAreInLine
<1>10. Cardinality(UnitsOf(eligible, give)) = Smaller(needed, LeftOf(eligible))
  <2> HIDE DEF give, needed
  <2>1. \A b \in eligible : b.left \in Nat
    BY <1>2
  <2> QED BY <1>3, <1>7, <1>8, <1>9, <2>1, FilledInLine
<1>11. LeftOf(eligible) \in Nat
  BY <1>2, <1>3, LeftIsCounted
<1>12. Smaller(needed, LeftOf(eligible)) = needed
  <2> DEFINE all == LeftOf(eligible)
             pool == BaseEligible(balance, quality)
  <2> HIDE DEF all, pool
  <2>1. all \in Nat /\ pool \in Nat /\ units <= pool + all /\ base = Smaller(units, pool)
    BY <1>1, <1>4, <1>11 DEF all, pool
  <2>2. needed <= all
    BY <2>1 DEF Smaller
  <2>3. Smaller(needed, all) = needed
    <3> HIDE DEF needed
    <3> QED BY <1>7, <2>1, <2>2 DEF Smaller
  <2> QED BY <2>3 DEF all
<1>13. /\ \A s \in ids : block[s] \in eligible /\ block[s].id = s
       /\ \A b \in eligible : name[b] \in ids /\ block[name[b]] = b
       /\ name \in [eligible -> ids] /\ block \in [ids -> eligible]
       /\ \A s \in ids : name[block[s]] = s
  <2>1. \A s \in ids : block[s] \in eligible /\ block[s].id = s
    OBVIOUS
  <2>2. \A b \in eligible : name[b] \in ids /\ block[name[b]] = b
    BY <1>2, <2>1
  <2> QED BY <2>1, <2>2
<1>14. \A s \in ids : allocation[s] = FromBlock(balance, quality, units, block[s])
  <2> TAKE s \in ids
  <2>1. s \in S /\ s # 0 /\ \E b \in eligible : b.id = s
    BY <1>2
  <2> QED BY <1>6, <2>1
<1>15. allocation[0] = base /\ \A s \in S : s # 0 /\ s \notin ids => allocation[s] = 0
  BY <1>6
<1>16. /\ given \in [ids -> Nat] /\ \A b \in eligible : given[name[b]] = give[b]
  <2>1. \A s \in ids : allocation[s] \in Nat
    <3>1. \A b \in eligible : FromBlock(balance, quality, units, b) \in Nat
      BY <1>5
    <3>2. \A s \in ids : block[s] \in eligible
      BY <1>13
    <3> HIDE DEF block, ids
    <3> QED BY <1>14, <3>1, <3>2
  <2>2. ASSUME NEW b \in eligible PROVE given[name[b]] = give[b]
    <3>1. name[b] \in ids /\ block[name[b]] = b
      BY <1>13
    <3>2. given[name[b]] = allocation[name[b]]
      BY <3>1
    <3> HIDE DEF block, ids, name, given
    <3> QED BY <1>14, <3>1, <3>2
  <2> QED BY <2>1, <2>2
<1>17. IsFiniteSet(ids) /\ Cardinality(UnitsOf(ids, given)) = Cardinality(UnitsOf(eligible, give))
  <2> HIDE DEF given, give, name, block, ids
  <2> QED BY <1>3, <1>8, <1>13, <1>16, SameUnits
<1>18. /\ funded \in [ids \cup {0} -> Nat] /\ \A s \in ids : funded[s] = given[s]
       /\ funded[0] = base
  BY <1>1, <1>15, <1>16
<1>19. UnitsOf(S, allocation) = UnitsOf(ids \cup {0}, funded)
  <2>1. \A s \in S : s \notin ids \cup {0} => 1..allocation[s] = {}
    BY <1>15
  <2>2. \A s \in ids \cup {0} : s \in S /\ funded[s] = allocation[s]
    BY <1>2
  <2> HIDE DEF ids, funded
  <2>3. UnitsOf(S, allocation) = {u \in S \X Int : u[2] \in 1..allocation[u[1]]}
        /\ UnitsOf(ids \cup {0}, funded)
             = {u \in (ids \cup {0}) \X Int : u[2] \in 1..funded[u[1]]}
    BY UnitOf
  <2> QED BY <2>1, <2>2, <2>3
<1>20. Cardinality(UnitsOf(ids \cup {0}, funded)) = Cardinality(UnitsOf(ids, given)) + funded[0]
  <2> HIDE DEF ids, funded, given
  <2> QED BY <1>2, <1>16, <1>17, <1>18, OneMoreHolder
<1>21. Cardinality(UnitsOf(S, allocation)) = needed + base
  BY <1>10, <1>12, <1>17, <1>18, <1>19, <1>20
<1> QED BY <1>1, <1>21

\* So is what a start writes.
LEMMA StartIsFull ==
  ASSUME TypeOK, RequestsFit, BoundsFit, NEW c \in Client, request[c].kind = "START",
         ~StartRefused(request[c])
  PROVE  Cardinality(UnitsOf(Source, AllocationFor(request[c])))
           = requiredUnitsFor(OrderOf[request[c].project].seconds)
<1> DEFINE r == request[c]
           balance == periodEntitlementBalance(r.period)
           quality == OrderOf[r.project].quality
           units == requiredUnitsFor(OrderOf[r.project].seconds)
           allocation == AllocationFor(r)
<1>1. r \in Starts /\ subscription # NoSubscription
  BY RequestOfKind, Rows DEF RequestsFit, RequestFits
<1>2. r.project \in Project /\ r.period \in Int
  BY <1>1 DEF Starts
<1>3. units \in Nat
  BY <1>2, OrderOfProject
<1>4. /\ balance.base \in Int /\ balance.highQuality \in Int /\ IsFiniteSet(balance.blocks)
      /\ \A b \in balance.blocks : b.left \in Int
  BY <1>1, <1>2, BalanceOfPeriod DEF BoundsFit
<1>b. balance.blocks = {BlockOf(u) : u \in {v \in Bought : purchase[v].period = r.period}}
  BY <1>1, <1>2, BalanceOfPeriod DEF BoundsFit
<1>5. \A u \in Bought : /\ BlockOf(u).id = u /\ BlockOf(u).purchasedAt = purchase[u].approvedAt
                        /\ purchase[u].approvedAt \in Nat
                        /\ u \in Source /\ u # 0 /\ u \in Int
  <2>1. Bought = 1..Len(purchase) /\ Len(purchase) \in Nat /\ Len(purchase) <= Purchases
        /\ Purchases \in Nat
    BY Rows, LedgerAssumption DEF BoundsFit, LedgerAssumption
  <2>2. \A u \in Bought : purchase[u].approvedAt \in Nat
    BY Rows DEF PurchaseRows
  <2> QED BY <2>1, <2>2 DEF BlockOf
<1>6. Sufficient(balance, quality, units)
  BY DEF StartRefused
<1>7. allocation = planUnitAllocation(balance, quality, units, Source)
  BY DEF AllocationFor
<1> HIDE DEF balance, quality, units, r, allocation
<1>8. /\ \A b \in balance.blocks : b.left \in Int /\ b.purchasedAt \in Int /\ b.id \in Int
      /\ \A b \in balance.blocks : b.id \in Source /\ b.id # 0
      /\ \A b, e \in balance.blocks : b.id = e.id => b = e
  BY <1>4, <1>b, <1>5
<1>9. IsFiniteSet(Source) /\ 0 \in Source
  <2>1. Purchases \in Nat /\ 0 \in Int /\ Purchases \in Int
    BY LedgerAssumption DEF LedgerAssumption
  <2> QED BY <2>1, FS_Interval
<1> HIDE DEF Source
<1>10. Cardinality(UnitsOf(Source, allocation)) = units
  <2>1. /\ \A b \in balance.blocks : b.left \in Int /\ b.purchasedAt \in Int /\ b.id \in Int
        /\ \A b, e \in balance.blocks : b.id = e.id => b = e
        /\ \A b \in balance.blocks : b.id \in Source /\ b.id # 0
        /\ balance.base \in Int /\ balance.highQuality \in Int /\ IsFiniteSet(balance.blocks)
    BY <1>4, <1>8
  <2> QED BY <1>3, <1>6, <1>7, <1>9, <2>1, AllocationIsFull
<1> QED BY <1>10 DEF allocation, units, r

\* A start that has decided writes its order in full, from blocks that are still open.
SeenIsOpen(r) ==
  /\ Cardinality(UnitsOf(Source, r.seen)) = requiredUnitsFor(OrderOf[r.project].seconds)
  /\ \A s \in Source : s # 0 /\ r.seen[s] > 0 => ~Withdrawn(s)

\* A cancellation that has decided finds its purchase open, and for the customer's own
\* mistake untouched.
CancelHolds(r) ==
  /\ ~Withdrawn(r.purchase)
  /\ r.fault = "CUSTOMER" => DrawnOfBlock(r.purchase) = 0

OpenFit ==
  \A c \in Client : request[c].kind = "START" /\ Decided(c) => SeenIsOpen(request[c])

CancelsFit ==
  \A c \in Client : request[c].kind = "CANCEL" /\ Decided(c) => CancelHolds(request[c])

BoughtFit == Bought # {} => subscription # NoSubscription

AccountInv == SpendInv /\ BoughtFit /\ OpenFit /\ CancelsFit

\* A cancellation holds the lock on its purchase's period.
LEMMA CancelLockHad ==
  ASSUME TypeOK, RequestsFit, NEW c \in Client, Active(c), Decided(c), request[c].kind = "CANCEL"
  PROVE  /\ Exclusive("cost", purchase[request[c].purchase].period) \in HeldBy(c)
         /\ request[c].purchase \in Bought /\ request[c].fault \in {"VTAVISION", "CUSTOMER"}
<1>1. request[c] \in Requests /\ request[c] \in Cancellations
  BY Rows, RequestOfKind
<1>2. LocksOf(request[c]) = CancelLocks(request[c]) /\ Len(CancelLocks(request[c])) = 1
  BY <1>1, LocksByKind
<1>3. held[c] = 1 /\ 1 \in 1..held[c]
  BY <1>2 DEF Decided
<1>4. CancelLocks(request[c])[1] = Exclusive("cost", purchase[request[c].purchase].period)
  BY DEF CancelLocks
<1>5. LocksOf(request[c])[1] \in HeldBy(c)
  BY <1>3 DEF HeldBy
<1> QED BY <1>1, <1>2, <1>4, <1>5 DEF Cancellations, RequestsFit, RequestFits

\* Only a cancellation that has decided withdraws a purchase.
LEMMA CancelWrites ==
  ASSUME TypeOK, RequestsFit, NEW c \in Client, WriteCancel(c)
  PROVE  LET u == request[c].purchase IN
         /\ request[c].kind = "CANCEL" /\ Decided(c) /\ Active(c) /\ Ended(c)
         /\ u \in Bought /\ request[c].fault \in {"VTAVISION", "CUSTOMER"}
         /\ purchase' \in Seq(PurchaseRows) /\ Bought' = Bought
         /\ purchase'[u] = [purchase[u] EXCEPT !.cancelled = request[c].fault]
         /\ \A v \in Bought : v # u => purchase'[v] = purchase[v]
         /\ UNCHANGED <<subscription, opened, job>>
<1>1. /\ request[c].kind = "CANCEL" /\ Decided(c)
      /\ purchase' = [purchase EXCEPT ![request[c].purchase].cancelled = request[c].fault]
      /\ UNCHANGED <<subscription, opened, job>>
  BY DEF WriteCancel, Writes
<1>2. Ended(c) /\ Active(c)
  BY WriterEnds DEF Writing, Ended
<1>3. request[c].purchase \in Bought /\ request[c].fault \in {"VTAVISION", "CUSTOMER"}
  BY <1>1, <1>2, CancelLockHad
<1>4. PICK u \in Bought : u = request[c].purchase
  BY <1>3
<1>5. PICK fault \in {"VTAVISION", "CUSTOMER"} : fault = request[c].fault
  BY <1>3
<1>6. purchase' = [purchase EXCEPT ![u].cancelled = fault]
  BY <1>1, <1>4, <1>5
<1>7. /\ purchase' \in Seq(PurchaseRows) /\ Bought' = Bought
      /\ purchase'[u] = [purchase[u] EXCEPT !.cancelled = fault]
      /\ \A v \in Bought : v # u => purchase'[v] = purchase[v]
  BY <1>6, PackageIsCancelled
<1> QED BY <1>1, <1>2, <1>3, <1>4, <1>5, <1>7

LEMMA ApproveWrites ==
  ASSUME TypeOK, RequestsFit, NEW c \in Client, WriteApprove(c)
  PROVE  /\ request[c] \in Approvals /\ subscription # NoSubscription
         /\ BoughtPackage(request[c]) \in PurchaseRows
         /\ Bought' = Bought \cup {Len(purchase) + 1} /\ Len(purchase) + 1 \notin Bought
         /\ purchase'[Len(purchase) + 1] = BoughtPackage(request[c])
         /\ \A u \in Bought : purchase'[u] = purchase[u]
         /\ UNCHANGED <<subscription, opened, job>>
<1>1. /\ request[c].kind = "APPROVE"
      /\ purchase' = Append(purchase, BoughtPackage(request[c]))
      /\ UNCHANGED <<subscription, opened, job>>
  BY DEF WriteApprove, Writes
<1>2. request[c] \in Approvals /\ subscription # NoSubscription
  BY <1>1, Rows, RequestOfKind DEF RequestsFit, RequestFits
<1> QED BY <1>1, <1>2, PackageIsBought

LEMMA WithdrawnByOne ==
  ASSUME TypeOK, RequestsFit, [Next]_vars, NEW u \in Bought, ~Withdrawn(u), Withdrawn(u)'
  PROVE  \E c \in Client : /\ WriteCancel(c) /\ request[c].purchase = u
                           /\ request[c].kind = "CANCEL" /\ Decided(c) /\ Active(c) /\ Ended(c)
<1>1. CASE UNCHANGED purchase
  BY <1>1 DEF Withdrawn
<1>2. ASSUME NEW c \in Client, WriteApprove(c) PROVE FALSE
  <2>1. purchase'[u] = purchase[u]
    BY <1>2, ApproveWrites
  <2> QED BY <2>1 DEF Withdrawn
<1>3. ASSUME NEW c \in Client, WriteCancel(c) PROVE request[c].purchase = u
  <2>1. \A v \in Bought : v # request[c].purchase => purchase'[v] = purchase[v]
    BY <1>3, CancelWrites
  <2> QED BY <2>1 DEF Withdrawn
<1>4. \A c \in Client : WriteCancel(c) =>
        request[c].kind = "CANCEL" /\ Decided(c) /\ Active(c) /\ Ended(c)
  BY CancelWrites
<1> QED BY <1>1, <1>2, <1>3, <1>4, PurchaseSteps

LEMMA BoughtKept ==
  ASSUME BaseInv, RowsStay, BoughtFit, [Next]_vars
  PROVE  BoughtFit'
<1>1. TypeOK /\ RequestsFit
  BY DEF BaseInv
<1>2. ASSUME subscription # NoSubscription PROVE BoughtFit'
  BY <1>2 DEF BoughtFit, RowsStay
<1>3. CASE UNCHANGED purchase
  <2>1. Bought' = Bought
    BY <1>3 DEF Bought
  <2> QED BY <1>2, <2>1 DEF BoughtFit
<1>4. ASSUME NEW c \in Client, WriteApprove(c) PROVE subscription # NoSubscription
  BY <1>1, <1>4, ApproveWrites
<1>5. ASSUME NEW c \in Client, WriteCancel(c) PROVE subscription # NoSubscription
  BY <1>1, <1>5, CancelWrites DEF BoughtFit
<1> QED BY <1>2, <1>3, <1>4, <1>5, PurchaseSteps

\* Only the transaction itself decides, and what it has decided it keeps.
LEMMA DecidedBefore ==
  ASSUME BaseInv, BaseInv', RowsStay, BoundsFit, [Next]_vars, NEW d \in Client, Decided(d)'
  PROVE  \/ /\ Decide(d) /\ Granted(d) /\ GoesOn(request[d]) /\ Active(d) /\ UNCHANGED ledger
            /\ request'[d] = Remembering(request[d])
         \/ Same(d) /\ Decided(d) /\ Active(d)
<1>1. TypeOK /\ TypeOK' /\ RequestsFit
  BY DEF BaseInv
<1>2. Same(d) \/ Decide(d)
  <2>1. Same(d) \/ Acts(d)
    BY <1>1, ClientSteps
  <2>2. ~Began(d) /\ ~Ended(d) /\ ~TakeLock(d)
    BY <1>1, BegunActor, EndedActor, FurtherActor DEF GoesFurther, RequestsFit
  <2> QED BY <2>1, <2>2 DEF Acts
<1>3. CASE Decide(d)
  <2>1. /\ request' = [request EXCEPT ![d] = Remembering(request[d])] /\ UNCHANGED ledger
        /\ Granted(d) /\ GoesOn(request[d]) /\ Active(d)
    BY <1>3 DEF Decide, Granted
  <2>2. request'[d] = Remembering(request[d])
    BY <1>1, <2>1 DEF TypeOK
  <2> QED BY <1>3, <2>1, <2>2
<1>4. CASE Same(d)
  <2>1. Decided(d)
    BY <1>1, <1>4, StillActor
  <2> QED BY <1>4, <2>1 DEF Decided
<1> QED BY <1>2, <1>3, <1>4

LEMMA OpenKept ==
  ASSUME BaseInv, BaseInv', RowsStay, BoundsFit, StartsFit, OpenFit, [Next]_vars
  PROVE  OpenFit'
<1>1. TypeOK /\ TypeOK' /\ RequestsFit /\ LocksExclude
  BY DEF BaseInv
<1> SUFFICES ASSUME NEW d \in Client, request'[d].kind = "START", Decided(d)'
             PROVE  SeenIsOpen(request[d])'
  BY DEF OpenFit
<1>2. PICK r \in Starts : r = request'[d]
  BY <1>1, RequestOfKind DEF TypeOK
<1>3. SUFFICES SeenIsOpen(r)'
  BY <1>2 DEF SeenIsOpen
<1>4. CASE Same(d) /\ Decided(d) /\ Active(d)
  <2>1. request[d] = r /\ r.kind = "START" /\ SeenIsOpen(r) /\ SeenFits(r)
    BY <1>2, <1>4 DEF Same, OpenFit, StartsFit, Starts
  <2>2. ASSUME NEW s \in Source, s # 0, r.seen[s] > 0 PROVE ~Withdrawn(s)'
    <3>1. s \in Bought /\ purchase[s].period = r.period /\ ~Withdrawn(s)
      BY <2>1, <2>2 DEF SeenFits, SeenIsOpen
    <3>2. SUFFICES ASSUME Withdrawn(s)' PROVE FALSE
      OBVIOUS
    <3>3. PICK c \in Client : /\ request[c].purchase = s /\ request[c].kind = "CANCEL"
                              /\ Decided(c) /\ Active(c)
      BY <1>1, <3>1, <3>2, WithdrawnByOne
    <3>4. Exclusive("cost", r.period) \in HeldBy(c)
      BY <1>1, <3>1, <3>3, CancelLockHad
    <3>5. Exclusive("cost", r.period) \in HeldBy(d)
      BY <1>1, <1>4, <2>1, LocksHad
    <3>6. c = d
      BY <1>1, <3>4, <3>5, OneHolder
    <3> QED BY <2>1, <3>3, <3>6
  <2> QED BY <2>1, <2>2 DEF SeenIsOpen
<1>5. CASE Decide(d) /\ Granted(d) /\ GoesOn(request[d]) /\ Active(d) /\ UNCHANGED ledger
           /\ request'[d] = Remembering(request[d])
  <2>1. /\ request[d].kind = "START" /\ r.project = request[d].project
        /\ r.seen = AllocationFor(request[d])
    BY <1>1, <1>2, <1>5, Remembered
  <2>2. ~StartRefused(request[d])
    BY <1>5, <2>1 DEF GoesOn
  <2>3. Cardinality(UnitsOf(Source, AllocationFor(request[d])))
          = requiredUnitsFor(OrderOf[request[d].project].seconds)
    BY <1>1, <2>1, <2>2, StartIsFull
  <2>4. \A s \in Source : s # 0 /\ AllocationFor(request[d])[s] > 0 => ~Withdrawn(s)
    BY <1>1, <2>1, AllocationOfStart
  <2>5. SeenIsOpen(r)
    BY <2>1, <2>3, <2>4 DEF SeenIsOpen
  <2> QED BY <1>5, <2>5 DEF SeenIsOpen, Withdrawn, ledger
<1> QED BY <1>4, <1>5, DecidedBefore

LEMMA CancelsKept ==
  ASSUME BaseInv, BaseInv', RowsStay, BoundsFit, DecisionsHold, StartsFit, CancelsFit, [Next]_vars
  PROVE  CancelsFit'
<1>1. TypeOK /\ TypeOK' /\ RequestsFit /\ LocksExclude
  BY DEF BaseInv
<1> SUFFICES ASSUME NEW d \in Client, request'[d].kind = "CANCEL", Decided(d)'
             PROVE  CancelHolds(request[d])'
  BY DEF CancelsFit
<1>2. PICK r \in Cancellations : r = request'[d]
  BY <1>1, RequestOfKind DEF TypeOK
<1>3. SUFFICES CancelHolds(r)'
  BY <1>2 DEF CancelHolds
<1>4. DrawnIsNatural /\ DrawnIsNatural'
  BY <1>1, DrawnIsTyped, DrawnIsTypedThen
<1>5. \A u \in Bought : u \in Source /\ u # 0
  BY BlocksAreSources
<1>6. CASE Same(d) /\ Decided(d) /\ Active(d)
  <2>1. request[d] = r /\ request[d].kind = "CANCEL" /\ CancelHolds(r)
    BY <1>2, <1>6 DEF Same, CancelsFit
  <2>2. PICK u \in Bought : u = r.purchase
    BY <1>1, <1>6, <2>1, CancelLockHad
  <2>3. Exclusive("cost", purchase[u].period) \in HeldBy(d)
    BY <1>1, <1>6, <2>1, <2>2, CancelLockHad
  <2>4. ~Withdrawn(u)'
    <3> SUFFICES ASSUME Withdrawn(u)' PROVE FALSE
      OBVIOUS
    <3>1. ~Withdrawn(u)
      BY <2>1, <2>2 DEF CancelHolds
    <3>2. PICK c \in Client : /\ request[c].purchase = u /\ request[c].kind = "CANCEL"
                              /\ Decided(c) /\ Active(c) /\ Ended(c)
      BY <1>1, <3>1, WithdrawnByOne
    <3>3. Exclusive("cost", purchase[u].period) \in HeldBy(c)
      BY <1>1, <3>2, CancelLockHad
    <3>4. c = d
      BY <1>1, <2>3, <3>3, OneHolder
    <3> QED BY <1>1, <3>2, <3>4, EndedActor
  <2>5. ASSUME r.fault = "CUSTOMER" PROVE DrawnOfBlock(u)' = 0
    <3>1. DrawnOfBlock(u) = 0 /\ DrawnOfBlock(u)' \in Nat /\ u \in Source
      BY <1>4, <1>5, <2>1, <2>2, <2>5 DEF CancelHolds, DrawnIsNatural
    <3>2. CASE ~\E c \in Client : WriteStart(c)
      <4>1. DrawnOfBlock(u)' <= DrawnOfBlock(u)
        BY <3>1, <3>2, NothingIsDrawn DEF DrawnFalls
      <4> QED BY <3>1, <4>1
    <3>3. ASSUME NEW c \in Client, WriteStart(c) PROVE DrawnOfBlock(u)' = 0
      <4>1. PICK q \in Starts : q = request[c]
        BY <1>1, <3>3, StartWritten
      <4>2. /\ q.kind = "START" /\ Decided(c) /\ Active(c)
            /\ job' = Append(job, StartedJob(q)) /\ SeenFits(q)
        BY <1>1, <3>3, <4>1, StartWritten DEF StartsFit
      <4>3. q.period # purchase[u].period
        <5> SUFFICES ASSUME q.period = purchase[u].period PROVE FALSE
          OBVIOUS
        <5>1. Exclusive("cost", purchase[u].period) \in HeldBy(c)
          BY <1>1, <4>1, <4>2, LocksHad
        <5>2. c = d
          BY <1>1, <2>3, <5>1, OneHolder
        <5> QED BY <2>1, <4>1, <4>2, <5>2
      <4>4. q.seen[u] = 0
        <5>1. ~(q.seen[u] > 0)
          BY <1>5, <4>2, <4>3 DEF SeenFits
        <5>2. q.seen[u] \in Nat
          BY <3>1 DEF Starts
        <5> QED BY <5>1, <5>2
      <4>5. DrawnOfBlock(u)' <= DrawnOfBlock(u) + 0
        BY <1>1, <3>1, <4>2, <4>4, StartDraws DEF DrawnBy
      <4> QED BY <3>1, <4>5
    <3> QED BY <3>2, <3>3
  <2> QED BY <2>2, <2>4, <2>5 DEF CancelHolds
<1>7. CASE Decide(d) /\ Granted(d) /\ GoesOn(request[d]) /\ Active(d) /\ UNCHANGED ledger
           /\ request'[d] = Remembering(request[d])
  <2>1. request[d].kind = "CANCEL" /\ request[d] = r
    <3>1. Remembering(request[d]).kind = request[d].kind
          /\ (request[d].kind \notin {"START", "PUBLISH"} => Remembering(request[d]) = request[d])
      BY <1>1, <1>7, Remembered
    <3> QED BY <1>2, <1>7, <3>1
  <2>2. PICK u \in Bought : u = r.purchase
    BY <1>1, <2>1 DEF RequestsFit, RequestFits
  <2>3. ~CancelRefused(r)
    BY <1>7, <2>1 DEF GoesOn
  <2>4. ~Withdrawn(u)
    BY <2>2, <2>3 DEF CancelRefused
  <2>5. r.fault = "CUSTOMER" => ~(DrawnOfBlock(u) > 0)
    BY <2>2, <2>3 DEF CancelRefused, cancellationRefusal, DrawnOfBlock
  <2>6. DrawnOfBlock(u) \in Nat
    BY <1>4, <1>5 DEF DrawnIsNatural
  <2>7. r.fault = "CUSTOMER" => DrawnOfBlock(u) = 0
    BY <2>5, <2>6
  <2>8. CancelHolds(r)
    BY <2>2, <2>4, <2>7 DEF CancelHolds
  <2> QED BY <1>7, <2>8 DEF CancelHolds, Withdrawn, DrawnOfBlock, Drawn, UnitsDrawn, Started, ledger
<1> QED BY <1>6, <1>7, DecidedBefore

LEMMA AccountInvKept == AccountInv /\ [Next]_vars => AccountInv'
<1> SUFFICES ASSUME AccountInv, [Next]_vars PROVE AccountInv'
  OBVIOUS
<1>1. SpendInv /\ BaseInv /\ DecisionsHold /\ StartsFit /\ BoughtFit /\ OpenFit /\ CancelsFit
  BY DEF AccountInv, SpendInv, LockInv
<1>2. SpendInv'
  BY <1>1, SpendInvKept
<1>3. BaseInv' /\ RowsStay /\ BoundsFit
  BY <1>1, BaseKept
<1> QED BY <1>1, <1>2, <1>3, BoughtKept, OpenKept, CancelsKept DEF AccountInv

LEMMA InitAccount == Init => AccountInv
<1> SUFFICES ASSUME Init PROVE AccountInv
  OBVIOUS
<1>1. SpendInv
  BY InitSpend
<1>2. Bought = {} /\ \A c \in Client : ~Active(c)
  BY DEF Init, Bought, Active, Idle
<1> QED BY <1>1, <1>2 DEF AccountInv, BoughtFit, OpenFit, CancelsFit, Decided

-----------------------------------------------------------------------------
(***************************************************************************)
(* The account contract, step by step.                                     *)
(***************************************************************************)

\* The lots and orders of the contract, as the ledger has them.
LotRows == [l \in Lots |-> LotFacts(l)]
OrderRows == [j \in Started |-> OrderFacts(j)]

\* A step of the contract, or none.
Accounts == [Account!ContractNext]_(Account!contractVars)

\* The lot a source is, for the jobs of a period, and what is taken of each.
LotIn(i, s) == IF s = 0 THEN <<"period", i>> ELSE <<"block", s>>

TakenOf(i, allocated) ==
  LET sources == {s \in Source : allocated[s] > 0}
  IN  [l \in {LotIn(i, s) : s \in sources} |->
         allocated[CHOOSE s \in sources : LotIn(i, s) = l]]

LEMMA TakenIs ==
  /\ \A j : Taken(j) = TakenOf(job[j].period, job[j].allocated)
  /\ \A j : Taken(j)' = TakenOf(job'[j].period, job'[j].allocated)
BY DEF Taken, TakenOf, LotOf, LotIn

LEMMA LotsAreNamed ==
  ASSUME NEW i, NEW s \in Source, NEW t \in Source, LotIn(i, s) = LotIn(i, t)
  PROVE  s = t
<1>1. <<"period", i>>[1] = "period" /\ <<"block", s>>[1] = "block" /\ <<"block", t>>[1] = "block"
  OBVIOUS
<1>2. <<"block", s>>[2] = s /\ <<"block", t>>[2] = t
  OBVIOUS
<1>3. CASE s = 0 /\ t # 0
  BY <1>1, <1>3 DEF LotIn
<1>4. CASE s # 0 /\ t = 0
  BY <1>1, <1>4 DEF LotIn
<1>5. CASE s # 0 /\ t # 0
  BY <1>2, <1>5 DEF LotIn
<1> QED BY <1>3, <1>4, <1>5

\* T has under other names what S has.
Renamed(S, f, T, g, h, back) ==
  /\ IsFiniteSet(S) /\ f \in [S -> Nat] /\ g \in [T -> Nat]
  /\ h \in [S -> T] /\ back \in [T -> S]
  /\ \A x \in S : back[h[x]] = x /\ g[h[x]] = f[x]
  /\ \A y \in T : h[back[y]] = y

LEMMA RenamedUnits ==
  ASSUME NEW S, NEW f, NEW T, NEW g, NEW h, NEW back, Renamed(S, f, T, g, h, back)
  PROVE  IsFiniteSet(T) /\ Cardinality(UnitsOf(T, g)) = Cardinality(UnitsOf(S, f))
BY SameUnits DEF Renamed

LEMMA TakenOfSources ==
  ASSUME NEW i, NEW allocated \in [Source -> Nat]
  PROVE  LET taken == TakenOf(i, allocated)
         IN  /\ DOMAIN taken = {LotIn(i, s) : s \in {t \in Source : allocated[t] > 0}}
             /\ \A s \in Source : allocated[s] > 0 => taken[LotIn(i, s)] = allocated[s]
             /\ Cardinality(UnitsOf(DOMAIN taken, taken))
                  = Cardinality(UnitsOf(Source, allocated))
<1> DEFINE taken == TakenOf(i, allocated)
           sources == {s \in Source : allocated[s] > 0}
           lots == {LotIn(i, s) : s \in sources}
           name == [s \in sources |-> LotIn(i, s)]
           source == [l \in lots |-> CHOOSE s \in sources : LotIn(i, s) = l]
           some == [s \in sources |-> allocated[s]]
<1>1. taken = [l \in lots |-> allocated[source[l]]]
  BY DEF TakenOf
<1>2. \A l \in lots : source[l] \in sources /\ LotIn(i, source[l]) = l
  OBVIOUS
<1>3. \A s \in sources : LotIn(i, s) \in lots /\ source[LotIn(i, s)] = s
  <2> TAKE s \in sources
  <2>1. LotIn(i, s) \in lots
    OBVIOUS
  <2>2. source[LotIn(i, s)] \in sources /\ LotIn(i, source[LotIn(i, s)]) = LotIn(i, s)
    BY <1>2, <2>1
  <2>3. s \in Source /\ source[LotIn(i, s)] \in Source
    BY <2>2
  <2> HIDE DEF source, lots
  <2> QED BY <2>1, <2>2, <2>3, LotsAreNamed
<1>4. /\ name \in [sources -> lots] /\ source \in [lots -> sources]
      /\ \A s \in sources : source[name[s]] = s
      /\ \A l \in lots : name[source[l]] = l
      /\ \A s \in sources : name[s] = LotIn(i, s)
  <2> HIDE DEF lots, source
  <2>1. name \in [sources -> lots] /\ \A s \in sources : name[s] = LotIn(i, s)
    BY <1>3
  <2>2. source \in [lots -> sources]
    BY <1>2 DEF source
  <2> QED BY <1>2, <1>3, <2>1, <2>2
<1>5. sources \in SUBSET Source /\ some \in [sources -> Nat]
  OBVIOUS
<1>6. IsFiniteSet(sources)
  <2>1. IsFiniteSet(Source)
    <3>1. 0 \in Int /\ Purchases \in Int
      BY LedgerAssumption DEF LedgerAssumption
    <3> QED BY <3>1, FS_Interval
  <2> HIDE DEF sources, Source
  <2> QED BY <1>5, <2>1, FS_Subset
<1>7. DOMAIN taken = lots /\ taken \in [lots -> Nat]
      /\ \A s \in sources : taken[name[s]] = some[s]
  <2>1. \A s \in sources : taken[LotIn(i, s)] = allocated[s]
    <3> HIDE DEF lots, source, taken
    <3> QED BY <1>1, <1>3
  <2>2. \A l \in lots : taken[l] \in Nat
    <3> HIDE DEF lots, source, taken
    <3> QED BY <1>1, <1>2
  <2>3. DOMAIN taken = lots
    <3> HIDE DEF lots, source, taken
    <3> QED BY <1>1
  <2>4. taken \in [lots -> Nat]
    <3> HIDE DEF lots, source, taken
    <3> QED BY <1>1, <2>2
  <2> HIDE DEF taken, lots, name
  <2> QED BY <1>4, <2>1, <2>3, <2>4
<1>8. IsFiniteSet(lots) /\ Cardinality(UnitsOf(lots, taken)) = Cardinality(UnitsOf(sources, some))
  <2> HIDE DEF taken, lots, name, source, some, sources
  <2>1. Renamed(sources, some, lots, taken, name, source)
    BY <1>4, <1>5, <1>6, <1>7 DEF Renamed
  <2> QED BY <2>1, RenamedUnits
<1>9. UnitsOf(sources, some) = UnitsOf(Source, allocated)
  <2>1. \A s \in Source : s \notin sources => 1..allocated[s] = {}
    OBVIOUS
  <2>2. \A s \in sources : s \in Source /\ some[s] = allocated[s]
    OBVIOUS
  <2> HIDE DEF sources, some, Source
  <2>3. /\ UnitsOf(Source, allocated) = {u \in Source \X Int : u[2] \in 1..allocated[u[1]]}
        /\ UnitsOf(sources, some) = {u \in sources \X Int : u[2] \in 1..some[u[1]]}
    BY UnitOf
  <2> QED BY <2>1, <2>2, <2>3
<1>10. \A s \in Source : allocated[s] > 0 => taken[LotIn(i, s)] = allocated[s]
  <2>1. \A s \in sources : taken[LotIn(i, s)] = allocated[s]
    <3> HIDE DEF lots, taken, name
    <3>1. \A s \in sources : some[s] = allocated[s]
      OBVIOUS
    <3> HIDE DEF some, sources
    <3> QED BY <1>4, <1>7, <3>1
  <2> QED BY <2>1
<1> QED BY <1>7, <1>8, <1>9, <1>10

\* The lots that were taken from.
LEMMA TakenLots ==
  ASSUME NEW i, NEW allocated \in [Source -> Nat]
  PROVE  /\ \A k : <<"period", k>> \in DOMAIN TakenOf(i, allocated) <=>
                     k = i /\ 0 \in Source /\ allocated[0] > 0
         /\ \A u : u # 0 => (<<"block", u>> \in DOMAIN TakenOf(i, allocated) <=>
                               u \in Source /\ allocated[u] > 0)
<1>1. DOMAIN TakenOf(i, allocated) = {LotIn(i, s) : s \in {t \in Source : allocated[t] > 0}}
  BY TakenOfSources
<1>2. \A k, u : <<"period", k>> # <<"block", u>>
  <2>1. \A k, u : <<"period", k>>[1] = "period" /\ <<"block", u>>[1] = "block"
    OBVIOUS
  <2> QED BY <2>1
<1>3. \A k, u : (<<"period", k>> = <<"period", u>> => k = u)
             /\ (<<"block", k>> = <<"block", u>> => k = u)
  OBVIOUS
<1> QED BY <1>1, <1>2, <1>3 DEF LotIn

\* What a reservation says of an order, and a cancellation of a lot.
StateAs(reservation) ==
  [RESERVED |-> "HELD", CONSUMED |-> "SPENT", RELEASED |-> "RETURNED"][reservation]

StandingAs(cancelled) ==
  [NO |-> "OPEN", CUSTOMER |-> "PAID_BACK", VTAVISION |-> "TAKEN_BACK"][cancelled]

LEMMA States ==
  /\ StateAs("RESERVED") = "HELD" /\ StateAs("CONSUMED") = "SPENT"
  /\ StateAs("RELEASED") = "RETURNED"
  /\ StandingAs("NO") = "OPEN" /\ StandingAs("CUSTOMER") = "PAID_BACK"
  /\ StandingAs("VTAVISION") = "TAKEN_BACK"
BY DEF StateAs, StandingAs

OrderAs(project, period, allocated, reservation) ==
  [units |-> requiredUnitsFor(OrderOf[project].seconds),
   taken |-> TakenOf(period, allocated),
   state |-> StateAs(reservation)]

OrderIn(row) == OrderAs(row.project, row.period, row.allocated, row.reservation)

LEMMA OrdersAre ==
  /\ OrderRows = [j \in Started |-> OrderIn(job[j])]
  /\ OrderRows' = [j \in Started' |-> OrderIn(job'[j])]
BY TakenIs DEF OrderRows, OrderFacts, OrderIn, OrderAs, StateAs

PeriodLot(planKey) == [units |-> Plan[planKey].baseUnits, standing |-> "OPEN"]
BlockLot(row) == [units |-> row.units, standing |-> StandingAs(row.cancelled)]

LEMMA LotsAre ==
  /\ \A i : /\ LotFacts(<<"period", i>>) = PeriodLot(subscription.planKey)
            /\ LotFacts(<<"period", i>>)' = PeriodLot(subscription'.planKey)
  /\ \A u : /\ LotFacts(<<"block", u>>) = BlockLot(purchase[u])
            /\ LotFacts(<<"block", u>>)' = BlockLot(purchase'[u])
<1>1. ASSUME NEW i
      PROVE  /\ LotFacts(<<"period", i>>) = PeriodLot(subscription.planKey)
             /\ LotFacts(<<"period", i>>)' = PeriodLot(subscription'.planKey)
  <2>1. <<"period", i>>[1] = "period"
    OBVIOUS
  <2> QED BY <2>1 DEF LotFacts, PeriodLot
<1>2. ASSUME NEW u
      PROVE  /\ LotFacts(<<"block", u>>) = BlockLot(purchase[u])
             /\ LotFacts(<<"block", u>>)' = BlockLot(purchase'[u])
  <2>1. <<"block", u>>[1] # "period" /\ <<"block", u>>[2] = u
    OBVIOUS
  <2> QED BY <2>1 DEF LotFacts, BlockLot, StandingAs
<1> QED BY <1>1, <1>2

\* The lots are those of the periods and those of the blocks.
LEMMA LotNames ==
  ASSUME NEW l \in Lots
  PROVE  \/ \E i \in opened : l = <<"period", i>>
         \/ \E u \in Bought : l = <<"block", u>>
BY DEF Lots

LEMMA NamesDiffer ==
  /\ \A i, u : <<"period", i>> # <<"block", u>>
  /\ \A i, k : <<"period", i>> = <<"period", k>> => i = k
  /\ \A u, v : <<"block", u>> = <<"block", v>> => u = v
<1>1. \A i, u : <<"period", i>>[1] = "period" /\ <<"block", u>>[1] = "block"
  OBVIOUS
<1>2. \A i, u : <<"period", i>> # <<"block", u>>
  BY <1>1
<1>3. \A i, k : /\ <<"period", i>> = <<"period", k>> => i = k
               /\ <<"block", i>> = <<"block", k>> => i = k
  OBVIOUS
<1> QED BY <1>2, <1>3

\* The contract counts as the ledger does.
LEMMA SameCount ==
  ASSUME NEW S
  PROVE  Account!Cardinality(S) = Cardinality(S)
BY DEF Account!Cardinality, Cardinality

\* What a lot has out is what jobs have drawn of one source.
LEMMA OutOfSource ==
  ASSUME TypeOK, NEW l, NEW s \in Source, NEW jobs \in SUBSET Started,
         \A j \in Started : l \in DOMAIN TakenOf(job[j].period, job[j].allocated) <=>
                              j \in jobs /\ job[j].allocated[s] > 0,
         \A j \in jobs : job[j].allocated[s] > 0 =>
           TakenOf(job[j].period, job[j].allocated)[l] = job[j].allocated[s]
  PROVE  Account!Out(l) = Cardinality(UnitsIn(job, jobs, s))
<1> DEFINE outs == {m \in Started : OrderRows[m].state # "RETURNED" /\ l \in DOMAIN OrderRows[m].taken}
           got == [m \in outs |-> OrderRows[m].taken[l]]
<1>1. Account!Out(l) = Cardinality(UnitsOf(outs, got))
  <2>1. DOMAIN OrderRows = Started
    BY OrdersAre
  <2>2. Account!Out(l) = Cardinality(UNION {{n} \X (1..OrderRows[n].taken[l]) :
                 n \in {m \in DOMAIN OrderRows :
                          OrderRows[m].state # "RETURNED" /\ l \in DOMAIN OrderRows[m].taken}})
    BY SameCount DEF Account!Out, OrderRows
  <2>3. UNION {{n} \X (1..OrderRows[n].taken[l]) : n \in outs} = UnitsOf(outs, got)
    BY DEF UnitsOf
  <2> QED BY <2>1, <2>2, <2>3
<1>2. UnitsOf(outs, got) = {u \in outs \X Int : u[2] \in 1..got[u[1]]}
  <2> HIDE DEF outs, got
  <2> QED BY UnitOf
<1>3. IsFiniteSet(jobs) /\ \A j \in jobs : job[j].allocated[s] \in Nat
  BY Rows, AllocatedIsNatural, FS_Subset
<1>4. UnitsIn(job, jobs, s) = {u \in jobs \X Int : /\ occupiesEntitlement(job[u[1]].reservation)
                                                  /\ u[2] \in 1..job[u[1]].allocated[s]}
  BY <1>3, UnitsInRows
<1>5. \A j \in Started : /\ OrderRows[j].taken = TakenOf(job[j].period, job[j].allocated)
                         /\ OrderRows[j].state = StateAs(job[j].reservation)
  BY OrdersAre DEF OrderIn, OrderAs
<1>6. \A j \in Started : OrderRows[j].state # "RETURNED" <=> occupiesEntitlement(job[j].reservation)
  <2> TAKE j \in Started
  <2>1. job[j].reservation \in {"RESERVED", "CONSUMED", "RELEASED"}
    BY Rows DEF JobRows
  <2> QED BY <1>5, <2>1, States DEF occupiesEntitlement
<1>7. /\ \A j \in outs : j \in jobs /\ occupiesEntitlement(job[j].reservation)
                         /\ got[j] = job[j].allocated[s]
      /\ \A j \in jobs : occupiesEntitlement(job[j].reservation) /\ job[j].allocated[s] > 0 => j \in outs
  BY <1>5, <1>6
<1>8. UnitsOf(outs, got) = UnitsIn(job, jobs, s)
  <2> HIDE DEF outs, got
  <2>1. \A u \in outs \X Int : u[2] \in 1..got[u[1]] =>
          u \in jobs \X Int /\ occupiesEntitlement(job[u[1]].reservation)
            /\ u[2] \in 1..job[u[1]].allocated[s]
    BY <1>7
  <2>2. \A u \in jobs \X Int : occupiesEntitlement(job[u[1]].reservation)
            /\ u[2] \in 1..job[u[1]].allocated[s] => u \in outs \X Int /\ u[2] \in 1..got[u[1]]
    <3> SUFFICES ASSUME NEW j \in jobs, NEW n \in Int, occupiesEntitlement(job[j].reservation),
                        n \in 1..job[j].allocated[s]
                 PROVE  j \in outs /\ n \in 1..got[j]
      OBVIOUS
    <3>1. job[j].allocated[s] > 0
      BY <1>3
    <3> QED BY <1>7, <3>1
  <2> QED BY <1>2, <1>4, <2>1, <2>2
<1> QED BY <1>1, <1>8

LEMMA OutIsDrawn ==
  ASSUME TypeOK
  PROVE  /\ \A i : Account!Out(<<"period", i>>) = DrawnOfPlan(i)
         /\ \A u \in Source : u # 0 => Account!Out(<<"block", u>>) = DrawnOfBlock(u)
<1>1. \A j \in Started : job[j].allocated \in [Source -> Nat]
  BY Rows DEF JobRows
<1>2. 0 \in Source
  BY LedgerAssumption DEF LedgerAssumption
<1>3. ASSUME NEW i PROVE Account!Out(<<"period", i>>) = DrawnOfPlan(i)
  <2>1. JobsOfPeriod(i) \in SUBSET Started
    BY DEF JobsOfPeriod
  <2>2. \A j \in Started : <<"period", i>> \in DOMAIN TakenOf(job[j].period, job[j].allocated) <=>
                             j \in JobsOfPeriod(i) /\ job[j].allocated[0] > 0
    <3> TAKE j \in Started
    <3>1. <<"period", i>> \in DOMAIN TakenOf(job[j].period, job[j].allocated) <=>
            i = job[j].period /\ 0 \in Source /\ job[j].allocated[0] > 0
      BY <1>1, TakenLots
    <3> QED BY <1>2, <3>1 DEF JobsOfPeriod
  <2>3. \A j \in JobsOfPeriod(i) : job[j].allocated[0] > 0 =>
          TakenOf(job[j].period, job[j].allocated)[<<"period", i>>] = job[j].allocated[0]
    <3> TAKE j \in JobsOfPeriod(i)
    <3>1. job[j].period = i /\ j \in Started /\ job[j].allocated \in [Source -> Nat]
      BY <1>1 DEF JobsOfPeriod
    <3>2. LotIn(job[j].period, 0) = <<"period", i>>
      BY <3>1 DEF LotIn
    <3>3. job[j].allocated[0] > 0 =>
            TakenOf(job[j].period, job[j].allocated)[LotIn(job[j].period, 0)] = job[j].allocated[0]
      BY <1>2, <3>1, TakenOfSources
    <3> QED BY <3>2, <3>3
  <2>4. Account!Out(<<"period", i>>) = Cardinality(UnitsIn(job, JobsOfPeriod(i), 0))
    BY <1>2, <2>1, <2>2, <2>3, OutOfSource
  <2> QED BY <2>4, DrawnNow
<1>4. ASSUME NEW u \in Source, u # 0 PROVE Account!Out(<<"block", u>>) = DrawnOfBlock(u)
  <2>1. \A j \in Started : <<"block", u>> \in DOMAIN TakenOf(job[j].period, job[j].allocated) <=>
                             j \in Started /\ job[j].allocated[u] > 0
    BY <1>1, <1>4, TakenLots
  <2>2. \A j \in Started : job[j].allocated[u] > 0 =>
          TakenOf(job[j].period, job[j].allocated)[<<"block", u>>] = job[j].allocated[u]
    <3> TAKE j \in Started
    <3>1. LotIn(job[j].period, u) = <<"block", u>>
      BY <1>4 DEF LotIn
    <3>2. job[j].allocated[u] > 0 =>
            TakenOf(job[j].period, job[j].allocated)[LotIn(job[j].period, u)] = job[j].allocated[u]
      BY <1>1, TakenOfSources
    <3> QED BY <3>1, <3>2
  <2>3. Account!Out(<<"block", u>>) = Cardinality(UnitsIn(job, Started, u))
    BY <2>1, <2>2, OutOfSource
  <2> QED BY <2>3, DrawnNow
<1> QED BY <1>3, <1>4

\* A step that changes neither lots nor orders is none of the account's.
LEMMA NothingChanges ==
  ASSUME LotRows' = LotRows, OrderRows' = OrderRows
  PROVE  Accounts
BY DEF Accounts, Account!contractVars, LotRows, OrderRows

LEMMA OrdersStay ==
  ASSUME Started' = Started,
         \A j \in Started : /\ job'[j].project = job[j].project /\ job'[j].period = job[j].period
                            /\ job'[j].allocated = job[j].allocated
                            /\ job'[j].reservation = job[j].reservation
  PROVE  OrderRows' = OrderRows
BY OrdersAre DEF OrderIn, OrderAs

LEMMA LotsStay ==
  ASSUME opened' = opened, Bought' = Bought, opened # {} => subscription' = subscription,
         \A u \in Bought : purchase'[u].units = purchase[u].units
                           /\ purchase'[u].cancelled = purchase[u].cancelled
  PROVE  LotRows' = LotRows
<1>1. Lots' = Lots
  BY DEF Lots
<1>2. \A l \in Lots : LotFacts(l)' = LotFacts(l)
  <2> TAKE l \in Lots
  <2>1. CASE \E i \in opened : l = <<"period", i>>
    <3>1. PICK i \in opened : l = <<"period", i>>
      BY <2>1
    <3> QED BY <3>1, LotsAre
  <2>2. CASE \E u \in Bought : l = <<"block", u>>
    <3>1. PICK u \in Bought : l = <<"block", u>>
      BY <2>2
    <3> QED BY <3>1, LotsAre DEF BlockLot
  <2> QED BY <2>1, <2>2, LotNames
<1> QED BY <1>1, <1>2 DEF LotRows

LEMMA LotsAndOrders ==
  /\ DOMAIN LotRows = Lots /\ (\A l \in Lots : LotRows[l] = LotFacts(l))
  /\ DOMAIN LotRows' = Lots' /\ (\A l \in Lots' : LotRows'[l] = LotFacts(l)')
  /\ DOMAIN OrderRows = Started /\ DOMAIN OrderRows' = Started'
BY OrdersAre DEF LotRows

LEMMA GrantStep ==
  ASSUME NEW l, l \notin Lots, Lots' = Lots \cup {l}, LotRows'[l].standing = "OPEN",
         \A m \in Lots : LotRows'[m] = LotRows[m], OrderRows' = OrderRows
  PROVE  Accounts
<1>1. DOMAIN LotRows' = DOMAIN LotRows \cup {l} /\ l \in DOMAIN LotRows' \ DOMAIN LotRows
  BY LotsAndOrders
<1>2. \A m \in DOMAIN LotRows : LotRows'[m] = LotRows[m]
  BY LotsAndOrders
<1>3. /\ DOMAIN LotRows \subseteq DOMAIN LotRows'
      /\ \E m \in DOMAIN LotRows' \ DOMAIN LotRows :
           DOMAIN LotRows' = DOMAIN LotRows \cup {m} /\ LotRows'[m].standing = "OPEN"
  BY <1>1
<1>4. Account!Grant
  BY <1>2, <1>3 DEF Account!Grant, LotRows
<1>5. LotRows' # LotRows
  BY <1>1
<1> QED BY <1>4, <1>5 DEF Accounts, Account!ContractNext, LotRows, OrderRows

LEMMA WithdrawStep ==
  ASSUME NEW l \in Lots, NEW standing \in {"PAID_BACK", "TAKEN_BACK"},
         LotRows[l].standing = "OPEN", standing = "PAID_BACK" => Account!Out(l) = 0,
         LotRows' = [LotRows EXCEPT ![l].standing = standing], OrderRows' = OrderRows
  PROVE  Accounts
<1>1. LotRows' # LotRows
  <2>1. LotRows \in [Lots -> {LotFacts(m) : m \in Lots}]
    BY DEF LotRows
  <2>2. "standing" \in DOMAIN LotRows[l]
    BY LotsAndOrders DEF LotFacts
  <2>3. LotRows'[l].standing = standing
    BY <2>1, <2>2
  <2> QED BY <2>3
<1>2. Account!Withdraw(l, standing)
  BY DEF Account!Withdraw, LotRows
<1>3. \E m \in DOMAIN LotRows, s \in {"PAID_BACK", "TAKEN_BACK"} : Account!Withdraw(m, s)
  BY <1>2, LotsAndOrders
<1> QED BY <1>1, <1>3 DEF Accounts, Account!ContractNext, LotRows, OrderRows

LEMMA SettleStep ==
  ASSUME NEW n \in Started, NEW state \in {"SPENT", "RETURNED"}, OrderRows[n].state = "HELD",
         OrderRows' = [OrderRows EXCEPT ![n].state = state], LotRows' = LotRows
  PROVE  Accounts
<1>1. OrderRows' # OrderRows
  <2>1. OrderRows = [j \in Started |-> OrderIn(job[j])]
    BY OrdersAre
  <2>2. OrderRows'[n].state = state
    BY <2>1 DEF OrderIn, OrderAs
  <2> QED BY <2>2
<1>2. Account!Settle(n, state)
  BY DEF Account!Settle, OrderRows
<1>3. \E m \in DOMAIN OrderRows, s \in {"SPENT", "RETURNED"} : Account!Settle(m, s)
  BY <1>2, LotsAndOrders
<1> QED BY <1>1, <1>3 DEF Accounts, Account!ContractNext, LotRows, OrderRows

\* A new order stands last, and the others stay as they are.
LEMMA OrderIsAdded ==
  ASSUME TypeOK, TypeOK', NEW new, new = Len(job) + 1,
         Started' = Started \cup {new}, \A j \in Started : job'[j] = job[j]
  PROVE  /\ Len(OrderRows) + 1 = new /\ Len(OrderRows') = Len(OrderRows) + 1
         /\ OrderRows' = Append(OrderRows, OrderRows'[new])
         /\ OrderRows'[new] = OrderIn(job'[new])
         /\ OrderRows' # OrderRows
<1>1. /\ OrderRows = [j \in Started |-> OrderIn(job[j])]
      /\ OrderRows' = [j \in Started' |-> OrderIn(job'[j])]
  BY OrdersAre
<1>2. Started = 1..Len(job) /\ Len(job) \in Nat
  BY Rows
<1>3. Started' = 1..new /\ new \in Nat /\ new \in Started' /\ new \notin Started
  BY <1>2
<1> DEFINE R == {OrderIn(job[j]) : j \in Started} \cup {OrderIn(job'[new])}
<1>4. OrderRows \in Seq(R) /\ Len(OrderRows) = Len(job)
  <2>1. OrderRows \in [1..Len(job) -> R]
    BY <1>1, <1>2
  <2> HIDE DEF R
  <2> QED BY <1>2, <2>1
<1>5. OrderRows' \in Seq(R) /\ Len(OrderRows') = new
  <2>1. OrderRows' \in [1..new -> R]
    BY <1>1, <1>2, <1>3
  <2> HIDE DEF R
  <2> QED BY <1>3, <2>1
<1>6. OrderRows'[new] = OrderIn(job'[new]) /\ OrderRows'[new] \in R
  BY <1>1, <1>3
<1>7. \A j \in Started : OrderRows'[j] = OrderRows[j]
  BY <1>1, <1>3
<1> HIDE DEF R
<1>8. OrderRows' = Append(OrderRows, OrderRows'[new])
  <2> DEFINE added == Append(OrderRows, OrderRows'[new])
  <2>0. ASSUME NEW Q, NEW rows \in Seq(Q), NEW x \in Q
        PROVE  /\ Append(rows, x) \in Seq(Q)
               /\ DOMAIN Append(rows, x) = DOMAIN rows \cup {Len(rows) + 1}
               /\ \A n \in DOMAIN rows : Append(rows, x)[n] = rows[n]
               /\ Append(rows, x)[Len(rows) + 1] = x
    BY <2>0, RowsOfSeq
  <2>1. /\ DOMAIN OrderRows = Started
        /\ added \in Seq(R) /\ DOMAIN added = DOMAIN OrderRows \cup {new}
        /\ \A j \in DOMAIN OrderRows : added[j] = OrderRows[j]
        /\ added[new] = OrderRows'[new]
    <3>1. DOMAIN OrderRows = Started
      BY <1>1
    <3>2. Len(OrderRows) + 1 = new
      BY <1>4
    <3>3. /\ added \in Seq(R) /\ DOMAIN added = DOMAIN OrderRows \cup {Len(OrderRows) + 1}
          /\ \A j \in DOMAIN OrderRows : added[j] = OrderRows[j]
          /\ added[Len(OrderRows) + 1] = OrderRows'[new]
      BY ONLY <1>4, <1>6, <2>0
    <3> HIDE DEF added
    <3> QED BY <3>1, <3>2, <3>3
  <2>2. added = [j \in DOMAIN added |-> added[j]]
    BY <2>1
  <2>3. OrderRows' = [j \in Started' |-> OrderRows'[j]]
    BY <1>1
  <2> HIDE DEF added
  <2>4. \A j \in Started' : added[j] = OrderRows'[j]
    BY <1>7, <2>1
  <2>5. DOMAIN added = Started'
    BY <2>1
  <2> QED BY <2>2, <2>3, <2>4, <2>5 DEF added
<1>9. OrderRows' # OrderRows
  BY <1>4, <1>5, <1>2
<1> QED BY <1>4, <1>5, <1>6, <1>8, <1>9

\* What is allocated of a source has been left of its lot.
LEMMA OrderIsFunded ==
  ASSUME TypeOK, BaseInv, NEW r \in Starts, r.period \in opened, subscription # NoSubscription,
         SeenFits(r), SeenIsOpen(r)
  PROVE  Account!Funded(OrderIn(StartedJob(r)))
<1> DEFINE taken == TakenOf(r.period, r.seen)
           order == OrderIn(StartedJob(r))
<1>1. r.seen \in [Source -> Nat]
  BY DEF Starts
<1>2. /\ order.units = requiredUnitsFor(OrderOf[r.project].seconds)
      /\ order.taken = taken /\ order.state = "HELD"
  BY States DEF OrderIn, OrderAs, StartedJob
<1>3. /\ DOMAIN taken = {LotIn(r.period, s) : s \in {t \in Source : r.seen[t] > 0}}
      /\ \A s \in Source : r.seen[s] > 0 => taken[LotIn(r.period, s)] = r.seen[s]
      /\ Cardinality(UnitsOf(DOMAIN taken, taken)) = Cardinality(UnitsOf(Source, r.seen))
  BY <1>1, TakenOfSources
<1>4. DrawnIsNatural
  BY DrawnIsTyped
<1> HIDE DEF taken, order
<1>5. ASSUME NEW s \in Source, r.seen[s] > 0
      PROVE  LET l == LotIn(r.period, s) IN
             /\ l \in Lots /\ LotFacts(l).standing = "OPEN" /\ LotFacts(l).units \in Int
             /\ Account!Out(l) \in Int /\ r.seen[s] \in 1..(LotFacts(l).units - Account!Out(l))
  <2>1. r.seen[s] \in Nat
    BY <1>1
  <2>2. CASE s = 0
    <3>1. LotIn(r.period, s) = <<"period", r.period>>
      BY <2>2 DEF LotIn
    <3>2. Account!Out(<<"period", r.period>>) = DrawnOfPlan(r.period)
          /\ DrawnOfPlan(r.period) \in Nat
      <4>1. DrawnOfPlan(r.period) \in Nat
        BY <1>4 DEF DrawnIsNatural, Starts
      <4>2. Account!Out(<<"period", r.period>>) = DrawnOfPlan(r.period)
        BY OutIsDrawn
      <4> QED BY <4>1, <4>2
    <3>3. LotFacts(<<"period", r.period>>)
            = [units |-> Plan[subscription.planKey].baseUnits, standing |-> "OPEN"]
      BY LotsAre DEF PeriodLot
    <3>4. Plan[subscription.planKey].baseUnits \in Nat
      BY PlanOfContract DEF PlanFacts
    <3>5. DrawnOfPlan(r.period) + r.seen[s] <= Plan[subscription.planKey].baseUnits
      BY <2>2 DEF SeenFits
    <3>6. <<"period", r.period>> \in Lots
      BY DEF Lots
    <3>7. r.seen[s] \in 1..(Plan[subscription.planKey].baseUnits - DrawnOfPlan(r.period))
      BY <1>5, <2>1, <3>2, <3>4, <3>5
    <3>8. /\ LotFacts(<<"period", r.period>>).units = Plan[subscription.planKey].baseUnits
          /\ LotFacts(<<"period", r.period>>).standing = "OPEN"
      BY <3>3
    <3> QED BY <3>1, <3>2, <3>4, <3>6, <3>7, <3>8
  <2>3. CASE s # 0
    <3>1. LotIn(r.period, s) = <<"block", s>>
      BY <2>3 DEF LotIn
    <3>2. Account!Out(<<"block", s>>) = DrawnOfBlock(s) /\ DrawnOfBlock(s) \in Nat
      BY <1>4, <2>3, OutIsDrawn DEF DrawnIsNatural
    <3>3. s \in Bought /\ DrawnOfBlock(s) + r.seen[s] <= purchase[s].units
      BY <1>5, <2>3 DEF SeenFits
    <3>4. purchase[s].units \in Nat /\ ~Withdrawn(s)
      BY <1>5, <2>3, <3>3, BlocksAreSources DEF SeenIsOpen
    <3>5. LotFacts(<<"block", s>>).units = purchase[s].units
          /\ LotFacts(<<"block", s>>).standing = "OPEN"
      <4>1. LotFacts(<<"block", s>>)
              = [units |-> purchase[s].units, standing |-> StandingAs(purchase[s].cancelled)]
        BY LotsAre DEF BlockLot
      <4>2. StandingAs(purchase[s].cancelled) = "OPEN"
        BY <3>4, States DEF Withdrawn
      <4> QED BY <4>1, <4>2
    <3>6. <<"block", s>> \in Lots
      BY <3>3 DEF Lots
    <3>7. r.seen[s] \in 1..(purchase[s].units - DrawnOfBlock(s))
      BY <1>5, <2>1, <3>2, <3>3, <3>4
    <3> QED BY <3>1, <3>2, <3>4, <3>5, <3>6, <3>7
  <2> QED BY <2>2, <2>3
<1>6. \A l \in DOMAIN taken :
        /\ l \in Lots /\ LotFacts(l).standing = "OPEN"
        /\ taken[l] \in 1..(LotFacts(l).units - Account!Out(l))
  <2> TAKE l \in DOMAIN taken
  <2>1. PICK s \in Source : r.seen[s] > 0 /\ l = LotIn(r.period, s)
    BY <1>3
  <2> QED BY <1>3, <1>5, <2>1
<1>7. Account!Cardinality(UNION {{l} \X (1..taken[l]) : l \in DOMAIN taken}) = order.units
  <2>1. UNION {{l} \X (1..taken[l]) : l \in DOMAIN taken} = UnitsOf(DOMAIN taken, taken)
    BY DEF UnitsOf
  <2>2. Cardinality(UnitsOf(Source, r.seen)) = requiredUnitsFor(OrderOf[r.project].seconds)
    BY DEF SeenIsOpen
  <2> QED BY <1>2, <1>3, <2>1, <2>2, SameCount
<1>8. /\ order.state = "HELD" /\ DOMAIN order.taken \subseteq DOMAIN LotRows
      /\ \A l \in DOMAIN order.taken :
           /\ order.taken[l] \in 1..(LotRows[l].units - Account!Out(l))
           /\ LotRows[l].standing = "OPEN"
      /\ Account!Cardinality(UNION {{l} \X (1..order.taken[l]) : l \in DOMAIN order.taken})
           = order.units
  <2>1. \A l \in Lots : LotRows[l] = LotFacts(l) /\ DOMAIN LotRows = Lots
    BY LotsAndOrders
  <2>2. \A l \in DOMAIN taken : l \in DOMAIN LotRows /\ LotRows[l] = LotFacts(l)
    BY <1>6, <2>1
  <2> QED BY <1>2, <1>6, <1>7, <2>2
<1>9. Account!Funded(order)
  BY <1>8 DEF Account!Funded, Account!Left, LotRows
<1> QED BY <1>9 DEF order

LEMMA TakeStep ==
  ASSUME TypeOK, TypeOK', BaseInv, NEW r \in Starts, r.period \in opened,
         subscription # NoSubscription, SeenFits(r), SeenIsOpen(r),
         job' = Append(job, StartedJob(r)), UNCHANGED <<subscription, opened, purchase>>
  PROVE  Accounts
<1>1. /\ Started' = Started \cup {Len(job) + 1} /\ job'[Len(job) + 1] = StartedJob(r)
      /\ \A j \in Started : job'[j] = job[j]
  BY JobStarts
<1>2. PICK new : new = Len(job) + 1
  OBVIOUS
<1>3. /\ Len(OrderRows) + 1 = new /\ Len(OrderRows') = Len(OrderRows) + 1
      /\ OrderRows' = Append(OrderRows, OrderRows'[new])
      /\ OrderRows'[new] = OrderIn(job'[new])
      /\ OrderRows' # OrderRows
  BY <1>1, <1>2, OrderIsAdded
<1>4. Account!Funded(OrderRows'[new])
  BY <1>1, <1>2, <1>3, OrderIsFunded
<1>5. Account!Take
  BY <1>3, <1>4 DEF Account!Take, OrderRows
<1>6. LotRows' = LotRows
  <2>1. Bought' = Bought
    BY DEF Bought
  <2> QED BY <2>1, LotsStay
<1> QED BY <1>3, <1>5, <1>6 DEF Accounts, Account!ContractNext, LotRows, OrderRows

\* A step changes the ledger in one place.
LEMMA LedgerSteps ==
  ASSUME [Next]_vars, ledger' # ledger
  PROVE  \/ \E offer \in Offer : Provision(offer)
         \/ \E i : /\ opened' = opened \cup {i} /\ subscription # NoSubscription
                   /\ UNCHANGED <<subscription, purchase, job>>
         \/ \E c \in Client : WriteStart(c)
         \/ \E c \in Client : WriteApprove(c)
         \/ \E c \in Client : WriteCancel(c)
         \/ \E c \in Client : JobWriter(c)
         \/ \E j \in Started : Assembled(j) \/ Revise(j)
<1>1. CASE Tick
  BY <1>1 DEF Tick
<1>2. CASE \E offer \in Offer : Provision(offer)
  BY <1>2
<1>3. CASE \E j \in Started : Assembled(j) \/ Revise(j)
  BY <1>3
<1>4. ASSUME NEW c \in Client, Asking(c)
      PROVE  \E i : /\ opened' = opened \cup {i} /\ subscription # NoSubscription
                    /\ UNCHANGED <<subscription, purchase, job>>
  BY <1>4 DEF Asking, AskStart, AskApprove, AskCancel, AskLaunch, AskEndWaiting, AskEndLaunched,
              AskPublish, AskFail, AskDelete, AskRemove, Renewed, SubscriptionStarted
<1>5. ASSUME NEW c \in Client, TakeLock(c) \/ Decide(c) \/ Refuse(c) PROVE FALSE
  BY <1>5 DEF TakeLock, Decide, Refuse
<1>6. ASSUME NEW c \in Client, Writing(c)
      PROVE  WriteStart(c) \/ WriteApprove(c) \/ WriteCancel(c) \/ JobWriter(c)
  BY <1>6 DEF Writing, JobWriter, WriteDelete, WriteRemove
<1>7. CASE UNCHANGED vars
  BY <1>7 DEF vars
<1> QED BY <1>1, <1>2, <1>3, <1>4, <1>5, <1>6, <1>7 DEF Next

LEMMA PeriodIsGranted ==
  ASSUME NEW i, opened' = opened \cup {i}, UNCHANGED <<subscription, purchase, job>>
  PROVE  Accounts
<1>1. Started' = Started /\ Bought' = Bought
  BY DEF Started, Bought
<1>2. OrderRows' = OrderRows
  BY <1>1, OrdersStay
<1>3. CASE i \in opened
  <2>1. LotRows' = LotRows
    BY <1>1, <1>3, LotsStay
  <2> QED BY <1>2, <2>1, NothingChanges
<1>4. CASE i \notin opened
  <2> DEFINE l == <<"period", i>>
  <2>1. l \notin Lots
    BY <1>4, NamesDiffer DEF Lots
  <2>2. Lots' = Lots \cup {l}
    BY <1>1 DEF Lots
  <2>3. LotFacts(l)' = PeriodLot(subscription'.planKey)
    BY LotsAre
  <2>4. \A m \in Lots : LotFacts(m)' = LotFacts(m)
    BY DEF LotFacts
  <2> HIDE DEF l
  <2>5. LotRows'[l].standing = "OPEN"
    BY <2>2, <2>3, LotsAndOrders DEF PeriodLot
  <2>6. \A m \in Lots : LotRows'[m] = LotRows[m]
    BY <2>2, <2>4, LotsAndOrders
  <2> QED BY <1>2, <2>1, <2>2, <2>5, <2>6, GrantStep
<1> QED BY <1>3, <1>4

LEMMA BlockIsGranted ==
  ASSUME TypeOK, RequestsFit, NEW c \in Client, WriteApprove(c)
  PROVE  Accounts
<1>1. /\ Bought' = Bought \cup {Len(purchase) + 1} /\ Len(purchase) + 1 \notin Bought
      /\ purchase'[Len(purchase) + 1] = BoughtPackage(request[c])
      /\ \A u \in Bought : purchase'[u] = purchase[u]
      /\ UNCHANGED <<subscription, opened, job>>
  BY ApproveWrites
<1>2. PICK new : new = Len(purchase) + 1
  OBVIOUS
<1>3. Started' = Started
  BY <1>1 DEF Started
<1>4. OrderRows' = OrderRows
  BY <1>1, <1>3, OrdersStay
<1> DEFINE l == <<"block", new>>
<1>5. l \notin Lots
  BY <1>1, <1>2, NamesDiffer DEF Lots
<1>6. Lots' = Lots \cup {l}
  BY <1>1, <1>2 DEF Lots
<1>7. LotFacts(l)' = BlockLot(purchase'[new]) /\ purchase'[new] = BoughtPackage(request[c])
  BY <1>1, <1>2, LotsAre
<1>8. \A m \in Lots : LotFacts(m)' = LotFacts(m)
  <2> TAKE m \in Lots
  <2>1. CASE \E i \in opened : m = <<"period", i>>
    <3>1. PICK i \in opened : m = <<"period", i>>
      BY <2>1
    <3> QED BY <1>1, <3>1, LotsAre
  <2>2. CASE \E u \in Bought : m = <<"block", u>>
    <3>1. PICK u \in Bought : m = <<"block", u>>
      BY <2>2
    <3>2. purchase'[u] = purchase[u]
      BY <1>1
    <3> QED BY <3>1, <3>2, LotsAre
  <2> QED BY <2>1, <2>2, LotNames
<1> HIDE DEF l
<1>9. LotRows'[l].standing = "OPEN"
  <2>1. LotRows'[l] = LotFacts(l)'
    BY <1>6, LotsAndOrders
  <2>2. BoughtPackage(request[c]).cancelled = "NO"
    BY DEF BoughtPackage
  <2>3. BlockLot(purchase'[new]).standing = "OPEN"
    BY <1>7, <2>2, States DEF BlockLot
  <2> QED BY <1>7, <2>1, <2>3
<1>10. \A m \in Lots : LotRows'[m] = LotRows[m]
  BY <1>6, <1>8, LotsAndOrders
<1> QED BY <1>4, <1>5, <1>6, <1>9, <1>10, GrantStep

LEMMA BlockIsWithdrawn ==
  ASSUME BaseInv, CancelsFit, NEW c \in Client, WriteCancel(c)
  PROVE  Accounts
<1>1. TypeOK /\ RequestsFit
  BY DEF BaseInv
<1>2. PICK u \in Bought : u = request[c].purchase
  BY <1>1, CancelWrites
<1>3. PICK fault \in {"VTAVISION", "CUSTOMER"} : fault = request[c].fault
  BY <1>1, CancelWrites
<1>4. /\ request[c].kind = "CANCEL" /\ Decided(c) /\ Bought' = Bought
      /\ purchase'[u] = [purchase[u] EXCEPT !.cancelled = fault]
      /\ \A v \in Bought : v # u => purchase'[v] = purchase[v]
      /\ UNCHANGED <<subscription, opened, job>>
  BY <1>1, <1>2, <1>3, CancelWrites
<1>5. ~Withdrawn(u) /\ (fault = "CUSTOMER" => DrawnOfBlock(u) = 0)
  BY <1>2, <1>3, <1>4 DEF CancelsFit, CancelHolds
<1>6. Started' = Started
  BY <1>4 DEF Started
<1>7. OrderRows' = OrderRows
  BY <1>4, <1>6, OrdersStay
<1>8. PICK standing \in {"PAID_BACK", "TAKEN_BACK"} :
        standing = StandingAs(fault) /\ (standing = "PAID_BACK" => fault = "CUSTOMER")
  BY States
<1> DEFINE l == <<"block", u>>
<1>9. l \in Lots /\ Lots' = Lots
  BY <1>4 DEF Lots
<1>10. LotFacts(l).standing = "OPEN"
  <2>1. LotFacts(l) = BlockLot(purchase[u])
    BY LotsAre
  <2> QED BY <1>5, <2>1, States DEF BlockLot, Withdrawn
<1>11. LotFacts(l)' = [LotFacts(l) EXCEPT !.standing = standing]
  <2>1. LotFacts(l) = BlockLot(purchase[u]) /\ LotFacts(l)' = BlockLot(purchase'[u])
    BY LotsAre
  <2>2. purchase'[u].units = purchase[u].units /\ purchase'[u].cancelled = fault
    <3>1. purchase[u] \in PurchaseRows
      BY <1>1, Rows
    <3> QED BY <1>4, <3>1 DEF PurchaseRows
  <2> QED BY <1>8, <2>1, <2>2 DEF BlockLot
<1>12. \A m \in Lots : m # l => LotFacts(m)' = LotFacts(m)
  <2> TAKE m \in Lots
  <2>1. CASE \E i \in opened : m = <<"period", i>>
    <3>1. PICK i \in opened : m = <<"period", i>>
      BY <2>1
    <3> QED BY <1>4, <3>1, LotsAre
  <2>2. CASE \E v \in Bought : m = <<"block", v>>
    <3>1. PICK v \in Bought : m = <<"block", v>>
      BY <2>2
    <3>2. v # u => purchase'[v] = purchase[v]
      BY <1>4
    <3> QED BY <3>1, <3>2, LotsAre
  <2> QED BY <2>1, <2>2, LotNames
<1>13. standing = "PAID_BACK" => Account!Out(l) = 0
  <2>1. u \in Source /\ u # 0
    BY BlocksAreSources
  <2> QED BY <1>1, <1>5, <1>8, <2>1, OutIsDrawn
<1> HIDE DEF l
<1>14. LotRows' = [LotRows EXCEPT ![l].standing = standing]
  <2>1. LotRows = [m \in Lots |-> LotFacts(m)] /\ LotRows' = [m \in Lots' |-> LotFacts(m)']
    BY DEF LotRows
  <2> QED BY <1>9, <1>11, <1>12, <2>1
<1>15. LotRows[l].standing = "OPEN"
  BY <1>9, <1>10, LotsAndOrders
<1> QED BY <1>7, <1>9, <1>13, <1>14, <1>15, WithdrawStep

LEMMA OrderIsSettled ==
  ASSUME BaseInv, DecisionsHold, NEW c \in Client, JobWriter(c)
  PROVE  Accounts
<1>1. TypeOK /\ RequestsFit
  BY DEF BaseInv
<1>2. /\ Decided(c) /\ request[c].kind \in JobKinds /\ request[c].job \in Started
      /\ UNCHANGED <<subscription, opened, purchase>>
  BY <1>1, JobIsWritten
<1>3. PICK j \in Started : j = request[c].job
  BY <1>2
<1>4. /\ Started' = Started /\ \A i \in Started : i # j => job'[i] = job[i]
      /\ \A i \in Started : /\ job'[i].project = job[i].project
                            /\ job'[i].period = job[i].period
                            /\ job'[i].allocated = job[i].allocated
      /\ job'[j].reservation \in {"RESERVED", "CONSUMED", "RELEASED"}
  <2>1. <<request[c].kind, job'[j].state, job'[j].reservation>> \in Outcomes
    BY <1>1, <1>3, WrittenRows
  <2>2. job'[j].reservation \in {"RESERVED", "CONSUMED", "RELEASED"}
    BY <2>1 DEF Outcomes
  <2> QED BY <1>1, <1>3, <2>2, WrittenRows
<1>5. job[j].reservation = "RESERVED"
  <2>1. DecisionHolds(c)
    BY <1>2 DEF DecisionsHold
  <2> QED BY <1>2, <1>3, <2>1
          DEF DecisionHolds, JobKinds, PublicationDue, SettlementDue, IsFirstVideo
<1>6. LotRows' = LotRows
  <2>1. Bought' = Bought
    BY <1>2 DEF Bought
  <2> QED BY <1>2, <2>1, LotsStay
<1>7. CASE job'[j].reservation = "RESERVED"
  <2>1. OrderRows' = OrderRows
    BY <1>4, <1>5, <1>7, OrdersStay
  <2> QED BY <1>6, <2>1, NothingChanges
<1>8. CASE job'[j].reservation # "RESERVED"
  <2>1. PICK state \in {"SPENT", "RETURNED"} : state = StateAs(job'[j].reservation)
    BY <1>4, <1>8, States
  <2>2. /\ OrderRows = [i \in Started |-> OrderIn(job[i])]
        /\ OrderRows' = [i \in Started |-> OrderIn(job'[i])]
    BY <1>4, OrdersAre
  <2>3. OrderIn(job'[j]) = [OrderIn(job[j]) EXCEPT !.state = state]
    BY <1>4, <2>1 DEF OrderIn, OrderAs
  <2>4. OrderRows' = [OrderRows EXCEPT ![j].state = state]
    <3>1. \A i \in Started : i # j => OrderIn(job'[i]) = OrderIn(job[i])
      BY <1>4
    <3> QED BY <2>2, <2>3, <3>1
  <2>5. OrderRows[j].state = "HELD"
    BY <1>5, <2>2, States DEF OrderIn, OrderAs
  <2> QED BY <1>6, <2>4, <2>5, SettleStep
<1> QED BY <1>7, <1>8

\* Every step that changes the ledger is one of the account's, or none.
LEMMA StepKeepsAccount ==
  ASSUME AccountInv, AccountInv', [Next]_vars, ledger' # ledger
  PROVE  Accounts
<1>1. /\ BaseInv /\ BaseInv' /\ TypeOK /\ TypeOK' /\ RequestsFit /\ RowsFit /\ PeriodsFit
      /\ DecisionsHold /\ StartsFit /\ BoughtFit /\ OpenFit /\ CancelsFit
  BY DEF AccountInv, SpendInv, LockInv, BaseInv
<1>2. ASSUME NEW offer \in Offer, Provision(offer) PROVE Accounts
  <2>1. subscription = NoSubscription /\ UNCHANGED <<opened, purchase, job>>
    BY <1>2 DEF Provision
  <2>2. opened = {} /\ Bought' = Bought /\ Started' = Started
    BY <1>1, <2>1 DEF PeriodsFit, Bought, Started
  <2>3. LotRows' = LotRows
    BY <2>1, <2>2, LotsStay
  <2>4. OrderRows' = OrderRows
    BY <2>1, <2>2, OrdersStay
  <2> QED BY <2>3, <2>4, NothingChanges
<1>3. ASSUME NEW c \in Client, WriteStart(c) PROVE Accounts
  <2>1. PICK r \in Starts : r = request[c]
    BY <1>1, <1>3, StartWritten
  <2>2. /\ r.kind = "START" /\ Decided(c) /\ r.period \in opened /\ subscription # NoSubscription
        /\ UNCHANGED <<subscription, opened, purchase>> /\ job' = Append(job, StartedJob(r))
    BY <1>1, <1>3, <2>1, StartWritten
  <2>3. SeenFits(r) /\ SeenIsOpen(r)
    BY <1>1, <2>1, <2>2 DEF StartsFit, OpenFit
  <2> QED BY <1>1, <2>2, <2>3, TakeStep
<1>4. ASSUME NEW j \in Started, Assembled(j) \/ Revise(j) PROVE Accounts
  <2>1. /\ Started' = Started
        /\ \A i \in Started : /\ job'[i].project = job[i].project
                              /\ job'[i].period = job[i].period
                              /\ job'[i].allocated = job[i].allocated
                              /\ job'[i].reservation = job[i].reservation
        /\ UNCHANGED <<subscription, opened, purchase>>
    BY <1>1, <1>4, PipelineRows
  <2>2. OrderRows' = OrderRows
    BY <2>1, OrdersStay
  <2>3. LotRows' = LotRows
    <3>1. Bought' = Bought
      BY <2>1 DEF Bought
    <3> QED BY <2>1, <3>1, LotsStay
  <2> QED BY <2>2, <2>3, NothingChanges
<1> QED BY <1>1, <1>2, <1>3, <1>4, LedgerSteps, PeriodIsGranted, BlockIsGranted,
           BlockIsWithdrawn, OrderIsSettled

-----------------------------------------------------------------------------
(***************************************************************************)
(* Waiting.  Locks have ranks, and a transaction's next lock ranks above    *)
(* all it has.  A Property has two, for a launch takes it before the        *)
(* reservation and an ending after it.  Held shared it ranks below the      *)
(* reservations: only an exclusive lock waits for it, and nobody asks for   *)
(* that one with a reservation in hand.  Waited for shared it ranks above:  *)
(* only an exclusive lock is in its way.                                    *)
(***************************************************************************)

\* Where a lock stands when it is waited for.
Rank(l) ==
  CASE l[1] \in {"project-start", "job-launch"} -> 0
    [] l[1] \in {"cost", "places"} -> 1
    [] l[1] \in {"turn", "membership"} -> 2
    [] l[1] = "property" /\ l[3] = "X" -> 3 + 4 * RankOf(l[2])
    [] l[1] = "property" /\ l[3] # "X" -> 5 + 4 * RankOf(l[2])
    [] l[1] = "reservation" -> 4 + 4 * RankOf(PropertyOfJob(l[2]))
    [] OTHER -> 6 + 4 * RankOf(PropertyOfJob(l[2]))

\* Where a lock stands that another transaction has.
RankHeld(l) ==
  CASE l[1] = "property" /\ l[3] = "X" -> 5 + 4 * RankOf(l[2])
    [] l[1] = "property" /\ l[3] # "X" -> 3 + 4 * RankOf(l[2])
    [] OTHER -> Rank(l)

Top == 6 + 4 * Cardinality(Property)

\* The ranks of the locks there are.
LEMMA Ranks ==
  ASSUME NEW which
  PROVE  /\ \A what \in {"project-start", "job-launch"} :
              Rank(Exclusive(what, which)) = 0 /\ RankHeld(Exclusive(what, which)) = 0
         /\ Rank(Exclusive("cost", which)) = 1 /\ RankHeld(Exclusive("cost", which)) = 1
         /\ Rank(Reading("places")) = 1 /\ RankHeld(Reading("places")) = 1
         /\ Rank(Reading("turn")) = 2 /\ RankHeld(Reading("turn")) = 2
         /\ Rank(Shared("membership", which)) = 2 /\ RankHeld(Shared("membership", which)) = 2
         /\ Rank(Exclusive("membership", which)) = 2 /\ RankHeld(Exclusive("membership", which)) = 2
         /\ Rank(Exclusive("property", which)) = 3 + 4 * RankOf(which)
         /\ RankHeld(Exclusive("property", which)) = 5 + 4 * RankOf(which)
         /\ Rank(Shared("property", which)) = 5 + 4 * RankOf(which)
         /\ RankHeld(Shared("property", which)) = 3 + 4 * RankOf(which)
         /\ \A l \in {Exclusive("reservation", which), Shared("reservation", which)} :
              /\ Rank(l) = 4 + 4 * RankOf(PropertyOfJob(which))
              /\ RankHeld(l) = 4 + 4 * RankOf(PropertyOfJob(which))
         /\ Rank(Exclusive("job", which)) = 6 + 4 * RankOf(PropertyOfJob(which))
         /\ RankHeld(Exclusive("job", which)) = 6 + 4 * RankOf(PropertyOfJob(which))
BY DEF Rank, RankHeld, Exclusive, Shared, Reading

\* The rank of a Property is at most their number.
LEMMA RankIsBounded ==
  ASSUME NEW p \in Property
  PROVE  RankOf(p) \in Nat /\ RankOf(p) <= Cardinality(Property) /\ Cardinality(Property) \in Nat
<1>1. {q \in Property : q < p} \in SUBSET Property /\ IsFiniteSet(Property)
  BY LedgerAssumption DEF LedgerAssumption
<1>2. Cardinality({q \in Property : q < p}) <= Cardinality(Property)
  BY <1>1, FS_Subset
<1> QED BY <1>2, PropertiesInOrder DEF RankOf

\* What a transaction asks for next ranks above what it has.
RanksRise(L) ==
  \A n, k \in 1..Len(L) :
    /\ Rank(L[n]) \in Nat /\ Rank(L[n]) <= Top /\ RankHeld(L[n]) \in Nat
    /\ n < k => RankHeld(L[n]) < Rank(L[k])

LEMMA LocksRise ==
  ASSUME TypeOK, RequestsFit, NEW c \in Client, Active(c)
  PROVE  RanksRise(LocksOf(request[c]))
<1> DEFINE r == request[c]
<1>1. r \in Requests /\ r.kind # "IDLE"
  BY Rows DEF Active
<1>2. r.kind \in {"START", "APPROVE", "CANCEL", "DELETE", "REMOVE"} \cup JobKinds
  BY <1>1, RequestOfKind
<1>3. r.kind \in JobKinds => PropertyOfJob(r.job) \in Property
  <2>1. r.kind \in JobKinds => r.job \in Started
    BY DEF RequestsFit, RequestFits
  <2>2. \A j \in Started : job[j].project \in Project
    BY Rows DEF JobRows
  <2> QED BY <2>1, <2>2, OrderOfProject DEF PropertyOfJob
<1>4. Top \in Nat /\ Top >= 6
  BY PropertiesInOrder DEF Top
<1> HIDE DEF r
<1>5. ASSUME NEW a \in Nat, a <= Cardinality(Property)
      PROVE  6 + 4 * a <= Top
  BY <1>5, PropertiesInOrder DEF Top
<1>6. CASE r.kind = "START"
  <2>1. LocksOf(r) = StartLocks(r) /\ Len(StartLocks(r)) = 3
    BY <1>1, <1>6, LocksByKind
  <2>2. r.project \in Project
    BY <1>1, <1>6, RequestOfKind DEF Starts
  <2>3. PICK a \in Nat : a = RankOf(PropertyOf[r.project]) /\ a <= Cardinality(Property)
    BY <2>2, OrderOfProject, RankIsBounded
  <2> DEFINE L == StartLocks(r)
  <2>4. /\ Rank(L[1]) = 0 /\ RankHeld(L[1]) = 0
        /\ Rank(L[2]) = 1 /\ RankHeld(L[2]) = 1
        /\ Rank(L[3]) = 5 + 4 * a /\ RankHeld(L[3]) = 3 + 4 * a
    BY <2>3, Ranks DEF StartLocks
  <2>5. 6 + 4 * a <= Top
    BY <1>5, <2>3
  <2> HIDE DEF L
  <2>6. Len(L) = 3
    BY <2>1 DEF L
  <2>7. RanksRise(L)
    BY <1>4, <2>4, <2>5, <2>6 DEF RanksRise
  <2> QED BY <2>1, <2>7 DEF L, r
<1>7. CASE r.kind = "APPROVE"
  <2>1. LocksOf(r) = ApproveLocks(r) /\ Len(ApproveLocks(r)) = 2
    BY <1>1, <1>7, LocksByKind
  <2> DEFINE L == ApproveLocks(r)
  <2>2. Rank(L[1]) = 1 /\ RankHeld(L[1]) = 1 /\ Rank(L[2]) = 2 /\ RankHeld(L[2]) = 2
    BY Ranks DEF ApproveLocks
  <2> HIDE DEF L
  <2>3. Len(L) = 2
    BY <2>1 DEF L
  <2>4. RanksRise(L)
    BY <1>4, <2>2, <2>3 DEF RanksRise
  <2> QED BY <2>1, <2>4 DEF L, r
<1>8. CASE r.kind = "CANCEL"
  <2>1. LocksOf(r) = CancelLocks(r) /\ Len(CancelLocks(r)) = 1
    BY <1>1, <1>8, LocksByKind
  <2> DEFINE L == CancelLocks(r)
  <2>2. Rank(L[1]) = 1 /\ RankHeld(L[1]) = 1
    BY Ranks DEF CancelLocks
  <2> HIDE DEF L
  <2>3. Len(L) = 1
    BY <2>1 DEF L
  <2>4. RanksRise(L)
    BY <1>4, <2>2, <2>3 DEF RanksRise
  <2> QED BY <2>1, <2>4 DEF L, r
<1>9. CASE r.kind \in JobKinds
  <2>1. PICK a \in Nat : a = RankOf(PropertyOfJob(r.job)) /\ a <= Cardinality(Property)
    BY <1>3, <1>9, RankIsBounded
  <2>2. 6 + 4 * a <= Top
    BY <1>5, <2>1
  <2>3. CASE r.kind = "LAUNCH"
    <3>1. LocksOf(r) = LaunchLocks(r) /\ Len(LaunchLocks(r)) = 6
      BY <1>1, <2>3, LocksByKind
    <3> DEFINE L == LaunchLocks(r)
    <3>2. /\ Rank(L[1]) = 0 /\ RankHeld(L[1]) = 0
          /\ Rank(L[2]) = 1 /\ RankHeld(L[2]) = 1
          /\ Rank(L[3]) = 2 /\ RankHeld(L[3]) = 2
          /\ Rank(L[4]) = 5 + 4 * a /\ RankHeld(L[4]) = 3 + 4 * a
          /\ Rank(L[5]) = 4 + 4 * a /\ RankHeld(L[5]) = 4 + 4 * a
          /\ Rank(L[6]) = 6 + 4 * a /\ RankHeld(L[6]) = 6 + 4 * a
      BY <2>1, Ranks DEF LaunchLocks
    <3> HIDE DEF L
    <3>3. Len(L) = 6
      BY <3>1 DEF L
    <3>4. RanksRise(L)
      BY <1>4, <2>2, <3>2, <3>3 DEF RanksRise
    <3> QED BY <3>1, <3>4 DEF L, r
  <2>4. CASE r.kind \in {"PUBLISH", "END_WAITING", "END_LAUNCHED"}
    <3>1. LocksOf(r) = EndLocks(r) /\ Len(EndLocks(r)) = 4
      BY <1>1, <2>4, LocksByKind
    <3> DEFINE L == EndLocks(r)
    <3>2. /\ Rank(L[1]) = 1 /\ RankHeld(L[1]) = 1
          /\ Rank(L[2]) = 4 + 4 * a /\ RankHeld(L[2]) = 4 + 4 * a
          /\ Rank(L[3]) = 5 + 4 * a /\ RankHeld(L[3]) = 3 + 4 * a
          /\ Rank(L[4]) = 6 + 4 * a /\ RankHeld(L[4]) = 6 + 4 * a
      BY <2>1, Ranks DEF EndLocks
    <3> HIDE DEF L
    <3>3. Len(L) = 4
      BY <3>1 DEF L
    <3>4. RanksRise(L)
      BY <1>4, <2>2, <3>2, <3>3 DEF RanksRise
    <3> QED BY <3>1, <3>4 DEF L, r
  <2>5. CASE r.kind = "FAIL"
    <3>1. LocksOf(r) = FailLocks(r) /\ Len(FailLocks(r)) = 3
      BY <1>1, <2>5, LocksByKind
    <3> DEFINE L == FailLocks(r)
    <3>2. /\ Rank(L[1]) = 1 /\ RankHeld(L[1]) = 1
          /\ Rank(L[2]) = 4 + 4 * a /\ RankHeld(L[2]) = 4 + 4 * a
          /\ Rank(L[3]) = 6 + 4 * a /\ RankHeld(L[3]) = 6 + 4 * a
      BY <2>1, Ranks DEF FailLocks
    <3> HIDE DEF L
    <3>3. Len(L) = 3
      BY <3>1 DEF L
    <3>4. RanksRise(L)
      BY <1>4, <2>2, <3>2, <3>3 DEF RanksRise
    <3> QED BY <3>1, <3>4 DEF L, r
  <2> QED BY <1>9, <2>3, <2>4, <2>5 DEF JobKinds
<1>10. CASE r.kind = "DELETE"
  <2>1. LocksOf(r) = DeleteLocks(r) /\ Len(DeleteLocks(r)) = 1 /\ r.property \in Property
    BY <1>1, <1>10, LocksByKind, RequestOfKind DEF Deletions
  <2>2. PICK a \in Nat : a = RankOf(r.property) /\ a <= Cardinality(Property)
    BY <2>1, RankIsBounded
  <2> DEFINE L == DeleteLocks(r)
  <2>3. Rank(L[1]) = 3 + 4 * a /\ RankHeld(L[1]) = 5 + 4 * a
    BY <2>2, Ranks DEF DeleteLocks
  <2>4. 6 + 4 * a <= Top
    BY <1>5, <2>2
  <2> HIDE DEF L
  <2>5. Len(L) = 1
    BY <2>1 DEF L
  <2>6. RanksRise(L)
    BY <1>4, <2>3, <2>4, <2>5 DEF RanksRise
  <2> QED BY <2>1, <2>6 DEF L, r
<1>11. CASE r.kind = "REMOVE"
  <2> DEFINE size == Cardinality(Property)
             L == LocksOf(r)
  <2>1. /\ Len(L) = size + 1 /\ L[1] = Exclusive("membership", "approver")
        /\ \A n \in 1..size : L[n + 1] = Exclusive("property", Nth(n))
    BY <1>1, <1>11, LocksByKind
  <2>2. size \in Nat /\ \A n \in 1..size : RankOf(Nth(n)) = n - 1
    BY PropertiesInOrder
  <2>3. Top = 6 + 4 * size
    BY DEF Top
  <2> HIDE DEF L, size
  <2>4. Rank(L[1]) = 2 /\ RankHeld(L[1]) = 2
    BY <2>1, Ranks
  <2>5. ASSUME NEW n \in 1..size
        PROVE  Rank(L[n + 1]) = 3 + 4 * (n - 1) /\ RankHeld(L[n + 1]) = 5 + 4 * (n - 1)
    BY <2>1, <2>2, Ranks
  <2>6. ASSUME NEW n \in 1..Len(L), n # 1
        PROVE  n - 1 \in 1..size /\ Rank(L[n]) = 3 + 4 * (n - 2) /\ RankHeld(L[n]) = 5 + 4 * (n - 2)
    <3>1. n - 1 \in 1..size /\ (n - 1) + 1 = n /\ (n - 1) - 1 = n - 2
      BY <2>1, <2>2, <2>6
    <3>2. /\ Rank(L[(n - 1) + 1]) = 3 + 4 * ((n - 1) - 1)
          /\ RankHeld(L[(n - 1) + 1]) = 5 + 4 * ((n - 1) - 1)
      BY <2>5, <3>1
    <3> QED BY <3>1, <3>2
  <2>7. RanksRise(L)
    <3> SUFFICES ASSUME NEW n \in 1..Len(L), NEW k \in 1..Len(L)
                 PROVE  /\ Rank(L[n]) \in Nat /\ Rank(L[n]) <= Top /\ RankHeld(L[n]) \in Nat
                        /\ n < k => RankHeld(L[n]) < Rank(L[k])
      BY DEF RanksRise
    <3>1. n \in Nat /\ k \in Nat /\ 1 <= n /\ 1 <= k /\ n <= size + 1
      BY <2>1, <2>2
    <3>2. n < k => k # 1
      BY <3>1
    <3>3. CASE n = 1
      BY <2>2, <2>3, <2>4, <2>6, <3>1, <3>2, <3>3
    <3>4. CASE n # 1
      BY <2>2, <2>3, <2>6, <3>1, <3>2, <3>4
    <3> QED BY <3>3, <3>4
  <2> QED BY <2>7 DEF L, r
<1> QED BY <1>2, <1>6, <1>7, <1>8, <1>9, <1>10, <1>11

\* A lock is waited for at no higher rank than the one it is held at.
LEMMA WaitsBelow ==
  ASSUME TypeOK, RequestsFit, NEW c \in Client, NEW d \in Client, WaitsFor(c, d), Active(d),
         held[d] < Len(LocksOf(request[d]))
  PROVE  /\ Rank(NextLock(c)) \in Nat /\ Rank(NextLock(d)) \in Nat
         /\ Rank(NextLock(c)) < Rank(NextLock(d)) /\ Rank(NextLock(d)) <= Top
<1> DEFINE L == LocksOf(request[c])
           M == LocksOf(request[d])
<1>1. Active(c) /\ held[c] < Len(L) /\ held[c] \in Nat /\ held[d] \in Nat
  BY Rows DEF WaitsFor
<1>2. RanksRise(L) /\ RanksRise(M)
  BY <1>1, LocksRise
<1>3. Len(L) \in Nat /\ Len(M) \in Nat
  BY <1>1, ActiveAsks DEF AllAsk
<1>4. PICK m \in 1..held[d] : Conflict(NextLock(c), M[m])
  BY DEF WaitsFor, HeldBy
<1>5. NextLock(c) = L[held[c] + 1] /\ NextLock(d) = M[held[d] + 1] /\ held[d] < Len(M)
  BY DEF NextLock
<1> HIDE DEF L, M
<1>6. held[c] + 1 \in 1..Len(L) /\ held[d] + 1 \in 1..Len(M) /\ m \in 1..Len(M) /\ m < held[d] + 1
  BY <1>1, <1>3, <1>5
<1>7. /\ Rank(NextLock(c)) \in Nat /\ Rank(NextLock(d)) \in Nat /\ Rank(NextLock(d)) <= Top
      /\ RankHeld(M[m]) \in Nat /\ RankHeld(M[m]) < Rank(NextLock(d))
  BY <1>2, <1>5, <1>6 DEF RanksRise
<1>8. Rank(NextLock(c)) <= RankHeld(M[m])
  <2> DEFINE l == NextLock(c)
             h == M[m]
  <2> HIDE DEF l, h
  <2>1. l[1] = h[1] /\ l[2] = h[2] /\ (l[3] = "X" \/ h[3] = "X")
    BY <1>4 DEF Conflict, l, h
  <2>2. CASE l[1] # "property"
    <3>1. Rank(l) = RankHeld(h)
      BY <2>1, <2>2 DEF Rank, RankHeld
    <3> QED BY <1>7, <3>1 DEF l, h
  <2>3. CASE l[1] = "property"
    <3>1. PICK a \in Nat : a = RankOf(l[2])
      <4>1. {q \in Property : q < l[2]} \in SUBSET Property /\ IsFiniteSet(Property)
        BY LedgerAssumption DEF LedgerAssumption
      <4> QED BY <4>1, FS_Subset, FS_CardinalityType DEF RankOf
    <3>2. /\ l[3] = "X" => Rank(l) = 3 + 4 * a
          /\ l[3] # "X" => Rank(l) = 5 + 4 * a
          /\ h[3] = "X" => RankHeld(h) = 5 + 4 * a
          /\ h[3] # "X" => RankHeld(h) = 3 + 4 * a
      BY <2>1, <2>3, <3>1 DEF Rank, RankHeld
    <3>3. Rank(l) <= RankHeld(h)
      BY <2>1, <3>2
    <3> QED BY <3>3 DEF l, h
  <2> QED BY <2>2, <2>3
<1> QED BY <1>7, <1>8

\* Of transactions that all wait, the one that waits for the lock of highest rank would wait for
\* one that waits higher still.
LEMMA SomeoneWaitsForNone ==
  ASSUME TypeOK, RequestsFit, NEW S \in SUBSET Client, S # {},
         \A c \in S : \E d \in S : WaitsFor(c, d)
  PROVE  FALSE
<1> DEFINE height == [c \in S |-> Top - Rank(NextLock(c))]
           heights == {height[c] : c \in S}
<1>1. \A c \in S : Active(c) /\ held[c] < Len(LocksOf(request[c]))
  BY DEF WaitsFor
<1>2. ASSUME NEW c \in S, NEW d \in S, WaitsFor(c, d)
      PROVE  /\ Rank(NextLock(c)) \in Nat /\ Rank(NextLock(d)) \in Nat
             /\ Rank(NextLock(c)) < Rank(NextLock(d)) /\ Rank(NextLock(d)) <= Top
  BY <1>1, <1>2, WaitsBelow
<1>3. Top \in Nat
  BY PropertiesInOrder DEF Top
<1>4. ASSUME NEW c \in S
      PROVE  Top - Rank(NextLock(c)) \in Nat
  <2>1. PICK d \in S : WaitsFor(c, d)
    OBVIOUS
  <2> QED BY <1>2, <1>3, <2>1
<1>5. heights \in SUBSET Nat /\ heights # {}
  BY <1>4
<1>6. PICK h \in heights : \A k \in heights : h <= k
  <2> HIDE DEF heights
  <2> QED BY <1>5, NaturalsHaveALeast
<1>7. PICK c \in S : height[c] = h
  BY <1>6
<1>8. PICK d \in S : WaitsFor(c, d)
  OBVIOUS
<1>9. Top - Rank(NextLock(c)) <= Top - Rank(NextLock(d))
  BY <1>6, <1>7
<1> HIDE DEF height, heights
<1> QED BY <1>2, <1>3, <1>8, <1>9

\* Every row, request and lock count stays of its type.
THEOREM LedgerTypes == Spec => []TypeOK
<1>1. LockInv => TypeOK
  BY DEF LockInv, BaseInv
<1> QED BY <1>1, LockInvariant, PTL

\* However starts with different keys race, a project has at most one job that has not
\* given its Unit back, and no two jobs of one key (findHoldingJob, findStartedJob under the
\* project-start lock).
THEOREM OneHolding == Spec => []OneHoldingJobPerProject
<1>1. LockInv => OneHoldingJobPerProject
  BY DEF LockInv
<1> QED BY <1>1, LockInvariant, PTL

\* Launches side by side never set more first videos going than the plan has places: the
\* count under the job-launch lock is still true when a launch writes.
THEOREM PlacesAreKept == Spec => []PlacesWithinLimit
<1>1. LockInv => PlacesWithinLimit
  BY DEF LockInv
<1> QED BY <1>1, LockInvariant, PTL

\* A start or purchase finds the one opened period of the instant it read, for any calendar
\* and any anchor: the periods of a contract never overlap, and the one a request opened
\* stays opened.
THEOREM PeriodFound == Spec => []RenewalFindsItsPeriod
<1>1. LockInv => RenewalFindsItsPeriod
  <2> SUFFICES ASSUME BaseInv, NEW c \in Client, request[c].kind \in {"START", "APPROVE"}
               PROVE  PeriodsContaining(request[c].at) = {request[c].period}
    BY DEF LockInv, RenewalFindsItsPeriod
  <2>1. /\ TypeOK /\ PeriodsFit
        /\ subscription # NoSubscription /\ request[c].period \in opened
        /\ Covers(Bounds(request[c].period), request[c].at)
    BY DEF BaseInv, RequestsFit, RequestFits
  <2>2. Known(subscription.anchorAt)
    BY <2>1, ClockIsKnown DEF PeriodsFit
  <2>3. request[c].at \in Int
    BY <2>1, Rows, RequestOfKind DEF Starts, Approvals
  <2>4. ASSUME NEW i \in opened, Covers(Bounds(i), request[c].at)
        PROVE  i = request[c].period
    <3> DEFINE anchor == subscription.anchorAt
               period == request[c].period
               at == request[c].at
    <3>1. /\ Known(anchor) /\ at \in Int /\ Dated(anchor, i) /\ Dated(anchor, period)
          /\ Covers(renewalPeriodBounds(anchor, i), at)
          /\ Covers(renewalPeriodBounds(anchor, period), at)
      BY <2>1, <2>2, <2>3, <2>4 DEF PeriodsFit, Bounds
    <3> HIDE DEF anchor, period, at
    <3>2. i = period
      BY <3>1, PeriodIsAlone
    <3> QED BY <3>2 DEF period
  <2> QED BY <2>1, <2>4 DEF PeriodsContaining
<1> QED BY <1>1, LockInvariant, PTL

\* No Unit is given to two jobs, and high-quality videos keep within the part of the plan they
\* may use: the balance a start read under the lock on its period still holds when it writes,
\* whatever other periods' starts, purchases, cancellations and endings write meanwhile.
THEOREM UnitsSpentOnce == Spec => []NoUnitSpentTwice
<1>1. SpendInv => NoUnitSpentTwice
  BY DEF SpendInv
<1> QED BY <1>1, SpendInvariant, PTL

\* Transactions never wait for each other in a circle, however many there are: every kind takes
\* its locks in an order of ranks, where a launch that takes the Property before the
\* reservation and an ending that takes it after agree.
THEOREM NoCircle == Spec => []NoCircularWait
<1>1. LockInv => NoCircularWait
  <2> SUFFICES ASSUME TypeOK, RequestsFit, NEW S \in (SUBSET Client) \ {{}}
               PROVE  \E c \in S : \A d \in S : ~WaitsFor(c, d)
    BY DEF LockInv, BaseInv, NoCircularWait
  <2> QED BY SomeoneWaitsForNone
<1> QED BY <1>1, LockInvariant, PTL

\* However starts, purchases, cancellations, publications and endings are interleaved, and
\* however many of them there are, the ledger keeps the account contract: an order is funded
\* in full from open lots out of what they have left, is settled once, and a package paid back
\* for the customer's own mistake has no Unit out.
THEOREM AccountKept == Spec => AccountContract
<1>1. Init => Account!ContractInit
  <2> SUFFICES ASSUME Init PROVE Account!ContractInit
    OBVIOUS
  <2>1. opened = {} /\ purchase = << >> /\ job = << >>
    BY DEF Init
  <2>2. Lots = {} /\ Started = {}
    BY <2>1 DEF Lots, Bought, Started
  <2>3. [l \in Lots |-> LotFacts(l)] = [l \in {} |-> 0]
    BY <2>2
  <2>4. [j \in Started |-> OrderFacts(j)] = << >>
    BY <2>2
  <2> QED BY <2>3, <2>4 DEF Account!ContractInit
<1>2. AccountInv /\ AccountInv' /\ [Next]_vars
        => [ledger' # ledger => [Account!ContractNext]_(Account!contractVars)]_vars
  BY StepKeepsAccount DEF Accounts
<1>3. Spec => []AccountInv
  BY InitAccount, AccountInvKept, PTL DEF Spec
<1> QED BY <1>1, <1>2, <1>3, PTL DEF Spec, AccountContract

=============================================================================
