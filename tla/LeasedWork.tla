------------------------------ MODULE LeasedWork ------------------------------
(***************************************************************************)
(* A work row that workers take in turns under a lease.  Four tables of    *)
(* this system have one shape: managed_output_media_validations,           *)
(* managed_output_media_failure_resolutions,                               *)
(* generation_deliverable_compositions and                                 *)
(* generation_deliverable_validations.                                     *)
(*                                                                         *)
(* A claim raises the row's version and writes a new leaseToken, and every *)
(* later write of that pass asks for both.  A worker makes one pass at a   *)
(* time, so naming the worker whose claim is the current one says the      *)
(* same.  There is no heartbeat: a lease only ever expires.  A row put     *)
(* back is due again after a delay nothing here depends on.                *)
(***************************************************************************)
Nobody == "nobody"

NoRow == [status |-> "NONE", holder |-> Nobody, expired |-> FALSE]

Claimable(row) ==
  \/ row.status \in {"NONE", "PENDING"}
  \/ row.status = "RUNNING" /\ row.expired

ClaimedBy(w) == [status |-> "RUNNING", holder |-> w, expired |-> FALSE]

\* Mutated form of HeldBy: any RUNNING row will do.
AnyRunning(row, w) == row.status = "RUNNING"

\* What every write of a claim asks of the row: RUNNING, the claim's version, the
\* claim's token.
HeldBy(row, w) == row.status = "RUNNING" /\ row.holder = w

Released    == [status |-> "PENDING", holder |-> Nobody, expired |-> FALSE]
Settled(as) == [status |-> as, holder |-> Nobody, expired |-> FALSE]

\* A write of a claim that has been lost changes nothing.
Written(row, w, to) == IF HeldBy(row, w) THEN to ELSE row

Running(row)    == row.status = "RUNNING" /\ ~ row.expired
TimedOut(row)   == [row EXCEPT !.expired = TRUE]
===============================================================================
