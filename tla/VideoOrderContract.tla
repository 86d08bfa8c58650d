-------------------------- MODULE VideoOrderContract --------------------------
(***************************************************************************)
(* What an order promises the customer, with nothing of how it is kept:    *)
(* ADR-0052 as the transactions of packages/database/src apply it.         *)
(*                                                                         *)
(*   - one Video Unit set is held while a first video is being made;       *)
(*   - it is spent by the step that shows the first video, and only then;  *)
(*   - it comes back once, and then nothing is ever shown;                 *)
(*   - a revision costs nothing, and ends with a newer video or with the   *)
(*     one the customer already holds.                                     *)
(***************************************************************************)
EXTENDS Naturals

VARIABLES
  unit,    \* the Unit of the order: NONE, HELD, SPENT, RETURNED
  phase,   \* NONE, MAKING the first video, SHOWN, REVISING it, or GONE
  video    \* ordinal of the video the customer holds, 0 when none

contractVars == <<unit, phase, video>>

Init ==
  /\ unit = "NONE"
  /\ phase = "NONE"
  /\ video = 0

Order ==
  /\ phase = "NONE"
  /\ unit = "NONE"
  /\ phase' = "MAKING"
  /\ unit' = "HELD"
  /\ UNCHANGED video

\* The Unit may come back before the order is closed, never after a video.
Return ==
  /\ phase = "MAKING"
  /\ unit = "HELD"
  /\ unit' = "RETURNED"
  /\ UNCHANGED <<phase, video>>

GiveUp ==
  /\ phase = "MAKING"
  /\ unit \in {"HELD", "RETURNED"}
  /\ phase' = "GONE"
  /\ unit' = "RETURNED"
  /\ UNCHANGED video

Show ==
  /\ phase = "MAKING"
  /\ unit = "HELD"
  /\ phase' = "SHOWN"
  /\ unit' = "SPENT"
  /\ video' \in Nat \ {0}

Revise ==
  /\ phase = "SHOWN"
  /\ phase' = "REVISING"
  /\ UNCHANGED <<unit, video>>

Improve ==
  /\ phase = "REVISING"
  /\ phase' = "SHOWN"
  /\ video' \in {n \in Nat : n > video}
  /\ UNCHANGED unit

KeepOld ==
  /\ phase = "REVISING"
  /\ phase' = "SHOWN"
  /\ UNCHANGED <<unit, video>>

Next == Order \/ Return \/ GiveUp \/ Show \/ Revise \/ Improve \/ KeepOld

Spec == Init /\ [][Next]_contractVars
=============================================================================
