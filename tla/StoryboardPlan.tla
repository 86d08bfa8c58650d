----------------------------- MODULE StoryboardPlan -----------------------------
(***************************************************************************)
(* The two pure rules of a composition: the order of the scenes            *)
(* (packages/domain/src/storyboard/ordering.ts) and the seconds of each     *)
(* (duration.ts).  Rooms are their ranks; Absent stands for a null.        *)
(***************************************************************************)
EXTENDS Naturals, Integers, FiniteSets

Absent == -1
FALLBACK_RANK == 99

rankOf(room) == IF room = Absent THEN FALLBACK_RANK ELSE room

\* The analyser's suggestion: the index of its own room in the same sequence.
ROOM_ORDER_LENGTH == 15
roomOrderRank(room) == IF room = Absent THEN ROOM_ORDER_LENGTH ELSE room - 1

\* A customer's priority is compared with the room ranks of the others.
primaryKey(input) == IF input.order # Absent THEN input.order ELSE rankOf(input.room)

Explicit(input) == input.order # Absent

\* compareSuggestedOrder: a missing suggestion comes last.
SuggestedBefore(a, b) == a # b /\ a # Absent /\ (b = Absent \/ a < b)

\* What a reviewer's decisions and the room decide: by priority, then the customer's
\* own choices first, then by room.
Decided(a, b) ==
  \/ primaryKey(a) < primaryKey(b)
  \/ /\ primaryKey(a) = primaryKey(b)
     /\ \/ Explicit(a) /\ ~ Explicit(b)
        \/ Explicit(a) = Explicit(b) /\ rankOf(a.room) < rankOf(b.room)

\* The comparator of orderScenes: what is left open goes by suggestion and by photo.
Precedes(a, b) ==
  \/ Decided(a, b)
  \/ /\ ~ Decided(b, a)
     /\ \/ SuggestedBefore(a.suggested, b.suggested)
        \/ a.suggested = b.suggested /\ a.photo < b.photo

\* orderScenes, as the position each input gets.
positionIn(inputs, input) == Cardinality({other \in inputs : Precedes(other, input)}) + 1

\* requireMinimumScenes and the refusal of allocateDurations.
Allocatable(scenes, total, shortest, longest) ==
  /\ scenes * shortest <= total
  /\ total <= scenes * longest

\* allocateDurations: the remainder goes to the first scenes, a second each.
allocateDurations(scenes, total) ==
  [i \in 1 .. scenes |-> (total \div scenes) + (IF i <= total % scenes THEN 1 ELSE 0)]
===============================================================================
