------------------------------ MODULE MCWorkspace ------------------------------
(***************************************************************************)
(* Everything that can be done with one photo; and, beside one that is      *)
(* approved and left alone, everything that is said of a second.            *)
(***************************************************************************)
EXTENDS WorkspaceProperties, TLC

CallerPermutations == Permutations(Caller)

WorkedOn(p) ==
  \E c \in Caller : call[c].at \notin {"IDLE", "LIST", "SAVE", "REMOVE"} /\ call[c].on = p

FirstStands ==
  /\ photo[1].status = "READY" /\ object[1].original = "fine" /\ ~ WorkedOn(1)
  /\ analysis[1] = [NoAnalysis EXCEPT !.status = "SUCCEEDED", !.room = 6,
                                      !.review = "APPROVED", !.revision = 1]

SecondIsShown == photo[2].status \in {"READY", "REJECTED"}

ReviewPhases ==
  {"IDLE", "RESERVE", "INSERT", "CLEAR", "ANALYSE", "REVIEW", "DECIDE", "SAVE"}

\* Bound: the second photo comes when the first one stands, by one call and with a
\* good file, and is not deleted; once it is shown it is analysed, reviewed and
\* composed.
SecondIsReviewed ==
  photo'[2] # NoPhoto \/ WorkedOn(2)' =>
    /\ FirstStands /\ FirstStands' /\ ~ photo'[2].leaving
    /\ IF SecondIsShown
       THEN object'[2] = object[2] /\ \A c \in Caller : call'[c].at \in ReviewPhases
       ELSE /\ object'[2].original \in {None, "fine"}
            /\ Cardinality({c \in Caller : call'[c] # Idle}) <= 1

\* Bound: each photo is one of two rooms, for the analyser and for the reviewers;
\* only the second is given a priority.
RoomsOf(p) == IF p = 1 THEN {6, 15} ELSE {3, 6}
TwoRoomsEach ==
  /\ analysis'[1].order = Absent
  /\ \A p \in Photo : {analysis'[p].room, analysis'[p].override} \subseteq RoomsOf(p) \cup {Absent}
===============================================================================
