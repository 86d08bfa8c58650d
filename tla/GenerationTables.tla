--------------------------- MODULE GenerationTables ---------------------------
(***************************************************************************)
(* The closed vocabularies and transition tables of one generation order:  *)
(* packages/domain/src/orchestration/state-machines.ts and types.ts.  Each *)
(* table maps a state to the states a transition may name as its target.   *)
(* The repositories write states with SQL of their own, so the tables bind *)
(* them only as far as the specifications below check it.                  *)
(***************************************************************************)

JobTransitions ==
  [ CREATED                |-> {"RESERVING", "CANCELLED", "FAILED_TERMINAL"},
    RESERVING              |-> {"RESERVED", "CANCELLED", "FAILED_TERMINAL"},
    RESERVED               |-> {"GENERATING", "CANCELLED", "FAILED_TERMINAL"},
    GENERATING             |-> {"SCENES_READY", "DELIVERABLE_READY", "FAILED_TERMINAL"},
    SCENES_READY           |-> {"COMPOSITION_PENDING", "FAILED_TERMINAL"},
    COMPOSITION_PENDING    |-> {"COMPOSING", "FAILED_TERMINAL"},
    COMPOSING              |-> {"DELIVERABLE_VALIDATING", "DELIVERABLE_READY",
                                "FAILED_TERMINAL"},
    DELIVERABLE_VALIDATING |-> {"DELIVERABLE_READY", "FAILED_TERMINAL"},
    DELIVERABLE_READY      |-> {"REVISING"},
    REVISING               |-> {"GENERATING"},
    FAILED_TERMINAL        |-> {},
    CANCELLED              |-> {} ]

ReservationTransitions ==
  [ RESERVING           |-> {"RESERVED", "RELEASED"},
    RESERVED            |-> {"RECONCILIATION_HOLD", "CONSUMED", "RELEASED"},
    RECONCILIATION_HOLD |-> {"RESERVED", "CONSUMED", "RELEASED"},
    CONSUMED            |-> {},
    RELEASED            |-> {} ]

SceneTransitions ==
  [ PENDING         |-> {"GENERATING", "CANCELLED", "FAILED_TERMINAL"},
    GENERATING      |-> {"READY", "FAILED_TERMINAL"},
    READY           |-> {"REVISING"},
    REVISING        |-> {"READY"},
    FAILED_TERMINAL |-> {},
    CANCELLED       |-> {} ]

RequestTransitions ==
  [ PENDING         |-> {"GENERATING", "CANCELLED", "FAILED_TERMINAL"},
    GENERATING      |-> {"DELIVERED", "FAILED_TERMINAL"},
    DELIVERED       |-> {},
    FAILED_TERMINAL |-> {},
    CANCELLED       |-> {} ]

AttemptTransitions ==
  [ QUEUED                   |-> {"SUBMITTING", "CANCELLED_PRE_SUBMISSION",
                                  "FAILED_RETRYABLE", "FAILED_TERMINAL"},
    SUBMITTING               |-> {"PROCESSING", "FAILED_RETRYABLE", "FAILED_TERMINAL",
                                  "RECONCILIATION_PENDING"},
    PROCESSING               |-> {"PROVIDER_SUCCEEDED", "FAILED_RETRYABLE",
                                  "FAILED_TERMINAL"},
    RECONCILIATION_PENDING   |-> {"PROCESSING", "FAILED_RETRYABLE", "FAILED_TERMINAL",
                                  "RECONCILIATION_EXHAUSTED"},
    PROVIDER_SUCCEEDED       |-> {"OUTPUT_INGESTING"},
    OUTPUT_INGESTING         |-> {"OUTPUT_VERIFIED", "FAILED_RETRYABLE",
                                  "FAILED_TERMINAL"},
    OUTPUT_VERIFIED          |-> {},
    FAILED_RETRYABLE         |-> {},
    FAILED_TERMINAL          |-> {},
    RECONCILIATION_EXHAUSTED |-> {},
    CANCELLED_PRE_SUBMISSION |-> {} ]

JobStates         == DOMAIN JobTransitions
ReservationStates == DOMAIN ReservationTransitions
SceneStates       == DOMAIN SceneTransitions
RequestStates     == DOMAIN RequestTransitions
AttemptStates     == DOMAIN AttemptTransitions

TerminalAttemptStates ==
  {"OUTPUT_VERIFIED", "RECONCILIATION_EXHAUSTED", "FAILED_RETRYABLE",
   "FAILED_TERMINAL", "CANCELLED_PRE_SUBMISSION"}

ActiveAttemptStates ==
  {"QUEUED", "SUBMITTING", "PROCESSING", "RECONCILIATION_PENDING",
   "PROVIDER_SUCCEEDED", "OUTPUT_INGESTING"}

\* endedWithoutOutput: the attempt is over and there is no clip to use.
EndedWithoutOutput == TerminalAttemptStates \ {"OUTPUT_VERIFIED"}

OpenRequestStates == {"PENDING", "GENERATING"}

\* MAX_USER_REGENERATIONS_PER_SCENE: delivered regenerations only.
MaxUserRegenerations == 2
=============================================================================
