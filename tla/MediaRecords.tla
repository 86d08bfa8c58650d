----------------------------- MODULE MediaRecords -----------------------------
(***************************************************************************)
(* What the media workers share: the objects of the managed bucket, the    *)
(* rows of one scene's request with its first attempt and the one automatic *)
(* recovery, and the rows of the job's first video.                        *)
(*                                                                         *)
(* Bytes are told apart by where they were made from and by the take: two  *)
(* downloads of one output, or two encodes of one input, need not agree.   *)
(* An object's receipt (SHA-256 and size) stands for the bytes themselves. *)
(***************************************************************************)
EXTENDS LeasedWork

CONSTANTS
  Worker,     \* worker processes; each makes one pass at a time
  ClipTake,   \* what a download of a provider's output may bring
  MasterTake, \* what an encode of the clips may bring
  VideoTake,  \* what drawing the disclosure on a master may bring
  Sound,      \* takes that probe as playable, and on plan
  Huge        \* takes over the size limit of their kind

ASSUME MediaAssumption ==
  /\ Nobody \notin Worker
  /\ "none" \notin ClipTake \cup MasterTake \cup VideoTake

Attempt == {"first", "recovery"}
Object  == Attempt \cup {"master", "video"}

Bytes(source, take) == [source |-> source, take |-> take]
Nothing == Bytes("none", "none")

VARIABLES
  stored,     \* the managed bucket
  attempt,    \* scene_generations: state, and the receipt of the verified output
  judging,    \* managed_output_media_validations, by attempt
  resolving,  \* managed_output_media_failure_resolutions, by the judged attempt
  request,    \* the scene's generation request
  job,        \* the job, with its reservation
  plan,       \* generation_deliverable_versions and its one input
  composing,  \* generation_deliverable_compositions
  receipts,   \* what the composition recorded of the video and its Clean Master
  checking,   \* generation_deliverable_validations
  shown,      \* the job's current deliverable
  pass        \* what each worker is doing, with what it remembers

clipRows  == <<attempt, judging, resolving>>
videoRows == <<plan, composing, receipts, checking, shown>>
jobRows   == <<request, job>>
vars == <<stored, clipRows, jobRows, videoRows, pass>>

Idle == [at |-> "IDLE"]
At(w, phase) == pass[w].at = phase
Goes(w, to)  == pass' = [pass EXCEPT ![w] = to]
Ends(w)      == Goes(w, Idle)

NoPlan == [attempt |-> "none", source |-> Nothing, executable |-> FALSE]
NoReceipts == [video |-> Nothing, master |-> Nothing]

\* ifNoneMatch "*": the first writer of a key wins and the object never changes.
PutIfAbsent(key, bytes) ==
  stored' = IF stored[key] = Nothing THEN [stored EXCEPT ![key] = bytes] ELSE stored

\* ffprobe's document of these bytes names a container, a video stream, its size and
\* a duration; of a video, also those of its plan.
Playable(bytes) == bytes.take \in Sound

\* What the media validator says of an object that should be the expected bytes.
Verdict(bytes, expected) ==
  CASE bytes = Nothing  -> "RETRYABLE_FAILURE"
    [] bytes # expected -> "INTEGRITY_MISMATCH"
    [] Playable(bytes)  -> "VALID"
    [] OTHER            -> "INVALID_MEDIA"

BadVerdicts == {"INVALID_MEDIA", "INTEGRITY_MISMATCH"}
Verdicts    == BadVerdicts \cup {"VALID"}

JobFails(unit) == job' = [state |-> "FAILED_TERMINAL", unit |-> unit]
===============================================================================
