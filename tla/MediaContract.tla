----------------------------- MODULE MediaContract -----------------------------
(***************************************************************************)
(* What the media workers promise of what they make, whoever makes it and  *)
(* however often they start again: an object is stored once and never      *)
(* changes; a receipt is recorded once, of the object as it is stored; a    *)
(* verdict is given once and is true of the bytes; a Clean Master is made  *)
(* of a clip judged valid, a video of the stored Clean Master; and what is *)
(* shown is a video judged valid.                                          *)
(***************************************************************************)
CONSTANTS ClipTake, MasterTake, VideoTake, Sound, Huge

VARIABLES
  stored,   \* the bytes of each object, or Nothing
  receipt,  \* the bytes each record names, or Nothing
  verdict,  \* "NONE", "VALID" or "INVALID_MEDIA", of what is judged
  shown     \* what the customer is shown, or Nothing

promised == <<stored, receipt, verdict, shown>>

Clip == {"first", "recovery"}
Bytes(source, take) == [source |-> source, take |-> take]
Nothing == Bytes("none", "none")

ContractInit ==
  /\ stored = [key \in Clip \cup {"master", "video"} |-> Nothing]
  /\ receipt = stored
  /\ verdict = [key \in Clip \cup {"video"} |-> "NONE"]
  /\ shown = Nothing

\* What may come under a key.
Makes(key) ==
  CASE key \in Clip     -> {Bytes("provider", take) : take \in ClipTake}
    [] key = "master"   -> {Bytes(receipt[c].take, take) :
                              c \in {d \in Clip : verdict[d] = "VALID"},
                              take \in MasterTake \ Huge}
    [] key = "video"    -> {Bytes(stored["master"].take, take) :
                              take \in {t \in VideoTake \ Huge : stored["master"].take \in Sound}}

Store ==
  \E key \in DOMAIN stored :
    /\ stored[key] = Nothing
    /\ \E bytes \in Makes(key) : stored' = [stored EXCEPT ![key] = bytes]
    /\ UNCHANGED <<receipt, verdict, shown>>

\* A clip's receipt is recorded alone, a video's with its Clean Master's.
Record ==
  \E keys \in {{c} : c \in Clip} \cup {{"master", "video"}} :
    /\ \A key \in keys : receipt[key] = Nothing /\ stored[key] # Nothing
    /\ receipt' = [key \in DOMAIN receipt |-> IF key \in keys THEN stored[key] ELSE receipt[key]]
    /\ UNCHANGED <<stored, verdict, shown>>

Judge ==
  \E key \in DOMAIN verdict :
    /\ verdict[key] = "NONE" /\ receipt[key] # Nothing
    /\ verdict' = [verdict EXCEPT ![key] =
                     IF receipt[key].take \in Sound THEN "VALID" ELSE "INVALID_MEDIA"]
    /\ UNCHANGED <<stored, receipt, shown>>

Show ==
  /\ shown = Nothing /\ verdict["video"] = "VALID"
  /\ shown' = receipt["video"]
  /\ UNCHANGED <<stored, receipt, verdict>>

ContractSpec == ContractInit /\ [][Store \/ Record \/ Judge \/ Show]_promised
===============================================================================
