------------------------------ MODULE ObjectFolder ------------------------------
(***************************************************************************)
(* The object store on a folder that several processes share               *)
(* (packages/storage/src/shared-folder-storage.ts), and a managed output   *)
(* streamed into it as a multipart upload                                  *)
(* (packages/storage/src/managed-output: streaming-transfer.ts and          *)
(* s3-staging-sink.ts).                                                    *)
(*                                                                         *)
(* Every file operation is a step, and between two of them other calls     *)
(* run, fail or die (CallEnds).  Bytes are written first into a file of    *)
(* their own under a random name; a key's path then comes to name that     *)
(* file, by rename, which replaces, or by link, which does not.  An open   *)
(* file is read by what it is, not by its name.                            *)
(*                                                                         *)
(* A piece stands for a part of an upload, a write or a read.  A receipt   *)
(* stands for the bytes it is of, an etag for those of its part.  Names    *)
(* left in the staging and upload folders are not kept track of.           *)
(***************************************************************************)
EXTENDS Naturals, Sequences

CONSTANTS
  Key, Piece,
  Call,    \* the calls being served at once
  File,    \* random names
  MAX_PART_NUMBER

None   == "none"
NoFile == CHOOSE f : f \notin File

VARIABLES
  file,    \* the pieces written to each file
  made,    \* the files made so far
  object,  \* the file each key names, or NoFile
  part,    \* the parts of each call's upload
  call     \* what each call is doing

vars == <<file, made, object, part, call>>

Idle ==
  [at |-> "IDLE", op |-> None, key |-> None, bytes |-> << >>, file |-> NoFile, seen |-> << >>]
At(c, phase)    == call[c].at = phase
Goes(c, phase)  == call' = [call EXCEPT ![c].at = phase]
UNCHANGED_FILES == UNCHANGED <<file, made, object>>

Begin(c, op, key, bytes, phase) ==
  /\ At(c, "IDLE")
  /\ call' = [call EXCEPT ![c] = [at |-> phase, op |-> op, key |-> key, bytes |-> bytes,
                                  file |-> NoFile, seen |-> << >>]]

\* The process dies, or the call throws, is refused, or has answered.
CallEnds(c) ==
  /\ ~ At(c, "IDLE")
  /\ call' = [call EXCEPT ![c] = Idle]
  /\ UNCHANGED <<file, made, object, part>>

-------------------------------------------------------------------------------
(* A managed output: pump, write, commit, abort.                               *)

PartIsStored(c, piece) == part' = [part EXCEPT ![c] = Append(@, piece)]
UploadIsRemoved(c)     == part' = [part EXCEPT ![c] = << >>]

BeginTransfer(c, key) ==
  /\ Begin(c, "MULTIPART", key, << >>, "STREAM")
  /\ UploadIsRemoved(c)
  /\ UNCHANGED_FILES

UploadPart(c, piece) ==
  /\ At(c, "STREAM") /\ Len(call[c].bytes) < MAX_PART_NUMBER
  /\ PartIsStored(c, piece)
  /\ call' = [call EXCEPT ![c].bytes = Append(@, piece)]
  /\ UNCHANGED_FILES

\* The part may have been stored although nothing of it is heard.
UploadPartFails(c) ==
  /\ At(c, "STREAM")
  /\ \/ UNCHANGED part
     \/ \E piece \in Piece : PartIsStored(c, piece)
  /\ Goes(c, "ABORT")
  /\ UNCHANGED_FILES

\* An empty stream is no output.
Commit(c) ==
  /\ At(c, "STREAM")
  /\ Goes(c, IF call[c].bytes = << >> THEN "ABORT" ELSE "STAGE")
  /\ UNCHANGED part /\ UNCHANGED_FILES

AbortUpload(c) ==
  /\ At(c, "ABORT")
  /\ UploadIsRemoved(c)
  /\ call' = [call EXCEPT ![c] = Idle]
  /\ UNCHANGED_FILES

-------------------------------------------------------------------------------
(* Storing: a file of one's own first, then the key.                           *)

PutObject(c, key, bytes) ==
  Begin(c, "PUT", key, bytes, "STAGE") /\ UNCHANGED part /\ UNCHANGED_FILES
PutObjectIfAbsent(c, key, bytes) ==
  Begin(c, "PUT_IF_ABSENT", key, bytes, "STAGE") /\ UNCHANGED part /\ UNCHANGED_FILES

StageFile(c, f) ==
  /\ At(c, "STAGE") /\ f \notin made
  /\ made' = made \cup {f}
  /\ file' = [file EXCEPT ![f] = << >>]
  /\ call' = [call EXCEPT ![c].at = "WRITE", ![c].file = f]
  /\ UNCHANGED <<object, part>>

\* A part that is missing or not the one that was acknowledged refuses the upload.
NextPieceIsGood(c) ==
  LET n == Len(file[call[c].file]) + 1 IN
  call[c].op = "MULTIPART" => n <= Len(part[c]) /\ part[c][n] = call[c].bytes[n]

WritePiece(c) ==
  LET f == call[c].file
      n == Len(file[f]) + 1
  IN
  /\ At(c, "WRITE") /\ n <= Len(call[c].bytes) /\ NextPieceIsGood(c)
  /\ file' = [file EXCEPT ![f] = Append(@, call[c].bytes[n])]
  /\ UNCHANGED <<made, object, part, call>>

InvalidPart(c) ==
  /\ At(c, "WRITE") /\ Len(file[call[c].file]) < Len(call[c].bytes) /\ ~ NextPieceIsGood(c)
  /\ Goes(c, "ABORT")
  /\ UNCHANGED part /\ UNCHANGED_FILES

AllWritten(c) ==
  /\ At(c, "WRITE") /\ Len(file[call[c].file]) = Len(call[c].bytes)
  /\ Goes(c, "PUBLISH")
  /\ UNCHANGED part /\ UNCHANGED_FILES

Names(c) == object' = [object EXCEPT ![call[c].key] = call[c].file]

replace(c) ==
  /\ At(c, "PUBLISH") /\ call[c].op = "PUT"
  /\ Names(c) /\ Goes(c, "STORED")
  /\ UNCHANGED <<file, made, part>>

publishIfAbsent(c) ==
  /\ At(c, "PUBLISH") /\ call[c].op # "PUT" /\ object[call[c].key] = NoFile
  /\ Names(c) /\ Goes(c, "STORED")
  /\ UNCHANGED <<file, made, part>>

\* Another was first: a transfer drops its upload and reads the one that is there.
PreconditionFailed(c) ==
  /\ At(c, "PUBLISH") /\ call[c].op # "PUT" /\ object[call[c].key] # NoFile
  /\ Goes(c, IF call[c].op = "MULTIPART" THEN "OPEN" ELSE "EXISTS")
  /\ IF call[c].op = "MULTIPART" THEN UploadIsRemoved(c) ELSE UNCHANGED part
  /\ UNCHANGED_FILES

\* After the answer is certain, what is left of the upload goes.
RemoveUpload(c) ==
  /\ At(c, "STORED") /\ call[c].op = "MULTIPART"
  /\ UploadIsRemoved(c)
  /\ Goes(c, "PUBLISHED")
  /\ UNCHANGED_FILES

-------------------------------------------------------------------------------
(* Reading and deleting.                                                       *)

GetObject(c, key) ==
  Begin(c, "READ", key, << >>, "OPEN") /\ UNCHANGED part /\ UNCHANGED_FILES

openRead(c) ==
  LET f == object[call[c].key] IN
  /\ At(c, "OPEN") /\ f # NoFile
  /\ call' = [call EXCEPT ![c].at = "READ", ![c].file = f, ![c].seen = << >>]
  /\ UNCHANGED part /\ UNCHANGED_FILES

ReadPiece(c) ==
  LET f == call[c].file
      n == Len(call[c].seen) + 1
  IN
  /\ At(c, "READ") /\ n <= Len(file[f])
  /\ call' = [call EXCEPT ![c].seen = Append(@, file[f][n])]
  /\ UNCHANGED part /\ UNCHANGED_FILES

ReadEnds(c) ==
  /\ At(c, "READ") /\ Len(call[c].seen) = Len(file[call[c].file])
  /\ Goes(c, "RETURNED")
  /\ UNCHANGED part /\ UNCHANGED_FILES

DeleteObject(key) ==
  /\ object' = [object EXCEPT ![key] = NoFile]
  /\ UNCHANGED <<file, made, part, call>>

-------------------------------------------------------------------------------

Init ==
  /\ file = [f \in File |-> << >>] /\ made = {}
  /\ object = [k \in Key |-> NoFile]
  /\ part = [c \in Call |-> << >>]
  /\ call = [c \in Call |-> Idle]

Transfers(c) ==
  \/ \E key \in Key : BeginTransfer(c, key)
  \/ \E piece \in Piece : UploadPart(c, piece)
  \/ UploadPartFails(c) \/ Commit(c) \/ AbortUpload(c) \/ RemoveUpload(c)

Stores(c) ==
  \/ \E key \in Key, bytes \in Seq(Piece) : PutObject(c, key, bytes) \/ PutObjectIfAbsent(c, key, bytes)
  \/ \E f \in File : StageFile(c, f)
  \/ WritePiece(c) \/ InvalidPart(c) \/ AllWritten(c)
  \/ replace(c) \/ publishIfAbsent(c) \/ PreconditionFailed(c)

Reads(c) ==
  (\E key \in Key : GetObject(c, key)) \/ openRead(c) \/ ReadPiece(c) \/ ReadEnds(c)

Next ==
  \/ \E c \in Call : CallEnds(c) \/ Transfers(c) \/ Stores(c) \/ Reads(c)
  \/ \E key \in Key : DeleteObject(key)

Spec == Init /\ [][Next]_vars
===============================================================================
