--------------------------- MODULE ObjectFolderProofs ---------------------------
(***************************************************************************)
(* The shared folder keeps the promise of an object store, for any number  *)
(* of keys, calls and pieces: the refinement and the invariant it needs.   *)
(***************************************************************************)
EXTENDS ObjectFolder, SequenceTheorems, TLAPS

PHASES ==
  {"IDLE", "STREAM", "ABORT", "STAGE", "WRITE", "PUBLISH", "STORED", "PUBLISHED", "EXISTS",
   "OPEN", "READ", "RETURNED"}
OPS == {None, "MULTIPART", "PUT", "PUT_IF_ABSENT", "READ"}

Calls ==
  [at : PHASES, op : OPS, key : Key \cup {None}, bytes : Seq(Piece),
   file : File \cup {NoFile}, seen : Seq(Piece)]

\* What the variables hold.
TypeOK ==
  /\ file \in [File -> Seq(Piece)]
  /\ made \subseteq File
  /\ object \in [Key -> File \cup {NoFile}]
  /\ part \in [Call -> Seq(Piece)]
  /\ call \in [Call -> Calls]

Asking(c)  == call[c].at \in {"STAGE", "WRITE", "PUBLISH"}
Writing(c) == call[c].at \in {"WRITE", "PUBLISH"}
Reading(c) == call[c].at \in {"READ", "RETURNED"}

Prefix(s, t) == Len(s) <= Len(t) /\ \A i \in 1 .. Len(s) : s[i] = t[i]

-----------------------------------------------------------------------------
(***************************************************************************)
(* The inductive invariant.                                                *)
(***************************************************************************)

BusyCallsHaveAKey == \A c \in Call : call[c].at # "IDLE" => call[c].key \in Key

NamedFilesAreMade == \A k \in Key : object[k] # NoFile => object[k] \in made

\* A file being written is its writer's alone: no key names it yet and no other
\* call has it open (the random name of stage, and publishing only at the end).
WritersAreAlone ==
  \A c \in Call : Writing(c) =>
    /\ call[c].file \in made
    /\ \A k \in Key : object[k] # call[c].file
    /\ \A d \in Call \ {c} : Writing(d) \/ Reading(d) => call[d].file # call[c].file

\* It holds what its writer was asked to store, as far as it got.
WrittenSoFar ==
  \A c \in Call : Writing(c) =>
    /\ Prefix(file[call[c].file], call[c].bytes)
    /\ call[c].at = "PUBLISH" => file[call[c].file] = call[c].bytes

\* A reader has read its file from the beginning, as far as it got.
ReadSoFar ==
  \A c \in Call : Reading(c) =>
    /\ call[c].file \in made
    /\ Prefix(call[c].seen, file[call[c].file])
    /\ call[c].at = "RETURNED" => call[c].seen = file[call[c].file]

IInv ==
  /\ TypeOK /\ BusyCallsHaveAKey /\ NamedFilesAreMade
  /\ WritersAreAlone /\ WrittenSoFar /\ ReadSoFar

-----------------------------------------------------------------------------
(***************************************************************************)
(* The refinement mapping: a key holds what its file holds, a call asks    *)
(* from its commit until it publishes, a reader holds the file it opened.  *)
(***************************************************************************)

Content(k) == IF object[k] = NoFile THEN {} ELSE {file[object[k]]}

Wanted(c) ==
  IF Asking(c)
  THEN {[key |-> call[c].key, value |-> call[c].bytes, over |-> (call[c].op = "PUT")]} ELSE {}

Opened(c) ==
  IF Reading(c) THEN {[key |-> call[c].key, value |-> file[call[c].file]]} ELSE {}

Told(c) ==
  IF call[c].at \in {"STORED", "PUBLISHED"} THEN {[key |-> call[c].key, value |-> call[c].bytes]}
  ELSE IF call[c].at = "RETURNED" THEN {[key |-> call[c].key, value |-> call[c].seen]}
  ELSE {}

contents == [k \in Key |-> Content(k)]
wanted   == [c \in Call |-> Wanted(c)]
opened   == [c \in Call |-> Opened(c)]
told     == [c \in Call |-> Told(c)]

Contract ==
  INSTANCE ObjectStoreContract
    WITH Value <- Seq(Piece), store <- contents, asked <- wanted, holding <- opened,
         answer <- told

-----------------------------------------------------------------------------
(***************************************************************************)
(* The invariant is preserved.                                             *)
(***************************************************************************)

Others(c) == \A d \in Call \ {c} : call'[d] = call[d]

LEMMA Initially == Init => IInv
  <1> SUFFICES ASSUME Init PROVE IInv  OBVIOUS
  <1>1. \A c \in Call : call[c] = Idle  BY DEF Init
  <1>2. Idle \in Calls  BY DEF Idle, Calls, PHASES, OPS
  <1>3. \A c \in Call : ~ Writing(c) /\ ~ Reading(c) /\ call[c].at = "IDLE"
    BY <1>1 DEF Idle, Writing, Reading
  <1>4. TypeOK  BY <1>1, <1>2 DEF Init, TypeOK
  <1>5. NamedFilesAreMade  BY DEF Init, NamedFilesAreMade
  <1> QED  BY <1>3, <1>4, <1>5 DEF IInv, BusyCallsHaveAKey, WritersAreAlone, WrittenSoFar, ReadSoFar

\* A step that leaves the files alone and after which its call neither writes nor reads.
LEMMA QuietStep ==
  ASSUME NEW c \in Call, IInv, UNCHANGED_FILES,
         part' \in [Call -> Seq(Piece)], call' \in [Call -> Calls], Others(c),
         call'[c].at # "IDLE" => call'[c].key \in Key,
         ~ Writing(c)', ~ Reading(c)'
  PROVE  IInv'
  <1>1. file' = file /\ made' = made /\ object' = object  BY DEF UNCHANGED_FILES
  <1>2. TypeOK'  BY <1>1 DEF IInv, TypeOK
  <1>3. \A d \in Call : Writing(d)' => Writing(d) /\ d # c /\ call'[d] = call[d]
    BY DEF Others, Writing
  <1>4. \A d \in Call : Reading(d)' => Reading(d) /\ d # c /\ call'[d] = call[d]
    BY DEF Others, Reading
  <1>5. BusyCallsHaveAKey'  BY DEF IInv, BusyCallsHaveAKey, Others
  <1>6. NamedFilesAreMade'  BY <1>1 DEF IInv, NamedFilesAreMade
  <1>7. WritersAreAlone'  BY <1>1, <1>3, <1>4 DEF IInv, WritersAreAlone
  <1>8. WrittenSoFar'  BY <1>1, <1>3 DEF IInv, WrittenSoFar
  <1>9. ReadSoFar'  BY <1>1, <1>4 DEF IInv, ReadSoFar
  <1> QED  BY <1>2, <1>5, <1>6, <1>7, <1>8, <1>9 DEF IInv

\* What a call becomes when it moves to a phase.
LEMMA GoingOn ==
  ASSUME NEW c \in Call, NEW phase \in PHASES, TypeOK, Goes(c, phase)
  PROVE  /\ call' \in [Call -> Calls] /\ Others(c)
         /\ call'[c].at = phase
         /\ call'[c].key = call[c].key /\ call'[c].bytes = call[c].bytes
         /\ call'[c].op = call[c].op /\ call'[c].file = call[c].file
         /\ call'[c].seen = call[c].seen
  BY DEF TypeOK, Goes, Calls, Others

LEMMA Beginning ==
  ASSUME NEW c \in Call, NEW op \in OPS, NEW key \in Key, NEW bytes \in Seq(Piece),
         NEW phase \in PHASES, TypeOK, Begin(c, op, key, bytes, phase)
  PROVE  /\ call' \in [Call -> Calls] /\ Others(c)
         /\ call'[c].at = phase /\ call'[c].key = key /\ call'[c].bytes = bytes
         /\ call'[c].op = op /\ call[c].at = "IDLE"
  <1>1. [at |-> phase, op |-> op, key |-> key, bytes |-> bytes, file |-> NoFile, seen |-> << >>]
          \in Calls
    BY DEF Calls
  <1> QED  BY <1>1 DEF TypeOK, Begin, Others, At

LEMMA Ending ==
  ASSUME NEW c \in Call, TypeOK, call' = [call EXCEPT ![c] = Idle]
  PROVE  /\ call' \in [Call -> Calls] /\ Others(c)
         /\ call'[c].at = "IDLE"
  <1>1. Idle \in Calls  BY DEF Idle, Calls, PHASES, OPS
  <1> QED  BY <1>1 DEF TypeOK, Others, Idle

LEMMA CallEndsKeepsIt ==
  ASSUME IInv, NEW c \in Call, CallEnds(c)  PROVE IInv'
  <1>1. TypeOK  BY DEF IInv
  <1>2. call' = [call EXCEPT ![c] = Idle] /\ part' = part /\ UNCHANGED_FILES
    BY DEF CallEnds, UNCHANGED_FILES
  <1>3. /\ call' \in [Call -> Calls] /\ Others(c) /\ call'[c].at = "IDLE"
    BY <1>1, <1>2, Ending
  <1>4. ~ Writing(c)' /\ ~ Reading(c)'  BY <1>3 DEF Writing, Reading
  <1> QED  BY <1>1, <1>2, <1>3, <1>4, QuietStep DEF TypeOK

\* The steps of a transfer before it is committed, and what it tidies up.
LEMMA TransfersKeepIt ==
  ASSUME IInv, NEW c \in Call, Transfers(c)  PROVE IInv'
  <1> TypeOK  BY DEF IInv
  <1>k. call[c].at # "IDLE" => call[c].key \in Key  BY DEF IInv, BusyCallsHaveAKey
  <1>p. part[c] \in Seq(Piece)  BY DEF TypeOK
  <1>e. << >> \in Seq(Piece)  OBVIOUS
  <1>1. CASE \E key \in Key : BeginTransfer(c, key)
    <2> PICK key \in Key : BeginTransfer(c, key)  BY <1>1
    <2>1. Begin(c, "MULTIPART", key, << >>, "STREAM") /\ UNCHANGED_FILES
          /\ part' = [part EXCEPT ![c] = << >>]
      BY DEF BeginTransfer, UploadIsRemoved
    <2>2. "MULTIPART" \in OPS /\ "STREAM" \in PHASES  BY DEF OPS, PHASES
    <2>3. call' \in [Call -> Calls] /\ Others(c) /\ call'[c].at = "STREAM" /\ call'[c].key = key
      BY <2>1, <2>2, <1>e, Beginning
    <2>4. ~ Writing(c)' /\ ~ Reading(c)'  BY <2>3 DEF Writing, Reading
    <2>5. part' \in [Call -> Seq(Piece)]  BY <2>1, <1>e DEF TypeOK
    <2> QED  BY <2>1, <2>3, <2>4, <2>5, QuietStep
  <1>2. CASE \E piece \in Piece : UploadPart(c, piece)
    <2> PICK piece \in Piece : UploadPart(c, piece)  BY <1>2
    <2>1. /\ call' = [call EXCEPT ![c].bytes = Append(@, piece)] /\ UNCHANGED_FILES
          /\ part' = [part EXCEPT ![c] = Append(@, piece)] /\ call[c].at = "STREAM"
      BY DEF UploadPart, PartIsStored, At
    <2>2. Append(call[c].bytes, piece) \in Seq(Piece) /\ Append(part[c], piece) \in Seq(Piece)
      BY <1>p DEF TypeOK, Calls
    <2>3. /\ call' \in [Call -> Calls] /\ Others(c)
          /\ call'[c].at = "STREAM" /\ call'[c].key = call[c].key
      BY <2>1, <2>2 DEF TypeOK, Calls, Others
    <2>4. ~ Writing(c)' /\ ~ Reading(c)'  BY <2>3 DEF Writing, Reading
    <2>5. part' \in [Call -> Seq(Piece)]  BY <2>1, <2>2 DEF TypeOK
    <2> QED  BY <2>1, <2>3, <2>4, <2>5, <1>k, QuietStep
  <1>3. CASE UploadPartFails(c)
    <2>1. Goes(c, "ABORT") /\ UNCHANGED_FILES /\ call[c].at = "STREAM"
      BY <1>3 DEF UploadPartFails, At
    <2>2. \A piece \in Piece : Append(part[c], piece) \in Seq(Piece)  BY <1>p
    <2>3. part' \in [Call -> Seq(Piece)]  BY <1>3, <2>2 DEF TypeOK, UploadPartFails, PartIsStored
    <2>4. call' \in [Call -> Calls] /\ Others(c) /\ call'[c].at = "ABORT"
          /\ call'[c].key = call[c].key
      BY <2>1, GoingOn DEF PHASES
    <2>5. ~ Writing(c)' /\ ~ Reading(c)'  BY <2>4 DEF Writing, Reading
    <2> QED  BY <2>1, <2>3, <2>4, <2>5, <1>k, QuietStep
  <1>4. CASE Commit(c)
    <2> DEFINE phase == IF call[c].bytes = << >> THEN "ABORT" ELSE "STAGE"
    <2>1. Goes(c, phase) /\ UNCHANGED_FILES /\ call[c].at = "STREAM" /\ part' = part
      BY <1>4 DEF Commit, At
    <2>2. phase \in {"ABORT", "STAGE"}  OBVIOUS
    <2>3. phase \in PHASES  BY <2>2 DEF PHASES
    <2> HIDE DEF phase
    <2>4. call' \in [Call -> Calls] /\ Others(c) /\ call'[c].at = phase
          /\ call'[c].key = call[c].key
      BY <2>1, <2>3, GoingOn
    <2>5. ~ Writing(c)' /\ ~ Reading(c)'  BY <2>2, <2>4 DEF Writing, Reading
    <2>6. part' \in [Call -> Seq(Piece)]  BY <2>1 DEF TypeOK
    <2> QED  BY <2>1, <2>4, <2>5, <2>6, <1>k, QuietStep
  <1>5. CASE AbortUpload(c)
    <2>1. call' = [call EXCEPT ![c] = Idle] /\ UNCHANGED_FILES
          /\ part' = [part EXCEPT ![c] = << >>]
      BY <1>5 DEF AbortUpload, UploadIsRemoved
    <2>2. call' \in [Call -> Calls] /\ Others(c) /\ call'[c].at = "IDLE"  BY <2>1, Ending
    <2>3. ~ Writing(c)' /\ ~ Reading(c)'  BY <2>2 DEF Writing, Reading
    <2>4. part' \in [Call -> Seq(Piece)]  BY <2>1, <1>e DEF TypeOK
    <2> QED  BY <2>1, <2>2, <2>3, <2>4, QuietStep
  <1>6. CASE RemoveUpload(c)
    <2>1. Goes(c, "PUBLISHED") /\ UNCHANGED_FILES /\ call[c].at = "STORED"
          /\ part' = [part EXCEPT ![c] = << >>]
      BY <1>6 DEF RemoveUpload, UploadIsRemoved, At
    <2>2. call' \in [Call -> Calls] /\ Others(c) /\ call'[c].at = "PUBLISHED"
          /\ call'[c].key = call[c].key
      BY <2>1, GoingOn DEF PHASES
    <2>3. ~ Writing(c)' /\ ~ Reading(c)'  BY <2>2 DEF Writing, Reading
    <2>4. part' \in [Call -> Seq(Piece)]  BY <2>1, <1>e DEF TypeOK
    <2> QED  BY <2>1, <2>2, <2>3, <2>4, <1>k, QuietStep
  <1> QED  BY <1>1, <1>2, <1>3, <1>4, <1>5, <1>6 DEF Transfers

LEMMA StoresBegin ==
  ASSUME IInv, NEW c \in Call, NEW key \in Key, NEW bytes \in Seq(Piece),
         PutObject(c, key, bytes) \/ PutObjectIfAbsent(c, key, bytes)
  PROVE  IInv'
  <1> TypeOK  BY DEF IInv
  <1>1. PICK op \in {"PUT", "PUT_IF_ABSENT"} : Begin(c, op, key, bytes, "STAGE")
    BY DEF PutObject, PutObjectIfAbsent
  <1>2. UNCHANGED_FILES /\ part' = part  BY DEF PutObject, PutObjectIfAbsent
  <1>3. op \in OPS /\ "STAGE" \in PHASES  BY DEF OPS, PHASES
  <1>4. call' \in [Call -> Calls] /\ Others(c) /\ call'[c].at = "STAGE" /\ call'[c].key = key
    BY <1>1, <1>3, Beginning
  <1>5. ~ Writing(c)' /\ ~ Reading(c)'  BY <1>4 DEF Writing, Reading
  <1> QED  BY <1>2, <1>4, <1>5, QuietStep DEF TypeOK

\* A new file is nobody's yet.
LEMMA StageFileKeepsIt ==
  ASSUME IInv, NEW c \in Call, NEW f \in File, StageFile(c, f)  PROVE IInv'
  <1> TypeOK  BY DEF IInv
  <1>1. /\ call[c].at = "STAGE" /\ f \notin made /\ made' = made \cup {f}
        /\ file' = [file EXCEPT ![f] = << >>] /\ object' = object /\ part' = part
        /\ call' = [call EXCEPT ![c].at = "WRITE", ![c].file = f]
    BY DEF StageFile, At
  <1>2. f # NoFile  BY NoSetContainsEverything DEF NoFile
  <1>3. /\ call' \in [Call -> Calls] /\ Others(c) /\ call'[c].at = "WRITE"
        /\ call'[c].file = f /\ call'[c].key = call[c].key /\ call'[c].bytes = call[c].bytes
    BY <1>1 DEF TypeOK, Calls, PHASES, Others
  <1>4. << >> \in Seq(Piece)  OBVIOUS
  <1>5. file' \in [File -> Seq(Piece)] /\ file'[f] = << >>
        /\ \A g \in File \ {f} : file'[g] = file[g]
    BY <1>1, <1>4 DEF TypeOK
  <1>6. TypeOK'  BY <1>1, <1>3, <1>5 DEF TypeOK
  <1>7. \A k \in Key : object[k] # f  BY <1>1, <1>2 DEF IInv, NamedFilesAreMade
  <1>8. \A d \in Call : Writing(d) \/ Reading(d) => call[d].file \in made /\ call[d].file # f
    BY <1>1 DEF IInv, WritersAreAlone, ReadSoFar
  <1>9. \A d \in Call \ {c} :
          (Writing(d)' <=> Writing(d)) /\ (Reading(d)' <=> Reading(d)) /\ call'[d] = call[d]
    BY <1>3 DEF Others, Writing, Reading
  <1>10. Writing(c)' /\ ~ Reading(c)'  BY <1>3 DEF Writing, Reading
  <1>11. BusyCallsHaveAKey'  BY <1>1, <1>3 DEF IInv, BusyCallsHaveAKey, Others
  <1>12. NamedFilesAreMade'  BY <1>1 DEF IInv, NamedFilesAreMade
  <1>13. WritersAreAlone'
    <2>1. \A d \in Call : Writing(d)' => call'[d].file \in made'
      BY <1>1, <1>3, <1>8, <1>9
    <2>2. \A d \in Call : Writing(d)' => \A k \in Key : object'[k] # call'[d].file
      BY <1>1, <1>3, <1>7, <1>9 DEF IInv, WritersAreAlone
    <2>3. \A d \in Call : \A e \in Call \ {d} :
            Writing(d)' /\ (Writing(e)' \/ Reading(e)') => call'[e].file # call'[d].file
      BY <1>3, <1>8, <1>9 DEF IInv, WritersAreAlone
    <2> QED  BY <2>1, <2>2, <2>3 DEF WritersAreAlone
  <1>14. WrittenSoFar'
    <2>1. Prefix(file'[f], call'[c].bytes)
      BY <1>3, <1>5, LenProperties DEF Prefix, TypeOK, Calls
    <2>2. \A d \in Call \ {c} : Writing(d) => file'[call[d].file] = file[call[d].file]
      BY <1>5, <1>8 DEF TypeOK
    <2> QED  BY <1>3, <1>9, <2>1, <2>2 DEF WrittenSoFar, IInv
  <1>15. ReadSoFar'
    <2>1. \A d \in Call : Reading(d)' => d # c /\ Reading(d)  BY <1>9, <1>10
    <2>2. \A d \in Call : Reading(d) => file'[call[d].file] = file[call[d].file]
      BY <1>5, <1>8 DEF TypeOK
    <2>3. \A d \in Call : Reading(d)' =>
            /\ call'[d] = call[d] /\ file'[call'[d].file] = file[call[d].file]
            /\ call[d].file \in made /\ Prefix(call[d].seen, file[call[d].file])
            /\ call[d].at = "RETURNED" => call[d].seen = file[call[d].file]
      BY <1>9, <2>1, <2>2 DEF ReadSoFar, IInv
    <2>4. made \subseteq made'  BY <1>1
    <2> QED  BY <2>3, <2>4 DEF ReadSoFar, Prefix
  <1> QED  BY <1>6, <1>11, <1>12, <1>13, <1>14, <1>15 DEF IInv

\* A step by which a writer or a reader goes on, and no file or key changes.
LEMMA ReadsOn ==
  ASSUME IInv, NEW c \in Call, UNCHANGED_FILES, part' = part,
         call' \in [Call -> Calls], Others(c), call'[c].key \in Key,
         ~ Writing(c)', Reading(c)',
         call'[c].file \in made,
         \A d \in Call \ {c} : Writing(d) => call[d].file # call'[c].file,
         Prefix(call'[c].seen, file[call'[c].file]),
         call'[c].at = "RETURNED" => call'[c].seen = file[call'[c].file]
  PROVE  IInv'
  <1>1. file' = file /\ made' = made /\ object' = object  BY DEF UNCHANGED_FILES
  <1>2. TypeOK'  BY <1>1 DEF IInv, TypeOK
  <1>3. \A d \in Call \ {c} :
          (Writing(d)' <=> Writing(d)) /\ (Reading(d)' <=> Reading(d)) /\ call'[d] = call[d]
    BY DEF Others, Writing, Reading
  <1>4. BusyCallsHaveAKey'  BY DEF IInv, BusyCallsHaveAKey, Others
  <1>5. NamedFilesAreMade'  BY <1>1 DEF IInv, NamedFilesAreMade
  <1>6. WritersAreAlone'  BY <1>1, <1>3 DEF IInv, WritersAreAlone
  <1>7. WrittenSoFar'  BY <1>1, <1>3 DEF IInv, WrittenSoFar
  <1>8. ReadSoFar'  BY <1>1, <1>3 DEF IInv, ReadSoFar
  <1> QED  BY <1>2, <1>4, <1>5, <1>6, <1>7, <1>8 DEF IInv

\* A writer adds the next of its pieces to its own file.
LEMMA WritePieceKeepsIt ==
  ASSUME IInv, NEW c \in Call, WritePiece(c)  PROVE IInv'
  <1> TypeOK  BY DEF IInv
  <1> DEFINE f == call[c].file
             n == Len(file[f]) + 1
             bytes == call[c].bytes
             more == Append(file[f], bytes[n])
  <1>1. /\ call[c].at = "WRITE" /\ n <= Len(bytes) /\ file' = [file EXCEPT ![f] = more]
        /\ made' = made /\ object' = object /\ part' = part /\ call' = call
    BY DEF WritePiece, At
  <1>2. Writing(c) /\ f \in made /\ f \in File
    BY <1>1 DEF Writing, IInv, WritersAreAlone, TypeOK
  <1>3. file[f] \in Seq(Piece) /\ bytes \in Seq(Piece)  BY <1>2 DEF TypeOK, Calls
  <1>4. n \in 1 .. Len(bytes) /\ Len(file[f]) \in Nat  BY <1>1, <1>3, LenProperties
  <1>5. more \in Seq(Piece) /\ Len(more) = n
        /\ \A i \in 1 .. n : more[i] = IF i = n THEN bytes[n] ELSE file[f][i]
    BY <1>3, <1>4, ElementOfSeq, AppendProperties
  <1>6. Prefix(file[f], bytes)  BY <1>2 DEF IInv, WrittenSoFar
  <1>7. Prefix(more, bytes)
    <2>1. \A i \in 1 .. n : i # n => i \in 1 .. Len(file[f])  BY <1>4
    <2> QED  BY <1>4, <1>5, <1>6, <2>1 DEF Prefix
  <1> HIDE DEF more
  <1>8. file' \in [File -> Seq(Piece)] /\ file'[f] = more
        /\ \A g \in File \ {f} : file'[g] = file[g]
    BY <1>1, <1>2, <1>5 DEF TypeOK
  <1>9. TypeOK'  BY <1>1, <1>8 DEF TypeOK
  <1>10. \A d \in Call \ {c} : Writing(d) \/ Reading(d) => file'[call[d].file] = file[call[d].file]
    BY <1>2, <1>8 DEF IInv, WritersAreAlone, ReadSoFar, TypeOK
  <1>11. \A d \in Call : (Writing(d)' <=> Writing(d)) /\ (Reading(d)' <=> Reading(d))
    BY <1>1 DEF Writing, Reading
  <1>12. BusyCallsHaveAKey' /\ NamedFilesAreMade'
    BY <1>1 DEF IInv, BusyCallsHaveAKey, NamedFilesAreMade
  <1>13. WritersAreAlone'  BY <1>1, <1>11 DEF IInv, WritersAreAlone
  <1>14. WrittenSoFar'
    <2>1. \A d \in Call \ {c} : Writing(d) =>
            /\ Prefix(file'[call'[d].file], call'[d].bytes)
            /\ call'[d].at = "PUBLISH" => file'[call'[d].file] = call'[d].bytes
      BY <1>1, <1>10 DEF IInv, WrittenSoFar
    <2>2. Prefix(file'[call'[c].file], call'[c].bytes) /\ call'[c].at # "PUBLISH"
      BY <1>1, <1>7, <1>8
    <2> QED  BY <1>11, <2>1, <2>2 DEF WrittenSoFar
  <1>15. ReadSoFar'
    <2>1. ~ Reading(c)  BY <1>1 DEF Reading
    <2>2. \A d \in Call : Reading(d) =>
            /\ call'[d] = call[d] /\ file'[call'[d].file] = file[call[d].file]
            /\ call[d].file \in made /\ Prefix(call[d].seen, file[call[d].file])
            /\ call[d].at = "RETURNED" => call[d].seen = file[call[d].file]
      BY <1>1, <1>10, <2>1 DEF IInv, ReadSoFar
    <2> QED  BY <1>1, <1>11, <2>2 DEF ReadSoFar, Prefix
  <1> QED  BY <1>9, <1>12, <1>13, <1>14, <1>15 DEF IInv

LEMMA AllWrittenKeepsIt ==
  ASSUME IInv, NEW c \in Call, AllWritten(c)  PROVE IInv'
  <1> TypeOK  BY DEF IInv
  <1> DEFINE f == call[c].file
  <1>1. /\ call[c].at = "WRITE" /\ Len(file[f]) = Len(call[c].bytes) /\ Goes(c, "PUBLISH")
        /\ part' = part /\ file' = file /\ made' = made /\ object' = object
    BY DEF AllWritten, At, UNCHANGED_FILES
  <1>2. Writing(c) /\ f \in made /\ f \in File /\ Prefix(file[f], call[c].bytes)
    BY <1>1 DEF Writing, IInv, WritersAreAlone, TypeOK, WrittenSoFar
  <1>3. file[f] \in Seq(Piece) /\ call[c].bytes \in Seq(Piece)  BY <1>2 DEF TypeOK, Calls
  <1>4. file[f] = call[c].bytes  BY <1>1, <1>2, <1>3, SeqEqual DEF Prefix
  <1>5. /\ call' \in [Call -> Calls] /\ Others(c) /\ call'[c].at = "PUBLISH"
        /\ call'[c].key = call[c].key /\ call'[c].bytes = call[c].bytes
        /\ call'[c].file = call[c].file
    BY <1>1, GoingOn DEF PHASES
  <1>6. \A d \in Call : (Writing(d)' <=> Writing(d)) /\ (Reading(d)' <=> Reading(d))
                         /\ call'[d].file = call[d].file
    BY <1>1, <1>5 DEF Others, Writing, Reading
  <1>7. TypeOK'  BY <1>1, <1>5 DEF TypeOK
  <1>8. BusyCallsHaveAKey'  BY <1>1, <1>5 DEF IInv, BusyCallsHaveAKey, Others
  <1>9. NamedFilesAreMade'  BY <1>1 DEF IInv, NamedFilesAreMade
  <1>10. WritersAreAlone'  BY <1>1, <1>6 DEF IInv, WritersAreAlone
  <1>11. WrittenSoFar'  BY <1>1, <1>2, <1>4, <1>5, <1>6 DEF IInv, WrittenSoFar, Others
  <1>12. ReadSoFar'
    <2>1. ~ Reading(c)  BY <1>1 DEF Reading
    <2> QED  BY <1>1, <1>5, <1>6, <2>1 DEF IInv, ReadSoFar, Others
  <1> QED  BY <1>7, <1>8, <1>9, <1>10, <1>11, <1>12 DEF IInv

\* A file is named when it is whole, and nobody writes to it from then on.
LEMMA PublishingKeepsIt ==
  ASSUME IInv, NEW c \in Call, replace(c) \/ publishIfAbsent(c)  PROVE IInv'
  <1> TypeOK  BY DEF IInv
  <1> DEFINE f == call[c].file
             key == call[c].key
  <1>1. /\ call[c].at = "PUBLISH" /\ object' = [object EXCEPT ![key] = f] /\ Goes(c, "STORED")
        /\ part' = part /\ file' = file /\ made' = made
    BY DEF replace, publishIfAbsent, At, Names
  <1>2. Writing(c) /\ f \in made /\ f \in File /\ key \in Key
    BY <1>1 DEF Writing, IInv, WritersAreAlone, TypeOK, BusyCallsHaveAKey
  <1>3. /\ call' \in [Call -> Calls] /\ Others(c) /\ call'[c].at = "STORED"
        /\ call'[c].key = key
    BY <1>1, GoingOn DEF PHASES
  <1>4. ~ Writing(c)' /\ ~ Reading(c)'  BY <1>3 DEF Writing, Reading
  <1>5. \A d \in Call \ {c} :
          (Writing(d)' <=> Writing(d)) /\ (Reading(d)' <=> Reading(d)) /\ call'[d] = call[d]
    BY <1>3 DEF Others, Writing, Reading
  <1>6. object' \in [Key -> File \cup {NoFile}]
        /\ \A k \in Key : object'[k] = IF k = key THEN f ELSE object[k]
    BY <1>1, <1>2 DEF TypeOK
  <1>7. TypeOK'  BY <1>1, <1>3, <1>6 DEF TypeOK
  <1>8. BusyCallsHaveAKey'  BY <1>2, <1>3, <1>5 DEF IInv, BusyCallsHaveAKey
  <1>9. NamedFilesAreMade'  BY <1>1, <1>2, <1>6 DEF IInv, NamedFilesAreMade
  <1>10. \A d \in Call \ {c} : Writing(d) => call[d].file # f
    BY <1>2 DEF IInv, WritersAreAlone
  <1>11. WritersAreAlone'
    <2>1. \A d \in Call \ {c} : Writing(d) =>
            call'[d].file \in made' /\ \A k \in Key : object'[k] # call'[d].file
      BY <1>1, <1>5, <1>6, <1>10 DEF IInv, WritersAreAlone
    <2>2. \A d \in Call \ {c} : \A e \in Call \ {d, c} :
            Writing(d) /\ (Writing(e) \/ Reading(e)) => call'[e].file # call'[d].file
      BY <1>5 DEF IInv, WritersAreAlone
    <2> QED  BY <1>4, <1>5, <2>1, <2>2 DEF WritersAreAlone
  <1>12. WrittenSoFar'  BY <1>1, <1>4, <1>5 DEF IInv, WrittenSoFar
  <1>13. ReadSoFar'  BY <1>1, <1>4, <1>5 DEF IInv, ReadSoFar
  <1> QED  BY <1>7, <1>8, <1>9, <1>11, <1>12, <1>13 DEF IInv

LEMMA RefusalsKeepIt ==
  ASSUME IInv, NEW c \in Call, InvalidPart(c) \/ PreconditionFailed(c)  PROVE IInv'
  <1> TypeOK  BY DEF IInv
  <1>1. PICK phase \in {"ABORT", "OPEN", "EXISTS"} : Goes(c, phase)
    BY DEF InvalidPart, PreconditionFailed
  <1>2. UNCHANGED_FILES /\ call[c].at # "IDLE"  BY DEF InvalidPart, PreconditionFailed, At
  <1>3. part' \in [Call -> Seq(Piece)]
    <2>1. << >> \in Seq(Piece)  OBVIOUS
    <2> QED  BY <2>1 DEF InvalidPart, PreconditionFailed, UploadIsRemoved, TypeOK
  <1>4. call' \in [Call -> Calls] /\ Others(c) /\ call'[c].at = phase
        /\ call'[c].key = call[c].key
    BY <1>1, GoingOn DEF PHASES
  <1>5. ~ Writing(c)' /\ ~ Reading(c)'  BY <1>4 DEF Writing, Reading
  <1>6. call[c].key \in Key  BY <1>2 DEF IInv, BusyCallsHaveAKey
  <1> QED  BY <1>2, <1>3, <1>4, <1>5, <1>6, QuietStep

LEMMA ReadsKeepIt ==
  ASSUME IInv, NEW c \in Call, Reads(c)  PROVE IInv'
  <1> TypeOK  BY DEF IInv
  <1>k. call[c].at # "IDLE" => call[c].key \in Key  BY DEF IInv, BusyCallsHaveAKey
  <1>e. << >> \in Seq(Piece)  OBVIOUS
  <1>1. CASE \E key \in Key : GetObject(c, key)
    <2> PICK key \in Key : GetObject(c, key)  BY <1>1
    <2>1. Begin(c, "READ", key, << >>, "OPEN") /\ UNCHANGED_FILES /\ part' = part
      BY DEF GetObject
    <2>2. "READ" \in OPS /\ "OPEN" \in PHASES  BY DEF OPS, PHASES
    <2>3. call' \in [Call -> Calls] /\ Others(c) /\ call'[c].at = "OPEN" /\ call'[c].key = key
      BY <2>1, <2>2, <1>e, Beginning
    <2>4. ~ Writing(c)' /\ ~ Reading(c)'  BY <2>3 DEF Writing, Reading
    <2> QED  BY <2>1, <2>3, <2>4, QuietStep DEF TypeOK
  <1>2. CASE openRead(c)
    <2> DEFINE f == object[call[c].key]
    <2>1. /\ call[c].at = "OPEN" /\ f # NoFile /\ UNCHANGED_FILES /\ part' = part
          /\ call' = [call EXCEPT ![c].at = "READ", ![c].file = f, ![c].seen = << >>]
      BY <1>2 DEF openRead, At
    <2>2. call[c].key \in Key  BY <1>k, <2>1
    <2>3. f \in File /\ f \in made  BY <2>1, <2>2 DEF IInv, NamedFilesAreMade, TypeOK
    <2> HIDE DEF f
    <2>4. /\ call' \in [Call -> Calls] /\ Others(c) /\ call'[c].at = "READ"
          /\ call'[c].file = f /\ call'[c].seen = << >> /\ call'[c].key = call[c].key
      BY <2>1, <2>3, <1>e DEF TypeOK, Calls, PHASES, Others
    <2>5. ~ Writing(c)' /\ Reading(c)'  BY <2>4 DEF Writing, Reading
    <2>6. \A d \in Call \ {c} : Writing(d) => call[d].file # f
      BY <2>2 DEF IInv, WritersAreAlone, f
    <2>7. Prefix(<< >>, file[f])  BY <2>3, LenProperties DEF Prefix, TypeOK
    <2> QED  BY <2>1, <2>2, <2>3, <2>4, <2>5, <2>6, <2>7, ReadsOn
  <1>3. CASE ReadPiece(c)
    <2> DEFINE f == call[c].file
               n == Len(call[c].seen) + 1
               more == Append(call[c].seen, file[f][n])
    <2>1. /\ call[c].at = "READ" /\ n <= Len(file[f]) /\ UNCHANGED_FILES /\ part' = part
          /\ call' = [call EXCEPT ![c].seen = more]
      BY <1>3 DEF ReadPiece, At
    <2>2. Reading(c) /\ f \in made /\ f \in File /\ Prefix(call[c].seen, file[f])
      BY <2>1 DEF Reading, IInv, ReadSoFar, TypeOK
    <2>3. file[f] \in Seq(Piece) /\ call[c].seen \in Seq(Piece)  BY <2>2 DEF TypeOK, Calls
    <2>4. n \in 1 .. Len(file[f]) /\ Len(call[c].seen) \in Nat  BY <2>1, <2>3, LenProperties
    <2>5. more \in Seq(Piece) /\ Len(more) = n
          /\ \A i \in 1 .. n : more[i] = IF i = n THEN file[f][n] ELSE call[c].seen[i]
      BY <2>3, <2>4, ElementOfSeq, AppendProperties
    <2>6. Prefix(more, file[f])
      <3>1. \A i \in 1 .. n : i # n => i \in 1 .. Len(call[c].seen)  BY <2>4
      <3> QED  BY <2>2, <2>4, <2>5, <3>1 DEF Prefix
    <2> HIDE DEF more
    <2>7. /\ call' \in [Call -> Calls] /\ Others(c) /\ call'[c].at = "READ"
          /\ call'[c].file = f /\ call'[c].seen = more /\ call'[c].key = call[c].key
      BY <2>1, <2>5 DEF TypeOK, Calls, Others
    <2>8. ~ Writing(c)' /\ Reading(c)'  BY <2>7 DEF Writing, Reading
    <2>9. \A d \in Call \ {c} : Writing(d) => call[d].file # f
      BY <2>2 DEF IInv, WritersAreAlone
    <2>10. call'[c].at # "RETURNED" /\ call'[c].key \in Key  BY <1>k, <2>1, <2>7
    <2>11. Prefix(call'[c].seen, file[call'[c].file])  BY <2>6, <2>7
    <2>12. call'[c].file \in made /\ \A d \in Call \ {c} : Writing(d) => call[d].file # call'[c].file
      BY <2>2, <2>7, <2>9
    <2> QED  BY <2>1, <2>7, <2>8, <2>10, <2>11, <2>12, ReadsOn
  <1>4. CASE ReadEnds(c)
    <2> DEFINE f == call[c].file
    <2>1. /\ call[c].at = "READ" /\ Len(call[c].seen) = Len(file[f]) /\ UNCHANGED_FILES
          /\ part' = part /\ Goes(c, "RETURNED")
      BY <1>4 DEF ReadEnds, At
    <2>2. Reading(c) /\ f \in made /\ f \in File /\ Prefix(call[c].seen, file[f])
      BY <2>1 DEF Reading, IInv, ReadSoFar, TypeOK
    <2>3. file[f] \in Seq(Piece) /\ call[c].seen \in Seq(Piece)  BY <2>2 DEF TypeOK, Calls
    <2>4. call[c].seen = file[f]  BY <2>1, <2>2, <2>3, SeqEqual DEF Prefix
    <2>5. /\ call' \in [Call -> Calls] /\ Others(c) /\ call'[c].at = "RETURNED"
          /\ call'[c].file = f /\ call'[c].seen = call[c].seen /\ call'[c].key = call[c].key
      BY <2>1, GoingOn DEF PHASES
    <2>6. ~ Writing(c)' /\ Reading(c)'  BY <2>5 DEF Writing, Reading
    <2>7. \A d \in Call \ {c} : Writing(d) => call[d].file # f
      BY <2>2 DEF IInv, WritersAreAlone
    <2>8. call'[c].key \in Key  BY <1>k, <2>1, <2>5
    <2> QED  BY <2>1, <2>2, <2>4, <2>5, <2>6, <2>7, <2>8, ReadsOn
  <1> QED  BY <1>1, <1>2, <1>3, <1>4 DEF Reads

LEMMA DeletingKeepsIt ==
  ASSUME IInv, NEW key \in Key, DeleteObject(key)  PROVE IInv'
  <1>1. /\ object' = [object EXCEPT ![key] = NoFile]
        /\ file' = file /\ made' = made /\ part' = part /\ call' = call
    BY DEF DeleteObject
  <1>2. /\ object' \in [Key -> File \cup {NoFile}]
        /\ \A k \in Key : object'[k] = object[k] \/ object'[k] = NoFile
    BY <1>1 DEF IInv, TypeOK
  <1>3. TypeOK'  BY <1>1, <1>2 DEF IInv, TypeOK
  <1>4. \A c \in Call : (Writing(c)' <=> Writing(c)) /\ (Reading(c)' <=> Reading(c))
    BY <1>1 DEF Writing, Reading
  <1>5. BusyCallsHaveAKey'  BY <1>1 DEF IInv, BusyCallsHaveAKey
  <1>6. NamedFilesAreMade'  BY <1>1, <1>2 DEF IInv, NamedFilesAreMade
  <1>7. \A c \in Call : call[c].file \in made => call[c].file # NoFile
    BY NoSetContainsEverything DEF IInv, TypeOK, NoFile
  <1>8. WritersAreAlone'  BY <1>1, <1>2, <1>4, <1>7 DEF IInv, WritersAreAlone
  <1>9. WrittenSoFar'  BY <1>1, <1>4 DEF IInv, WrittenSoFar
  <1>10. ReadSoFar'  BY <1>1, <1>4 DEF IInv, ReadSoFar
  <1> QED  BY <1>3, <1>5, <1>6, <1>8, <1>9, <1>10 DEF IInv

\* Every step keeps the invariant.
LEMMA StepKeepsIt == IInv /\ [Next]_vars => IInv'
  <1> SUFFICES ASSUME IInv, [Next]_vars PROVE IInv'  OBVIOUS
  <1>1. CASE UNCHANGED vars
    BY <1>1 DEF vars, IInv, TypeOK, BusyCallsHaveAKey, NamedFilesAreMade, WritersAreAlone,
       WrittenSoFar, ReadSoFar, Writing, Reading
  <1>2. ASSUME NEW key \in Key, DeleteObject(key) PROVE IInv'  BY <1>2, DeletingKeepsIt
  <1>3. ASSUME NEW c \in Call, CallEnds(c) \/ Transfers(c) \/ Stores(c) \/ Reads(c) PROVE IInv'
    <2>1. CASE Stores(c)
      BY <2>1, StoresBegin, StageFileKeepsIt, WritePieceKeepsIt, AllWrittenKeepsIt,
         PublishingKeepsIt, RefusalsKeepIt DEF Stores
    <2> QED  BY <1>3, <2>1, CallEndsKeepsIt, TransfersKeepIt, ReadsKeepIt
  <1> QED  BY <1>1, <1>2, <1>3 DEF Next

\* Always: a file being written belongs to its writer alone, holds what it was asked to
\* store, and every reader has what its file holds, as far as it got.
THEOREM Invariant == Spec => []IInv
  <1> QED  BY Initially, StepKeepsIt, PTL DEF Spec

-----------------------------------------------------------------------------
(***************************************************************************)
(* The refinement.                                                         *)
(***************************************************************************)

\* No other call than c changes what it asks for, holds or was told.
Alone(c) ==
  \A d \in Call \ {c} : Wanted(d)' = Wanted(d) /\ Opened(d)' = Opened(d) /\ Told(d)' = Told(d)

LEMMA OneCallMoves ==
  ASSUME NEW c \in Call, Alone(c)
  PROVE  /\ wanted' = [wanted EXCEPT ![c] = Wanted(c)']
         /\ opened' = [opened EXCEPT ![c] = Opened(c)']
         /\ told' = [told EXCEPT ![c] = Told(c)']
         /\ wanted[c] = Wanted(c) /\ opened[c] = Opened(c) /\ told[c] = Told(c)
  <1>1. /\ wanted' = [d \in Call |-> Wanted(d)'] /\ opened' = [d \in Call |-> Opened(d)']
        /\ told' = [d \in Call |-> Told(d)']
    BY DEF wanted, opened, told
  <1>2. wanted' = [wanted EXCEPT ![c] = Wanted(c)']  BY <1>1 DEF wanted, Alone
  <1>3. opened' = [opened EXCEPT ![c] = Opened(c)']  BY <1>1 DEF opened, Alone
  <1>4. told' = [told EXCEPT ![c] = Told(c)']  BY <1>1 DEF told, Alone
  <1> QED  BY <1>2, <1>3, <1>4 DEF wanted, opened, told

LEMMA OthersAreAlone ==
  ASSUME NEW c \in Call, Others(c), file' = file
  PROVE  Alone(c)
  BY DEF Others, Alone, Wanted, Opened, Told, Asking, Reading

LEMMA SameContents ==
  ASSUME file' = file, object' = object
  PROVE  contents' = contents
  BY DEF contents, Content

\* A call that asks for nothing, holds nothing and is told nothing afterwards left.
LEMMA Leaving ==
  ASSUME NEW c \in Call, Alone(c), contents' = contents,
         Wanted(c)' = {}, Opened(c)' = {}, Told(c)' = {}
  PROVE  Contract!ContractNext
  <1>1. Contract!Leave(c)  BY OneCallMoves DEF Contract!Leave
  <1> QED  BY <1>1 DEF Contract!ContractNext

LEMMA Stuttering ==
  ASSUME NEW c \in Call, Alone(c), contents' = contents,
         Wanted(c)' = Wanted(c), Opened(c)' = Opened(c), Told(c)' = Told(c)
  PROVE  UNCHANGED Contract!promised
  <1>1. wanted' = wanted /\ opened' = opened /\ told' = told
    BY DEF Alone, wanted, opened, told
  <1> QED  BY <1>1 DEF Contract!promised

LEMMA Asks ==
  ASSUME NEW c \in Call, Alone(c), contents' = contents, Wanted(c) = {},
         NEW k \in Key, NEW v \in Seq(Piece), NEW over \in BOOLEAN,
         Wanted(c)' = {[key |-> k, value |-> v, over |-> over]},
         Opened(c)' = Opened(c), Told(c)' = Told(c)
  PROVE  Contract!ContractNext
  <1>1. wanted' = [wanted EXCEPT ![c] = {[key |-> k, value |-> v, over |-> over]}]
    BY OneCallMoves
  <1>2. wanted[c] = {} /\ opened' = opened /\ told' = told
    BY DEF Alone, wanted, opened, told
  <1>3. Contract!Ask(c)  BY <1>1, <1>2 DEF Contract!Ask
  <1> QED  BY <1>3 DEF Contract!ContractNext

LEMMA StoreStepsAreThere ==
  ASSUME IInv, NEW c \in Call, replace(c) \/ publishIfAbsent(c)
  PROVE  Contract!ContractNext
  <1> TypeOK  BY DEF IInv
  <1>0. call[c].at = "PUBLISH" /\ call[c].key \in Key
    BY DEF replace, publishIfAbsent, At, IInv, BusyCallsHaveAKey
  <1>a. PICK key \in Key : key = call[c].key  BY <1>0
  <1> DEFINE f == call[c].file
             a == [key |-> key, value |-> call[c].bytes, over |-> (call[c].op = "PUT")]
             put == [key |-> key, value |-> call[c].bytes]
  <1>1. /\ call[c].at = "PUBLISH" /\ object' = [object EXCEPT ![key] = f] /\ Goes(c, "STORED")
        /\ file' = file
        /\ call[c].op = "PUT" \/ object[key] = NoFile
    BY <1>a DEF replace, publishIfAbsent, At, Names
  <1>2. Writing(c) /\ f \in File /\ file[f] = call[c].bytes /\ f # NoFile
    <2>1. Writing(c)  BY <1>1 DEF Writing
    <2>2. f \in File /\ file[f] = call[c].bytes
      BY <1>1, <2>1 DEF IInv, WritersAreAlone, WrittenSoFar, TypeOK
    <2> QED  BY <2>1, <2>2, NoSetContainsEverything DEF NoFile
  <1>3. /\ Others(c) /\ call'[c].at = "STORED" /\ call'[c].key = key
        /\ call'[c].bytes = call[c].bytes
    BY <1>a, <1>1, GoingOn DEF PHASES
  <1>4. Alone(c)  BY <1>1, <1>3, OthersAreAlone
  <1>5. Wanted(c)' = {} /\ Opened(c)' = {} /\ Opened(c) = {}
    BY <1>1, <1>3 DEF Wanted, Opened, Asking, Reading
  <1>6. Told(c)' = {put}  BY <1>3 DEF Told
  <1>7. Wanted(c) = {a}  BY <1>a, <1>1 DEF Wanted, Asking
  <1>8. contents' = [contents EXCEPT ![key] = {call[c].bytes}]
    <2>1. \A k \in Key : object'[k] = IF k = key THEN f ELSE object[k]  BY <1>1, <1>2 DEF TypeOK
    <2>2. \A k \in Key \ {key} : Content(k)' = Content(k)  BY <1>1, <2>1 DEF Content
    <2>3. Content(key)' = {call[c].bytes}  BY <1>1, <1>2, <2>1 DEF Content
    <2>4. contents' = [k \in Key |-> Content(k)']  BY DEF contents
    <2> QED  BY <2>2, <2>3, <2>4 DEF contents
  <1>9. a.over \/ contents[a.key] = {}  BY <1>1, <1>2 DEF contents, Content
  <1>10. wanted[c] = {a} /\ wanted' = [wanted EXCEPT ![c] = {}]
         /\ told' = [told EXCEPT ![c] = {put}] /\ opened' = opened
    <2>1. opened' = opened  BY <1>4, <1>5 DEF Alone, opened
    <2> HIDE DEF a, put
    <2> QED  BY <1>4, <1>5, <1>6, <1>7, <2>1, OneCallMoves
  <1>11. a.key = key /\ a.value = call[c].bytes /\ put = [key |-> a.key, value |-> a.value]
    OBVIOUS
  <1>12. Contract!Put(c)
    <2> HIDE DEF a, put
    <2> QED  BY <1>8, <1>9, <1>10, <1>11 DEF Contract!Put
  <1> QED  BY <1>12 DEF Contract!ContractNext

Implemented == Contract!ContractNext \/ UNCHANGED Contract!promised

\* What a call that keeps the files as they are must show for its step.
LEMMA LeavingQuietly ==
  ASSUME NEW c \in Call, UNCHANGED_FILES, Others(c),
         call'[c].at \in {"IDLE", "STREAM", "ABORT", "EXISTS", "OPEN"}
  PROVE  Implemented
  <1>1. file' = file /\ object' = object  BY DEF UNCHANGED_FILES
  <1>2. Wanted(c)' = {} /\ Opened(c)' = {} /\ Told(c)' = {}
    BY DEF Wanted, Opened, Told, Asking, Reading
  <1> QED  BY <1>1, <1>2, OthersAreAlone, SameContents, Leaving DEF Implemented

LEMMA StreamAsks ==
  ASSUME IInv, NEW c \in Call, UNCHANGED_FILES, Others(c),
         call[c].at \in {"IDLE", "STREAM"}, call'[c].at = "STAGE",
         call'[c].key \in Key, call'[c].bytes \in Seq(Piece)
  PROVE  Implemented
  <1>1. file' = file /\ object' = object  BY DEF UNCHANGED_FILES
  <1>2. Wanted(c) = {} /\ Opened(c) = {} /\ Told(c) = {} /\ Opened(c)' = {} /\ Told(c)' = {}
    BY DEF Wanted, Opened, Told, Asking, Reading
  <1>3. PICK key \in Key, bytes \in Seq(Piece), over \in BOOLEAN :
          key = call'[c].key /\ bytes = call'[c].bytes /\ over = (call'[c].op = "PUT")
    OBVIOUS
  <1>4. Wanted(c)' = {[key |-> key, value |-> bytes, over |-> over]}
    BY <1>3 DEF Wanted, Asking
  <1> QED  BY <1>1, <1>2, <1>4, OthersAreAlone, SameContents, Asks DEF Implemented

LEMMA TransfersAreThere ==
  ASSUME IInv, NEW c \in Call, Transfers(c)  PROVE Implemented
  <1> TypeOK  BY DEF IInv
  <1>1. CASE \E key \in Key : BeginTransfer(c, key)
    <2> PICK key \in Key : BeginTransfer(c, key)  BY <1>1
    <2>1. Begin(c, "MULTIPART", key, << >>, "STREAM") /\ UNCHANGED_FILES  BY DEF BeginTransfer
    <2>2. "MULTIPART" \in OPS /\ "STREAM" \in PHASES /\ << >> \in Seq(Piece)
      BY DEF OPS, PHASES
    <2>3. Others(c) /\ call'[c].at = "STREAM"  BY <2>1, <2>2, Beginning
    <2> QED  BY <2>1, <2>3, LeavingQuietly
  <1>2. CASE \E piece \in Piece : UploadPart(c, piece)
    <2>1. PICK piece : call' = [call EXCEPT ![c].bytes = Append(@, piece)]
      BY <1>2 DEF UploadPart
    <2>2. call[c].at = "STREAM" /\ UNCHANGED_FILES  BY <1>2 DEF UploadPart, At
    <2>3. Others(c) /\ call'[c].at = "STREAM"  BY <2>1, <2>2 DEF TypeOK, Calls, Others
    <2> QED  BY <2>2, <2>3, LeavingQuietly
  <1>3. CASE UploadPartFails(c)
    <2>1. Goes(c, "ABORT") /\ UNCHANGED_FILES  BY <1>3 DEF UploadPartFails
    <2>2. Others(c) /\ call'[c].at = "ABORT"  BY <2>1, GoingOn DEF PHASES
    <2> QED  BY <2>1, <2>2, LeavingQuietly
  <1>4. CASE Commit(c)
    <2>1. /\ UNCHANGED_FILES /\ call[c].at = "STREAM"
          /\ Goes(c, "ABORT") \/ Goes(c, "STAGE")
      BY <1>4 DEF Commit, At
    <2>2. /\ Others(c) /\ call'[c].at \in {"ABORT", "STAGE"}
          /\ call'[c].key = call[c].key /\ call'[c].bytes = call[c].bytes
      BY <2>1, GoingOn DEF PHASES
    <2>3. call[c].key \in Key /\ call[c].bytes \in Seq(Piece)
      BY <2>1 DEF IInv, BusyCallsHaveAKey, TypeOK, Calls
    <2> QED  BY <2>1, <2>2, <2>3, LeavingQuietly, StreamAsks
  <1>5. CASE AbortUpload(c)
    <2>1. call' = [call EXCEPT ![c] = Idle] /\ UNCHANGED_FILES  BY <1>5 DEF AbortUpload
    <2>2. Others(c) /\ call'[c].at = "IDLE"  BY <2>1, Ending
    <2> QED  BY <2>1, <2>2, LeavingQuietly
  <1>6. CASE RemoveUpload(c)
    <2>1. Goes(c, "PUBLISHED") /\ UNCHANGED_FILES /\ call[c].at = "STORED"
      BY <1>6 DEF RemoveUpload, At
    <2>2. /\ Others(c) /\ call'[c].at = "PUBLISHED"
          /\ call'[c].key = call[c].key /\ call'[c].bytes = call[c].bytes
      BY <2>1, GoingOn DEF PHASES
    <2>3. file' = file /\ object' = object  BY <2>1 DEF UNCHANGED_FILES
    <2>4. Wanted(c)' = Wanted(c) /\ Opened(c)' = Opened(c) /\ Told(c)' = Told(c)
      BY <2>1, <2>2 DEF Wanted, Opened, Told, Asking, Reading
    <2> QED  BY <2>2, <2>3, <2>4, OthersAreAlone, SameContents, Stuttering DEF Implemented
  <1> QED  BY <1>1, <1>2, <1>3, <1>4, <1>5, <1>6 DEF Transfers

LEMMA StoresAreThere ==
  ASSUME IInv, NEW c \in Call, Stores(c)  PROVE Implemented
  <1> TypeOK  BY DEF IInv
  <1>1. ASSUME NEW key \in Key, NEW bytes \in Seq(Piece),
               PutObject(c, key, bytes) \/ PutObjectIfAbsent(c, key, bytes)
        PROVE  Implemented
    <2>1. PICK op \in {"PUT", "PUT_IF_ABSENT"} : Begin(c, op, key, bytes, "STAGE")
      BY <1>1 DEF PutObject, PutObjectIfAbsent
    <2>2. UNCHANGED_FILES  BY <1>1 DEF PutObject, PutObjectIfAbsent
    <2>3. op \in OPS /\ "STAGE" \in PHASES  BY DEF OPS, PHASES
    <2>4. /\ Others(c) /\ call'[c].at = "STAGE" /\ call'[c].key = key
          /\ call'[c].bytes = bytes /\ call[c].at = "IDLE"
      BY <2>1, <2>3, Beginning
    <2> QED  BY <2>2, <2>4, StreamAsks
  <1>2. ASSUME NEW f \in File, StageFile(c, f) PROVE Implemented
    <2>1. /\ call[c].at = "STAGE" /\ f \notin made /\ object' = object
          /\ file' = [file EXCEPT ![f] = << >>]
          /\ call' = [call EXCEPT ![c].at = "WRITE", ![c].file = f]
      BY <1>2 DEF StageFile, At
    <2>2. /\ Others(c) /\ call'[c].at = "WRITE" /\ call'[c].op = call[c].op
          /\ call'[c].key = call[c].key /\ call'[c].bytes = call[c].bytes
      BY <2>1 DEF TypeOK, Calls, Others
    <2>3. \A d \in Call : Reading(d) => file'[call[d].file] = file[call[d].file]
      BY <2>1 DEF IInv, ReadSoFar, TypeOK
    <2>4. \A k \in Key : object[k] # NoFile => file'[object[k]] = file[object[k]]
      BY <2>1 DEF IInv, NamedFilesAreMade, TypeOK
    <2>5. Alone(c)  BY <2>2, <2>3 DEF Alone, Others, Wanted, Opened, Told, Asking, Reading
    <2>6. contents' = contents  BY <2>1, <2>4 DEF contents, Content
    <2>7. Wanted(c)' = Wanted(c) /\ Opened(c)' = Opened(c) /\ Told(c)' = Told(c)
      BY <2>1, <2>2 DEF Wanted, Opened, Told, Asking, Reading
    <2> QED  BY <2>5, <2>6, <2>7, Stuttering DEF Implemented
  <1>3. CASE WritePiece(c)
    <2> DEFINE f == call[c].file
    <2>1. /\ call[c].at = "WRITE" /\ object' = object /\ call' = call
          /\ file' = [file EXCEPT ![f] = Append(@, call[c].bytes[Len(file[f]) + 1])]
      BY <1>3 DEF WritePiece, At
    <2>2. \A g \in File \ {f} : file'[g] = file[g]  BY <2>1 DEF TypeOK
    <2>3. Writing(c) /\ ~ Reading(c)  BY <2>1 DEF Writing, Reading
    <2>4. \A d \in Call : Reading(d) => file'[call[d].file] = file[call[d].file]
      BY <2>2, <2>3 DEF IInv, ReadSoFar, WritersAreAlone, TypeOK
    <2>5. \A k \in Key : object[k] # NoFile => file'[object[k]] = file[object[k]]
      BY <2>2, <2>3 DEF IInv, WritersAreAlone, TypeOK
    <2>6. Alone(c)  BY <2>1, <2>4 DEF Alone, Wanted, Opened, Told, Asking, Reading
    <2>7. contents' = contents  BY <2>1, <2>5 DEF contents, Content
    <2>8. Wanted(c)' = Wanted(c) /\ Opened(c)' = Opened(c) /\ Told(c)' = Told(c)
      BY <2>1, <2>4 DEF Wanted, Opened, Told, Asking, Reading
    <2> QED  BY <2>6, <2>7, <2>8, Stuttering DEF Implemented
  <1>4. CASE AllWritten(c)
    <2>1. Goes(c, "PUBLISH") /\ UNCHANGED_FILES /\ call[c].at = "WRITE"
      BY <1>4 DEF AllWritten, At
    <2>2. /\ Others(c) /\ call'[c].at = "PUBLISH" /\ call'[c].op = call[c].op
          /\ call'[c].key = call[c].key /\ call'[c].bytes = call[c].bytes
      BY <2>1, GoingOn DEF PHASES
    <2>3. file' = file /\ object' = object  BY <2>1 DEF UNCHANGED_FILES
    <2>4. Wanted(c)' = Wanted(c) /\ Opened(c)' = Opened(c) /\ Told(c)' = Told(c)
      BY <2>1, <2>2 DEF Wanted, Opened, Told, Asking, Reading
    <2> QED  BY <2>2, <2>3, <2>4, OthersAreAlone, SameContents, Stuttering DEF Implemented
  <1>5. CASE replace(c) \/ publishIfAbsent(c)  BY <1>5, StoreStepsAreThere DEF Implemented
  <1>6. CASE InvalidPart(c) \/ PreconditionFailed(c)
    <2>1. PICK phase \in {"ABORT", "OPEN", "EXISTS"} : Goes(c, phase)
      BY <1>6 DEF InvalidPart, PreconditionFailed
    <2>2. UNCHANGED_FILES  BY <1>6 DEF InvalidPart, PreconditionFailed
    <2>3. Others(c) /\ call'[c].at = phase  BY <2>1, GoingOn DEF PHASES
    <2> QED  BY <2>2, <2>3, LeavingQuietly
  <1> QED  BY <1>1, <1>2, <1>3, <1>4, <1>5, <1>6 DEF Stores

LEMMA ReadsAreThere ==
  ASSUME IInv, NEW c \in Call, Reads(c)  PROVE Implemented
  <1> TypeOK  BY DEF IInv
  <1>f. UNCHANGED_FILES => file' = file /\ object' = object  BY DEF UNCHANGED_FILES
  <1>1. CASE \E key \in Key : GetObject(c, key)
    <2> PICK key \in Key : GetObject(c, key)  BY <1>1
    <2>1. Begin(c, "READ", key, << >>, "OPEN") /\ UNCHANGED_FILES  BY DEF GetObject
    <2>2. "READ" \in OPS /\ "OPEN" \in PHASES /\ << >> \in Seq(Piece)  BY DEF OPS, PHASES
    <2>3. Others(c) /\ call'[c].at = "OPEN"  BY <2>1, <2>2, Beginning
    <2> QED  BY <2>1, <2>3, LeavingQuietly
  <1>2. CASE openRead(c)
    <2>0. call[c].at = "OPEN" /\ call[c].key \in Key
      BY <1>2 DEF openRead, At, IInv, BusyCallsHaveAKey
    <2>k. PICK key \in Key : key = call[c].key  BY <2>0
    <2>1. /\ object[key] # NoFile /\ UNCHANGED_FILES
          /\ call' = [call EXCEPT ![c].at = "READ", ![c].file = object[key], ![c].seen = << >>]
      BY <1>2, <2>k DEF openRead
    <2>2. /\ Others(c) /\ call'[c].at = "READ" /\ call'[c].file = object[key]
          /\ call'[c].key = key
      BY <2>1, <2>k DEF TypeOK, Calls, Others
    <2>3. Alone(c) /\ contents' = contents  BY <1>f, <2>1, <2>2, OthersAreAlone, SameContents
    <2>4. /\ Wanted(c)' = Wanted(c) /\ Told(c)' = Told(c) /\ Opened(c) = {}
          /\ Opened(c)' = {[key |-> key, value |-> file[object[key]]]}
      BY <1>f, <2>0, <2>1, <2>2 DEF Wanted, Opened, Told, Asking, Reading
    <2>5. file[object[key]] \in contents[key]  BY <2>1 DEF contents, Content
    <2>6. wanted' = wanted /\ told' = told  BY <2>3, <2>4 DEF Alone, wanted, told
    <2>7. /\ opened[c] = {}
          /\ opened' = [opened EXCEPT ![c] = {[key |-> key, value |-> file[object[key]]]}]
      BY <2>3, <2>4, OneCallMoves
    <2>8. Contract!Look(c)  BY <2>3, <2>5, <2>6, <2>7 DEF Contract!Look
    <2> QED  BY <2>8 DEF Contract!ContractNext, Implemented
  <1>3. CASE ReadPiece(c)
    <2>1. PICK seen : call' = [call EXCEPT ![c].seen = seen]
      BY <1>3 DEF ReadPiece
    <2>2. call[c].at = "READ" /\ UNCHANGED_FILES  BY <1>3 DEF ReadPiece, At
    <2>3. /\ Others(c) /\ call'[c].at = "READ" /\ call'[c].file = call[c].file
          /\ call'[c].key = call[c].key
      BY <2>1, <2>2 DEF TypeOK, Calls, Others
    <2>4. Wanted(c)' = Wanted(c) /\ Opened(c)' = Opened(c) /\ Told(c)' = Told(c)
      BY <1>f, <2>2, <2>3 DEF Wanted, Opened, Told, Asking, Reading
    <2> QED  BY <1>f, <2>2, <2>3, <2>4, OthersAreAlone, SameContents, Stuttering DEF Implemented
  <1>4. CASE ReadEnds(c)
    <2>1. IInv'  BY <1>4, ReadsKeepIt
    <2>2. call[c].at = "READ" /\ UNCHANGED_FILES /\ Goes(c, "RETURNED")
      BY <1>4 DEF ReadEnds, At
    <2>3. /\ Others(c) /\ call'[c].at = "RETURNED" /\ call'[c].file = call[c].file
          /\ call'[c].key = call[c].key
      BY <2>2, GoingOn DEF PHASES
    <2>4. Alone(c) /\ contents' = contents  BY <1>f, <2>2, <2>3, OthersAreAlone, SameContents
    <2>5. call'[c].seen = file'[call'[c].file]
      BY <2>1, <2>3 DEF IInv, ReadSoFar, Reading
    <2>6. /\ Wanted(c)' = Wanted(c) /\ Opened(c)' = Opened(c) /\ Opened(c) # {}
          /\ Told(c)' = Opened(c)
      BY <1>f, <2>2, <2>3, <2>5 DEF Wanted, Opened, Told, Asking, Reading
    <2>7. wanted' = wanted /\ opened' = opened  BY <2>4, <2>6 DEF Alone, wanted, opened
    <2>8. opened[c] # {} /\ told' = [told EXCEPT ![c] = opened[c]]
      BY <2>4, <2>6, OneCallMoves
    <2>9. Contract!Return(c)  BY <2>4, <2>7, <2>8 DEF Contract!Return
    <2> QED  BY <2>9 DEF Contract!ContractNext, Implemented
  <1> QED  BY <1>1, <1>2, <1>3, <1>4 DEF Reads

LEMMA DeletesAreThere ==
  ASSUME IInv, NEW key \in Key, DeleteObject(key)  PROVE Implemented
  <1>1. /\ object' = [object EXCEPT ![key] = NoFile] /\ file' = file /\ call' = call
    BY DEF DeleteObject
  <1>2. \A k \in Key : object'[k] = IF k = key THEN NoFile ELSE object[k]
    BY <1>1 DEF IInv, TypeOK
  <1>3. \A k \in Key \ {key} : Content(k)' = Content(k)  BY <1>1, <1>2 DEF Content
  <1>4. Content(key)' = {}  BY <1>2 DEF Content
  <1>5. contents' = [k \in Key |-> Content(k)']  BY DEF contents
  <1>6. contents' = [contents EXCEPT ![key] = {}]  BY <1>3, <1>4, <1>5 DEF contents
  <1>7. wanted' = wanted /\ opened' = opened /\ told' = told
    BY <1>1 DEF wanted, opened, told, Wanted, Opened, Told, Asking, Reading
  <1>8. Contract!Remove(key)  BY <1>6, <1>7 DEF Contract!Remove
  <1> QED  BY <1>8 DEF Contract!ContractNext, Implemented

LEMMA StepIsThere == IInv /\ [Next]_vars => Implemented
  <1> SUFFICES ASSUME IInv, [Next]_vars PROVE Implemented  OBVIOUS
  <1>1. CASE UNCHANGED vars
    BY <1>1 DEF vars, Implemented, Contract!promised, contents, wanted, opened, told, Content,
       Wanted, Opened, Told, Asking, Reading
  <1>2. ASSUME NEW key \in Key, DeleteObject(key) PROVE Implemented  BY <1>2, DeletesAreThere
  <1>3. ASSUME NEW c \in Call, CallEnds(c) PROVE Implemented
    <2>1. call' = [call EXCEPT ![c] = Idle] /\ UNCHANGED_FILES
      BY <1>3 DEF CallEnds, UNCHANGED_FILES
    <2>2. Others(c) /\ call'[c].at = "IDLE"  BY <2>1, Ending DEF IInv
    <2> QED  BY <2>1, <2>2, LeavingQuietly
  <1>4. ASSUME NEW c \in Call, Transfers(c) \/ Stores(c) \/ Reads(c) PROVE Implemented
    BY <1>4, TransfersAreThere, StoresAreThere, ReadsAreThere
  <1> QED  BY <1>1, <1>2, <1>3, <1>4 DEF Next

LEMMA InitIsThere == Init => Contract!ContractInit
  <1> SUFFICES ASSUME Init PROVE Contract!ContractInit  OBVIOUS
  <1>1. \A c \in Call : Wanted(c) = {} /\ Opened(c) = {} /\ Told(c) = {}
    BY DEF Init, Idle, Wanted, Opened, Told, Asking, Reading
  <1>2. \A k \in Key : Content(k) = {}  BY DEF Init, Content
  <1> QED  BY <1>1, <1>2 DEF Contract!ContractInit, contents, wanted, opened, told

\* The shared folder keeps the promise of an object store: objects appear whole and in
\* one step, are what one caller stored, are replaced only by whoever may, and a reader
\* returns what its key held when it looked - with every file operation a step of its
\* own, uploads in parts and calls that die anywhere.
THEOREM KeepsThePromise == Spec => Contract!ContractSpec
  <1>1. IInv /\ [Next]_vars => [Contract!ContractNext]_(Contract!promised)
    BY StepIsThere DEF Implemented
  <1> QED  BY <1>1, Invariant, InitIsThere, PTL DEF Spec, Contract!ContractSpec
===============================================================================
