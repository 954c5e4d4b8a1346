------------------------- MODULE ArtifactStoreProofs -------------------------
(***************************************************************************)
(* Theorems about ArtifactStore, for any number of artifacts, processes    *)
(* and stalls.                                                             *)
(***************************************************************************)
EXTENDS ArtifactStore, TLAPS

USE DEF Parts, Contents, Steps, Busy, FirstPart

(* Where a save stands, what it has written so far is whole.               *)
Written ==
  \A a \in Artifacts :
    /\ \A q \in Parts : file[a][q] # "partial"
    /\ file[a]["metadata"] # "none" => Complete(a)
    /\ step[a] = "new" => part[a] = "body"
    /\ step[a] \in Busy /\ part[a] = "metadata" => file[a]["body"] = "whole"
    /\ step[a] = "replace" => temp[a][part[a]] # "partial"
    /\ step[a] \in {"publish", "returned"} => Complete(a)
    /\ \A p \in Processes : a \in index[p] => Complete(a)

(* A save that was never held up still has the temporary file it wrote,    *)
(* and of the files of such saves the cleaner has found old only those of  *)
(* saves that are over.                                                    *)
Unhurt ==
  /\ \A a \in Artifacts : step[a] = "new" => \A q \in Parts : temp[a][q] = "none" /\ ~stale[a][q]
  /\ cleaner # NULL => step[cleaner.artifact] # "new"
  /\ \A a \in Artifacts \ stalled : step[a] \in Busy =>
       /\ \A q \in Parts : ~stale[a][q]
       /\ step[a] = "write" => temp[a][part[a]] # "none"
       /\ step[a] = "replace" => temp[a][part[a]] = "whole"
  /\ cleaner # NULL /\ cleaner.artifact \notin stalled =>
       (cleaner.at = "stale" => step[cleaner.artifact] \notin Busy)

IInv == TypeOK /\ Written /\ Unhurt /\ LoadedIsWhole

LEMMA InvInit == Init => IInv
<1> SUFFICES ASSUME Init PROVE IInv
  OBVIOUS
<1>1. TypeOK
  BY ConstantsAssumption DEF Init, TypeOK, ConstantsAssumption
<1>2. Written
  BY DEF Init, Written
<1>3. Unhurt /\ LoadedIsWhole
  BY DEF Init, Unhurt, LoadedIsWhole
<1> QED BY <1>1, <1>2, <1>3 DEF IInv

LEMMA OtherPart == (CHOOSE q \in Parts : q # FirstPart) = "metadata"
OBVIOUS

LEMMA MkdirInv ==
  ASSUME IInv, NEW a \in Artifacts, Mkdir(a)
  PROVE  IInv'
<1>1. TypeOK'
  BY DEF Mkdir, disk, IInv, TypeOK
<1>2. \A b \in Artifacts : step'[b] = IF b = a THEN "open" ELSE step[b]
  BY DEF Mkdir, IInv, TypeOK
<1>3. Written'
  BY <1>2 DEF Mkdir, disk, IInv, Written, Complete
<1>4. Unhurt'
  BY <1>2 DEF Mkdir, disk, IInv, TypeOK, Unhurt
<1> QED BY <1>1, <1>3, <1>4 DEF Mkdir, IInv, LoadedIsWhole

LEMMA OpenTempInv ==
  ASSUME IInv, NEW a \in Artifacts, OpenTemp(a)
  PROVE  IInv'
<1>1. TypeOK'
  BY DEF OpenTemp, IInv, TypeOK
<1>2. \A b \in Artifacts : step'[b] = IF b = a THEN "write" ELSE step[b]
  BY DEF OpenTemp, IInv, TypeOK
<1>3. \A b \in Artifacts, q \in Parts :
        temp'[b][q] = IF b = a /\ q = part[a] THEN "partial" ELSE temp[b][q]
  BY DEF OpenTemp, IInv, TypeOK
<1>4. Written'
  BY <1>2, <1>3 DEF OpenTemp, IInv, TypeOK, Written, Complete
<1>5. Unhurt'
  BY <1>2, <1>3 DEF OpenTemp, IInv, TypeOK, Unhurt
<1> QED BY <1>1, <1>4, <1>5 DEF OpenTemp, IInv, LoadedIsWhole

LEMMA WriteTempInv ==
  ASSUME IInv, NEW a \in Artifacts, WriteTemp(a)
  PROVE  IInv'
<1>1. TypeOK'
  BY DEF WriteTemp, IInv, TypeOK
<1>2. \A b \in Artifacts : step'[b] = IF b = a THEN "replace" ELSE step[b]
  BY DEF WriteTemp, IInv, TypeOK
<1>3. \A b \in Artifacts, q \in Parts :
        temp'[b][q] = IF b = a /\ q = part[a]
                      THEN IF temp[b][q] = "none" THEN "none" ELSE "whole"
                      ELSE temp[b][q]
  BY DEF WriteTemp, IInv, TypeOK
<1>4. \A b \in Artifacts, q \in Parts : stale'[b][q] => stale[b][q]
  BY DEF WriteTemp, IInv, TypeOK
<1>5. Written'
  BY <1>2, <1>3 DEF WriteTemp, IInv, TypeOK, Written, Complete
<1>6. Unhurt'
  BY <1>2, <1>3, <1>4 DEF WriteTemp, IInv, TypeOK, Unhurt
<1> QED BY <1>1, <1>5, <1>6 DEF WriteTemp, IInv, LoadedIsWhole

(* Only a whole temporary file is put in place.                            *)
LEMMA ReplaceInv ==
  ASSUME IInv, NEW a \in Artifacts, Replace(a)
  PROVE  IInv'
<1> DEFINE q == part[a]
<1>1. q \in Parts /\ step[a] = "replace"
  BY DEF Replace, IInv, TypeOK
<1>2. CASE temp[a][q] = "none"
  <2>1. /\ step' = [step EXCEPT ![a] = "failed"]
       /\ UNCHANGED <<part, temp, file, stale, index, cleaner, stalled, answer>>
    BY <1>2 DEF Replace
  <2>2. \A b \in Artifacts : step'[b] = IF b = a THEN "failed" ELSE step[b]
    BY <2>1 DEF IInv, TypeOK
  <2>3. TypeOK'
    BY <2>1 DEF IInv, TypeOK
  <2>4. Written'
    BY <2>1, <2>2 DEF IInv, Written, Complete
  <2>5. Unhurt'
    BY <2>1, <2>2 DEF IInv, TypeOK, Unhurt
  <2> QED BY <2>1, <2>3, <2>4, <2>5 DEF IInv, LoadedIsWhole
<1>3. CASE temp[a][q] # "none"
  <2>1. temp[a][q] = "whole"
    BY <1>1, <1>3 DEF IInv, Written, TypeOK
  <2>2. /\ file' = [file EXCEPT ![a][q] = "whole"]
        /\ temp' = [temp EXCEPT ![a][q] = "none"]
        /\ step' = [step EXCEPT ![a] = IF q = "body" THEN "open" ELSE "publish"]
        /\ part' = [part EXCEPT ![a] = "metadata"]
        /\ UNCHANGED <<stale, index, cleaner, stalled, answer>>
    <3>1. \/ temp[a][q] = "none"
          \/ /\ file' = [file EXCEPT ![a][q] = temp[a][q]]
             /\ temp' = [temp EXCEPT ![a][q] = "none"]
             /\ IF q = FirstPart
                THEN /\ step' = [step EXCEPT ![a] = "open"]
                     /\ part' = [part EXCEPT ![a] = CHOOSE r \in Parts : r # FirstPart]
                ELSE /\ step' = [step EXCEPT ![a] = "publish"]
                     /\ part' = part
      BY DEF Replace
    <3>2. UNCHANGED <<stale, index, cleaner, stalled, answer>>
      BY DEF Replace
    <3>3. q = "metadata" => part = [part EXCEPT ![a] = "metadata"]
      BY DEF IInv, TypeOK
    <3> QED BY <1>1, <1>3, <2>1, <3>1, <3>2, <3>3, OtherPart
  <2>3. \A b \in Artifacts :
          /\ step'[b] = IF b = a THEN IF q = "body" THEN "open" ELSE "publish" ELSE step[b]
          /\ part'[b] = IF b = a THEN "metadata" ELSE part[b]
    BY <2>2 DEF IInv, TypeOK
  <2>4. \A b \in Artifacts, r \in Parts :
          /\ file'[b][r] = IF b = a /\ r = q THEN "whole" ELSE file[b][r]
          /\ temp'[b][r] = IF b = a /\ r = q THEN "none" ELSE temp[b][r]
    BY <1>1, <2>2 DEF IInv, TypeOK
  <2>5. TypeOK'
    BY <1>1, <2>2 DEF IInv, TypeOK
  <2>6. ASSUME NEW b \in Artifacts, Complete(b) PROVE Complete(b)'
    BY <2>4, <2>6 DEF Complete
  <2>7. q = "metadata" => Complete(a)'
    BY <1>1, <2>4 DEF IInv, Written, Complete
  <2>8. Written'
    BY <1>1, <2>2, <2>3, <2>4, <2>6, <2>7 DEF IInv, Written
  <2>9. Unhurt'
    BY <1>1, <2>2, <2>3, <2>4 DEF IInv, TypeOK, Unhurt
  <2> QED BY <2>2, <2>5, <2>8, <2>9 DEF IInv, LoadedIsWhole
<1> QED BY <1>2, <1>3

LEMMA PublishInv ==
  ASSUME IInv, NEW a \in Artifacts, Publish(a)
  PROVE  IInv'
<1>1. TypeOK'
  BY ConstantsAssumption DEF Publish, disk, IInv, TypeOK, ConstantsAssumption
<1>2. \A b \in Artifacts : step'[b] = IF b = a THEN "returned" ELSE step[b]
  BY DEF Publish, IInv, TypeOK
<1>3. \A p \in Processes : index'[p] \subseteq index[p] \cup {a}
  BY DEF Publish, IInv, TypeOK
<1>4. Written'
  BY <1>2, <1>3 DEF Publish, disk, IInv, Written, Complete
<1>5. Unhurt'
  BY <1>2 DEF Publish, disk, IInv, TypeOK, Unhurt
<1> QED BY <1>1, <1>4, <1>5 DEF Publish, disk, IInv, LoadedIsWhole

LEMMA DiskErrorInv ==
  ASSUME IInv, NEW a \in Artifacts, DiskError(a)
  PROVE  IInv'
<1>1. TypeOK'
  BY DEF DiskError, disk, IInv, TypeOK
<1>2. \A b \in Artifacts : step'[b] = IF b = a THEN "failed" ELSE step[b]
  BY DEF DiskError, IInv, TypeOK
<1>3. Written'
  BY <1>2 DEF DiskError, disk, IInv, Written, Complete
<1>4. Unhurt'
  BY <1>2 DEF DiskError, disk, IInv, TypeOK, Unhurt
<1> QED BY <1>1, <1>3, <1>4 DEF DiskError, disk, IInv, LoadedIsWhole

LEMMA CrashInv ==
  ASSUME IInv, NEW p \in Processes, Crash(p)
  PROVE  IInv'
<1>1. TypeOK'
  BY DEF Crash, disk, IInv, TypeOK
<1>2. \A b \in Artifacts : step'[b] = step[b] \/ (step[b] \in Busy /\ step'[b] = "lost")
  BY DEF Crash, IInv, TypeOK
<1>3. \A r \in Processes : index'[r] \subseteq index[r]
  BY DEF Crash, IInv, TypeOK
<1>4. Written'
  BY <1>2, <1>3 DEF Crash, disk, IInv, Written, Complete
<1>5. Unhurt'
  BY <1>2 DEF Crash, disk, IInv, TypeOK, Looks, Unhurt
<1> QED BY <1>1, <1>4, <1>5 DEF Crash, disk, IInv, LoadedIsWhole

(* What an index or a scan finds is complete.                              *)
LEMMA LoadInv ==
  ASSUME IInv, NEW p \in Processes, NEW a \in Artifacts, LoadArtifact(p, a)
  PROVE  IInv'
<1>1. Found(p, a) => Complete(a)
  BY DEF Found, Scans, IInv, Written
<1>2. \/ answer'.result = "404"
      \/ Found(p, a) /\ answer'.result = file[a]["body"]
  BY DEF LoadArtifact
<1>3. answer'.result \in {"whole", "404"}
  BY <1>1, <1>2 DEF Complete
<1>4. answer' \in Answers
  <2>1. file[a]["body"] \in Contents
    BY DEF IInv, TypeOK
  <2> QED BY <2>1 DEF LoadArtifact, Answers
<1>5. \A r \in Processes : index'[r] \subseteq index[r] \cup (IF Found(p, a) THEN {a} ELSE {})
  BY DEF LoadArtifact, IInv, TypeOK
<1>6. TypeOK'
  BY <1>4 DEF LoadArtifact, save, disk, IInv, TypeOK
<1>7. Written'
  BY <1>1, <1>5 DEF LoadArtifact, save, disk, IInv, Written, Complete
<1>8. Unhurt'
  BY DEF LoadArtifact, save, disk, IInv, Unhurt
<1> QED BY <1>3, <1>6, <1>7, <1>8 DEF IInv, LoadedIsWhole

LEMMA CleanerInv ==
  ASSUME IInv, (\E a \in Artifacts, q \in Parts : CleanerFind(a, q)) \/ CleanerStat
  PROVE  IInv'
<1>1. UNCHANGED <<save, disk, index, stalled, answer>>
  BY DEF CleanerFind, CleanerStat
<1>2. \/ cleaner' = NULL
      \/ \E a \in Artifacts, q \in Parts :
           /\ cleaner' = [artifact |-> a, part |-> q, at |-> "found"]
           /\ temp[a][q] # "none"
      \/ /\ cleaner # NULL /\ cleaner' = [cleaner EXCEPT !.at = "stale"]
         /\ temp[cleaner.artifact][cleaner.part] # "none"
         /\ stale[cleaner.artifact][cleaner.part]
  BY DEF CleanerFind, CleanerStat, TooOld
<1>3. cleaner # NULL => cleaner \in Looks
  BY DEF IInv, TypeOK
<1>4. TypeOK'
  <2>1. cleaner' \in {NULL} \cup Looks
    BY <1>2, <1>3 DEF Looks
  <2> QED BY <1>1, <2>1 DEF save, disk, IInv, TypeOK
<1>5. Written'
  BY <1>1 DEF save, disk, IInv, Written, Complete
<1>6. Unhurt'
  <2>1. CASE cleaner' = NULL
    BY <1>1, <2>1 DEF save, disk, IInv, Unhurt
  <2>2. CASE \E a \in Artifacts, q \in Parts :
           /\ cleaner' = [artifact |-> a, part |-> q, at |-> "found"]
           /\ temp[a][q] # "none"
    <3> PICK a \in Artifacts, q \in Parts :
           /\ cleaner' = [artifact |-> a, part |-> q, at |-> "found"]
           /\ temp[a][q] # "none"
      BY <2>2
    <3>1. cleaner'.at # "stale" /\ cleaner'.artifact = a
      OBVIOUS
    <3>2. step[a] # "new"
      BY DEF IInv, Unhurt
    <3> QED BY <1>1, <3>1, <3>2 DEF save, disk, IInv, Unhurt
  <2>3. CASE /\ cleaner # NULL /\ cleaner' = [cleaner EXCEPT !.at = "stale"]
             /\ temp[cleaner.artifact][cleaner.part] # "none"
             /\ stale[cleaner.artifact][cleaner.part]
    BY <1>1, <1>3, <2>3 DEF save, disk, IInv, Looks, Unhurt
  <2> QED BY <1>2, <2>1, <2>2, <2>3
<1> QED BY <1>1, <1>4, <1>5, <1>6 DEF IInv, LoadedIsWhole

LEMMA UnlinkInv ==
  ASSUME IInv, CleanerUnlink
  PROVE  IInv'
<1> DEFINE c == cleaner.artifact
           r == cleaner.part
<1>1. cleaner.at = "stale" /\ cleaner # NULL
  BY DEF CleanerUnlink
<1>2. c \in Artifacts /\ r \in Parts
  BY <1>1 DEF IInv, TypeOK, Looks
<1>3. \A b \in Artifacts, q \in Parts :
        /\ temp'[b][q] = IF b = c /\ q = r THEN "none" ELSE temp[b][q]
        /\ stale'[b][q] => stale[b][q]
  BY <1>1, <1>2 DEF CleanerUnlink, IInv, TypeOK
<1>4. TypeOK'
  BY <1>1 DEF CleanerUnlink, save, IInv, TypeOK
<1>5. Written'
  BY <1>3 DEF CleanerUnlink, save, IInv, TypeOK, Written, Complete
<1>6. Unhurt'
  BY <1>1, <1>2, <1>3 DEF CleanerUnlink, save, IInv, TypeOK, Unhurt
<1> QED BY <1>4, <1>5, <1>6 DEF CleanerUnlink, IInv, LoadedIsWhole

LEMMA AgeInv ==
  ASSUME IInv, NEW c \in Artifacts, NEW r \in Parts, Age(c, r)
  PROVE  IInv'
<1>2. \A b \in Artifacts, q \in Parts : stale'[b][q] => stale[b][q] \/ b = c
  BY DEF Age, IInv, TypeOK
<1>3. stalled' = IF step[c] \in Busy THEN stalled \cup {c} ELSE stalled
  BY DEF Age
<1>4. TypeOK'
  BY <1>3 DEF Age, save, IInv, TypeOK
<1>5. Written'
  BY DEF Age, save, IInv, Written, Complete
<1>6. step[c] # "new"
  BY DEF Age, IInv, Unhurt
<1>7. stalled \subseteq stalled' /\ (c \notin stalled' => step[c] \notin Busy)
  BY <1>3
<1>8. Unhurt'
  BY <1>2, <1>6, <1>7 DEF Age, save, IInv, Unhurt
<1> QED BY <1>4, <1>5, <1>8 DEF Age, IInv, LoadedIsWhole

LEMMA InvStep == IInv /\ [Next]_vars => IInv'
<1> SUFFICES ASSUME IInv, [Next]_vars PROVE IInv'
  OBVIOUS
<1>1. ASSUME NEW a \in Artifacts, SaveStep(a) PROVE IInv'
  BY <1>1, MkdirInv, OpenTempInv, WriteTempInv, ReplaceInv, PublishInv, DiskErrorInv DEF SaveStep
<1>2. ASSUME NEW p \in Processes, Crash(p) PROVE IInv'
  BY <1>2, CrashInv
<1>3. ASSUME NEW p \in Processes, NEW a \in Artifacts, LoadArtifact(p, a) PROVE IInv'
  BY <1>3, LoadInv
<1>4. ASSUME NEW a \in Artifacts, NEW q \in Parts, CleanerFind(a, q) \/ Age(a, q) PROVE IInv'
  BY <1>4, CleanerInv, AgeInv
<1>5. CASE CleanerStat \/ CleanerUnlink
  BY <1>5, CleanerInv, UnlinkInv
<1>6. CASE UNCHANGED vars
  BY <1>6 DEF vars, IInv, TypeOK, Written, Complete, Unhurt, LoadedIsWhole
<1> QED BY <1>1, <1>2, <1>3, <1>4, <1>5, <1>6 DEF Next

LEMMA Invariance == Spec => []IInv
BY InvInit, InvStep, PTL DEF Spec

-----------------------------------------------------------------------------
(* Saves, files, indexes and the cleaner keep their types.                 *)
THEOREM TypeCorrect == Spec => []TypeOK
<1>1. IInv => TypeOK
  BY DEF IInv
<1> QED BY <1>1, Invariance, PTL

(* What can be seen of an artifact is complete, whatever crash, disk error *)
(* or clean-up comes between the steps of save().                          *)
THEOREM SeenIsCompleteHolds == Spec => []SeenIsComplete
<1>1. IInv => SeenIsComplete
  BY DEF IInv, Written, SeenIsComplete
<1> QED BY <1>1, Invariance, PTL

(* load() returns a whole body or a 404.                                   *)
THEOREM LoadedIsWholeHolds == Spec => []LoadedIsWhole
<1>1. IInv => LoadedIsWhole
  BY DEF IInv
<1> QED BY <1>1, Invariance, PTL

(* The cleaner never takes a file from under a save that was not held up   *)
(* itself, however the other saves fared.                                  *)
THEOREM SpoiledByStallHolds == Spec => []SpoiledByStall
<1>1. IInv => SpoiledByStall
  BY DEF IInv, TypeOK, Unhurt, SpoiledByStall
<1> QED BY <1>1, Invariance, PTL
=============================================================================
