--------------------------- MODULE ArtifactStore ---------------------------
(***************************************************************************)
(* Stored artifacts: ArtifactStore (services/artifacts.py) in the API and  *)
(* in every worker, over one directory tree, with the hourly clean-up of   *)
(* temporary files (maintenance.py) running beside them.                   *)
(*                                                                         *)
(* save() makes a directory and writes body.bin and metadata.json, each    *)
(* through a temporary file; every file operation runs in a thread, so the *)
(* steps of processes, of other saves and of the cleaner interleave.  Each *)
(* process remembers in _index what it saved or found.  An artifact id     *)
(* stands for one call of save(): new_id never repeats.                    *)
(***************************************************************************)
EXTENDS Naturals, FiniteSets

CONSTANTS Artifacts,  \* the ids of the artifacts
          Processes,  \* the API and the workers
          Saver,      \* the process that saves an artifact
          Stalls,     \* bound: how many saves are held up beyond the cleaner's age
          NULL

Parts == {"body", "metadata"}

Contents == {"none", "partial", "whole"}

(* A temporary file the cleaner looks at, and what it knows of it.         *)
Looks == [artifact : Artifacts, part : Parts, at : {"found", "stale"}]

ASSUME ConstantsAssumption ==
  /\ Saver \in [Artifacts -> Processes]
  /\ Stalls \in Nat
  /\ NULL \notin Looks
  /\ NULL \notin [published : BOOLEAN, result : Contents \cup {"404"}]

VARIABLES
  step,     \* where the save of an artifact stands
  part,     \* the file that save is writing
  temp,     \* the temporary file beside a file
  file,     \* the file
  stale,    \* the temporary file is older than the cleaner's threshold
  index,    \* _index of a process: the ids in it
  cleaner,  \* the temporary file the cleaner looks at
  stalled,  \* history: the saves that were held up
  answer    \* how the last load ended

disk == <<temp, file, stale>>
save == <<step, part>>
vars == <<step, part, temp, file, stale, index, cleaner, stalled, answer>>

Steps == {"new", "open", "write", "replace", "publish", "returned", "failed", "lost"}
Busy  == {"open", "write", "replace", "publish"}

(* published: the save had returned the id before.                         *)
Answers == [published : BOOLEAN, result : Contents \cup {"404"}]

(* Mutation: the metadata goes first. *)
MetadataFirst == "metadata"

(* The file that save() writes first.                                      *)
FirstPart == "body"

Init ==
  /\ step = [a \in Artifacts |-> "new"]
  /\ part = [a \in Artifacts |-> FirstPart]
  /\ temp = [a \in Artifacts |-> [q \in Parts |-> "none"]]
  /\ file = [a \in Artifacts |-> [q \in Parts |-> "none"]]
  /\ stale = [a \in Artifacts |-> [q \in Parts |-> FALSE]]
  /\ index = [p \in Processes |-> {}]
  /\ cleaner = NULL
  /\ stalled = {}
  /\ answer = NULL

-----------------------------------------------------------------------------
(* save(): mkdir, then _atomic_write of the body and of the metadata.      *)

(* Mutation: indexed before it is written. *)
MkdirIndexed(a) ==
  /\ step[a] = "new"
  /\ step' = [step EXCEPT ![a] = "open"]
  /\ index' = [index EXCEPT ![Saver[a]] = @ \cup {a}]
  /\ UNCHANGED <<part, disk, cleaner, stalled, answer>>

Mkdir(a) ==
  /\ step[a] = "new"
  /\ step' = [step EXCEPT ![a] = "open"]
  /\ UNCHANGED <<part, disk, index, cleaner, stalled, answer>>

OpenTemp(a) ==
  /\ step[a] = "open"
  /\ step' = [step EXCEPT ![a] = "write"]
  /\ temp' = [temp EXCEPT ![a][part[a]] = "partial"]
  /\ UNCHANGED <<part, file, stale, index, cleaner, stalled, answer>>

(* Written and synced: the file is young again; if it was unlinked in the  *)
(* meantime the bytes go nowhere.                                          *)
WriteTemp(a) ==
  /\ step[a] = "write"
  /\ step' = [step EXCEPT ![a] = "replace"]
  /\ temp' = [temp EXCEPT ![a][part[a]] = IF @ = "none" THEN "none" ELSE "whole"]
  /\ stale' = [stale EXCEPT ![a][part[a]] = FALSE]
  /\ UNCHANGED <<part, file, index, cleaner, stalled, answer>>

(* Replaces the file by what was written; without a temporary file,        *)
(* os.replace raises.                                                      *)
Replace(a) ==
  /\ step[a] = "replace"
  /\ \/ /\ temp[a][part[a]] # "none"
        /\ file' = [file EXCEPT ![a][part[a]] = temp[a][part[a]]]
        /\ temp' = [temp EXCEPT ![a][part[a]] = "none"]
        /\ IF part[a] = FirstPart
           THEN /\ step' = [step EXCEPT ![a] = "open"]
                /\ part' = [part EXCEPT ![a] = CHOOSE q \in Parts : q # FirstPart]
           ELSE /\ step' = [step EXCEPT ![a] = "publish"]
                /\ part' = part
     \/ /\ temp[a][part[a]] = "none"
        /\ step' = [step EXCEPT ![a] = "failed"]
        /\ UNCHANGED <<part, temp, file>>
  /\ UNCHANGED <<stale, index, cleaner, stalled, answer>>

(* Back in the event loop: the index, and the id goes to the caller.       *)
Publish(a) ==
  /\ step[a] = "publish"
  /\ step' = [step EXCEPT ![a] = "returned"]
  /\ index' = [index EXCEPT ![Saver[a]] = @ \cup {a}]
  /\ UNCHANGED <<part, disk, cleaner, stalled, answer>>

(* The disk is full or gone: save() raises and leaves what there is.       *)
DiskError(a) ==
  /\ step[a] \in {"new", "open", "write", "replace"}
  /\ step' = [step EXCEPT ![a] = "failed"]
  /\ UNCHANGED <<part, disk, index, cleaner, stalled, answer>>

(* A process dies and starts again with an empty index.                    *)
Crash(p) ==
  /\ step' = [a \in Artifacts |->
                IF Saver[a] = p /\ step[a] \in Busy THEN "lost" ELSE step[a]]
  /\ index' = [index EXCEPT ![p] = {}]
  /\ UNCHANGED <<part, disk, cleaner, stalled, answer>>

-----------------------------------------------------------------------------
(* load(): the index, else _scan_for, else 404.                            *)

(* _scan_for looks on the disk only for ids made of these characters.      *)
ScanCharacters == {"0", "1", "2", "3", "4", "5", "6", "7", "8", "9",
                   "a", "b", "c", "d", "e", "f", "_"}

(* The characters of an id from new_id("art"): art_ and hex digits.        *)
IdCharacters == {"a", "r", "t", "_"} \cup (ScanCharacters \ {"_"})

Scans(a) == IdCharacters \subseteq ScanCharacters /\ file[a]["metadata"] # "none"

Found(p, a) == a \in index[p] \/ Scans(a)

LoadArtifact(p, a) ==
  /\ answer' = [published |-> step[a] = "returned",
                 result |-> IF Found(p, a) THEN file[a]["body"] ELSE "404"]
  /\ index' = [index EXCEPT ![p] = IF Found(p, a) THEN @ \cup {a} ELSE @]
  /\ UNCHANGED <<save, disk, cleaner, stalled>>

-----------------------------------------------------------------------------
(* remove_stale_temporary_files(), started by a timer again and again.     *)

(* Mutation: only the bodies. *)
CleanerFindBody(a, q) ==
  /\ cleaner = NULL
  /\ temp[a][q] # "none" /\ q = "body"
  /\ cleaner' = [artifact |-> a, part |-> q, at |-> "found"]
  /\ UNCHANGED <<save, disk, index, stalled, answer>>

(* rglob meets a temporary file, and it is a file.                         *)
CleanerFind(a, q) ==
  /\ cleaner = NULL
  /\ temp[a][q] # "none"
  /\ cleaner' = [artifact |-> a, part |-> q, at |-> "found"]
  /\ UNCHANGED <<save, disk, index, stalled, answer>>

(* Mutation: the age is not looked at. *)
TooOldAlways(a, q) == TRUE

TooOld(a, q) == stale[a][q]

(* stat(): raises if the file has gone, and the run of the cleaner ends.   *)
CleanerStat ==
  /\ cleaner # NULL /\ cleaner.at = "found"
  /\ cleaner' = IF /\ temp[cleaner.artifact][cleaner.part] # "none"
                   /\ TooOld(cleaner.artifact, cleaner.part)
                THEN [cleaner EXCEPT !.at = "stale"]
                ELSE NULL
  /\ UNCHANGED <<save, disk, index, stalled, answer>>

(* unlink(): likewise.                                                     *)
CleanerUnlink ==
  /\ cleaner # NULL /\ cleaner.at = "stale"
  /\ temp' = [temp EXCEPT ![cleaner.artifact][cleaner.part] = "none"]
  /\ stale' = [stale EXCEPT ![cleaner.artifact][cleaner.part] = FALSE]
  /\ cleaner' = NULL
  /\ UNCHANGED <<save, file, index, stalled, answer>>

(* An hour passes over an abandoned temporary file, or over one that is    *)
(* being written, of no more than Stalls saves.                            *)
Age(a, q) ==
  /\ temp[a][q] # "none" /\ ~stale[a][q]
  /\ stalled' = IF step[a] \in Busy THEN stalled \cup {a} ELSE stalled
  /\ Cardinality(stalled') <= Stalls
  /\ stale' = [stale EXCEPT ![a][q] = TRUE]
  /\ UNCHANGED <<save, temp, file, index, cleaner, answer>>

-----------------------------------------------------------------------------
SaveStep(a) ==
  Mkdir(a) \/ OpenTemp(a) \/ WriteTemp(a) \/ Replace(a) \/ Publish(a) \/ DiskError(a)

Next ==
  \/ \E a \in Artifacts : SaveStep(a)
  \/ \E p \in Processes : Crash(p)
  \/ \E p \in Processes, a \in Artifacts : LoadArtifact(p, a)
  \/ \E a \in Artifacts, q \in Parts : CleanerFind(a, q) \/ Age(a, q)
  \/ CleanerStat
  \/ CleanerUnlink

Spec == Init /\ [][Next]_vars

(* Time passes, the timer starts the cleaner again and again, and a run of *)
(* it comes to every file (strongly fair: it looks at one at a time).      *)
Fairness ==
  /\ \A a \in Artifacts, q \in Parts :
       WF_vars(step[a] \notin Busy /\ Age(a, q)) /\ SF_vars(CleanerFind(a, q))
  /\ WF_vars(CleanerStat) /\ WF_vars(CleanerUnlink)

FairSpec == Spec /\ Fairness

-----------------------------------------------------------------------------
(* What the properties say.                                                *)

(* Saves, files, indexes, the cleaner and answers keep their types.        *)
TypeOK ==
  /\ step \in [Artifacts -> Steps]
  /\ part \in [Artifacts -> Parts]
  /\ temp \in [Artifacts -> [Parts -> Contents]]
  /\ file \in [Artifacts -> [Parts -> Contents]]
  /\ stale \in [Artifacts -> [Parts -> BOOLEAN]]
  /\ index \in [Processes -> SUBSET Artifacts]
  /\ cleaner \in {NULL} \cup Looks
  /\ stalled \subseteq Artifacts
  /\ answer \in {NULL} \cup Answers

Complete(a) == \A q \in Parts : file[a][q] = "whole"

(* Whatever can be seen of an artifact is complete: its metadata file is   *)
(* written last, an index names it and its id goes out only when both      *)
(* files are whole, and the body is never seen half written, whichever     *)
(* step a crash, a disk error or the cleaner comes between.                *)
SeenIsComplete ==
  \A a \in Artifacts :
    /\ file[a]["metadata"] # "none" => Complete(a)
    /\ step[a] = "returned" => Complete(a)
    /\ \A p \in Processes : a \in index[p] => Complete(a)
    /\ file[a]["body"] # "partial"

(* A load gives the whole body or a clean 404.                             *)
LoadedIsWhole == answer # NULL => answer.result \in {"whole", "404"}

(* The cleaner takes the temporary file from under a save only if that     *)
(* save was held up beyond the cleaner's threshold.                        *)
SpoiledByStall ==
  \A a \in Artifacts :
    step[a] = "replace" /\ temp[a][part[a]] # "whole" => a \in stalled

(* What failed or killed saves leave in temporary files is removed.        *)
LeftoversGo ==
  \A a \in Artifacts, q \in Parts :
    temp[a][q] # "none" /\ step[a] \in {"failed", "lost"} ~> temp[a][q] = "none"

(* An artifact whose id was given out can be loaded (FR-PARSE-007): in the *)
(* process that saved it, in the others, and after a restart.              *)
PublishedIsLoadable ==
  answer # NULL => (answer.published => answer.result = "whole")
=============================================================================
