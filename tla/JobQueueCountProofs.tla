------------------------- MODULE JobQueueCountProofs -------------------------
(***************************************************************************)
(* What the queue counts: the attempts of an item, and the ended items of  *)
(* a job.                                                                  *)
(***************************************************************************)
EXTENDS JobQueuePoolProofs

USE DEF Disturbances, ItemStates, JobStates, Terminal, Returned, Raised, Outcomes

Holders(i) == {w \in Workers : held[w] = i}

(* A worker starts to hold an item by a claim and by nothing else. *)
LEMMA HoldersStep ==
  ASSUME TypeOK, Next, NEW i \in Items
  PROVE  \/ Holders(i)' \subseteq Holders(i)
         \/ \E w \in Workers : Claim(w, i)
<1> SUFFICES ASSUME NEW w \in Workers, held'[w] = i, held[w] # i
             PROVE  Claim(w, i)
  BY DEF Holders
<1>1. held'[w] # NULL
  BY NullAssumption DEF NullAssumption
<1> QED BY <1>1, HeldSteps

LEMMA ClaimHolders ==
  ASSUME TypeOK, NEW w \in Workers, NEW i \in Items, Claim(w, i)
  PROVE  Holders(i)' = Holders(i) \cup {w} /\ w \notin Holders(i)
BY DEF Claim, Holders, TypeOK

(* A claim counts one attempt, a new item has none, and nothing else       *)
(* touches the counter: no flush writes the column.                        *)
LEMMA ClaimAttempts ==
  ASSUME TypeOK, NEW w \in Workers, NEW i \in Items, Claim(w, i)
  PROVE  items'[i].attempts = items[i].attempts + 1
BY DEF Claim, Claimed, TypeOK, ItemRow

LEMMA OtherAttempts ==
  ASSUME TypeOK, Next, NEW i \in Items, \A w \in Workers : ~Claim(w, i)
  PROVE  \/ items'[i].attempts = items[i].attempts
         \/ CreateJob(JobOf[i]) /\ items'[i].attempts = 0
<1>1. CASE UNCHANGED items
  BY <1>1
<1>2. CASE CreateJob(JobOf[i])
  BY <1>2 DEF CreateJob, NewItem
<1>3. ASSUME NEW j \in Jobs, CreateJob(j), j # JobOf[i] PROVE items'[i] = items[i]
  BY <1>3 DEF CreateJob
<1>4. ASSUME NEW w \in Workers, NEW k \in Items, Claim(w, k), k # i
      PROVE  items'[i] = items[i]
  BY <1>4 DEF Claim, TypeOK
<1>5. ASSUME NEW w \in Workers, Write(w) PROVE items'[i].attempts = items[i].attempts
  BY <1>5 DEF Write, FlushItem, TypeOK
<1>6. ASSUME \/ CancelCommit
             \/ \E k \in Items : ExpireLease(k) \/ BecomeDue(k)
      PROVE  items'[i].attempts = items[i].attempts
  BY <1>6 DEF CancelCommit, ExpireLease, BecomeDue, TypeOK, ItemRow
<1> QED BY <1>1, <1>2, <1>3, <1>4, <1>5, <1>6
        DEF Next, WorkerStep, vars, tables, workers, CancelLoad, CancelAbort, Fetch,
            GetItem, FlushAndGetJob, RefreshJob, Commit, CompleteError, AckLost, Crash,
            Restart

-----------------------------------------------------------------------------
(* Holders are counted.                                                    *)

Counted == \A i \in Items : /\ IsFiniteSet(Holders(i))
                            /\ Cardinality(Holders(i)) <= items[i].attempts

LEMMA CountedInit == Init => Counted
<1> SUFFICES ASSUME Init, NEW i \in Items
             PROVE  IsFiniteSet(Holders(i)) /\ Cardinality(Holders(i)) <= items[i].attempts
  BY DEF Counted
<1>1. Holders(i) = {}
  BY NullAssumption DEF Init, Holders, NullAssumption
<1> QED BY <1>1, FS_EmptySet DEF Init, AbsentItem, NewItem

LEMMA CountedNext ==
  ASSUME TypeOK, TypeOK', Present, Counted, [Next]_vars
  PROVE  Counted'
<1>1. CASE UNCHANGED vars
  BY <1>1 DEF vars, Counted, Holders
<1>2. CASE Next
  <2> SUFFICES ASSUME NEW i \in Items
               PROVE  /\ IsFiniteSet(Holders(i)')
                      /\ Cardinality(Holders(i)') <= items'[i].attempts
    BY DEF Counted
  <2>1. /\ IsFiniteSet(Holders(i)) /\ Cardinality(Holders(i)) \in Nat
        /\ Cardinality(Holders(i)) <= items[i].attempts
        /\ items[i].attempts \in Nat /\ items'[i].attempts \in Nat
    BY FS_CardinalityType DEF Counted, TypeOK, ItemRow
  <2>2. ASSUME NEW w \in Workers, Claim(w, i)
        PROVE  /\ IsFiniteSet(Holders(i)')
               /\ Cardinality(Holders(i)') <= items'[i].attempts
    <3>1. Holders(i)' = Holders(i) \cup {w} /\ w \notin Holders(i)
      BY <2>2, ClaimHolders
    <3>2. /\ IsFiniteSet(Holders(i)')
          /\ Cardinality(Holders(i)') = Cardinality(Holders(i)) + 1
      BY <2>1, <3>1, FS_AddElement
    <3>3. items'[i].attempts = items[i].attempts + 1
      BY <2>2, ClaimAttempts
    <3> QED BY <2>1, <3>2, <3>3
  <2>3. CASE \A w \in Workers : ~Claim(w, i)
    <3>1. Holders(i)' \subseteq Holders(i)
      BY <1>2, <2>3, HoldersStep
    <3>2. IsFiniteSet(Holders(i)') /\ Cardinality(Holders(i)') <= Cardinality(Holders(i))
      BY <2>1, <3>1, FS_Subset
    <3>3. Cardinality(Holders(i)') \in Nat
      BY <3>2, FS_CardinalityType
    <3>4. CASE items'[i].attempts = items[i].attempts
      BY <2>1, <3>2, <3>3, <3>4
    <3>5. CASE CreateJob(JobOf[i])
      <4>1. Holders(i)' = {}
        BY <3>5 DEF CreateJob, workers, Holders, Present
      <4> QED BY <2>1, <4>1, FS_EmptySet
    <3> QED BY <1>2, <2>3, <3>4, <3>5, OtherAttempts
  <2> QED BY <2>2, <2>3
<1> QED BY <1>1, <1>2

(* No execution of an item is missing from its attempts                    *)
(* (repository.py:90, 97-124).                                             *)
THEOREM HoldersAreCounted == Spec => []HoldersCounted
<1>1. Init => TypeOK /\ Present /\ Counted
  BY TypeInit, PresentInit, CountedInit
<1>2. TypeOK /\ Present /\ Counted /\ [Next]_vars => (TypeOK /\ Present /\ Counted)'
  BY TypeNext, PresentNext, CountedNext
<1>3. Counted => HoldersCounted
  BY DEF Counted, HoldersCounted, Holders
<1> QED BY <1>1, <1>2, <1>3, PTL DEF Spec

-----------------------------------------------------------------------------
(* Attempts are bounded.  What a claim takes must have been put there: by  *)
(* the job's creation, by a session that re-queues the item, or by a lease *)
(* that ran out.  The invariant charges the last to a crash or an overrun, *)
(* and keeps account of the sessions that may still re-queue.              *)

Open(w) == pc[w] \in {"flush", "refresh", "commit"}

(* The sessions that loaded few enough attempts to re-queue the item.      *)
Retriers(i) == {w \in Holders(i) : Open(w) /\ loaded[w].attempts < MaxAttempts}

(* The sessions that will take the item out of running: one that loaded it *)
(* in another state writes none when it assigns that very state.           *)
Enders(i) == {w \in Holders(i) : Open(w) => loaded[w].state = "running"}

Waiting(i) == \/ items[i].state = "queued"
              \/ items[i].state = "running" /\ items[i].leased_until = "expired"

Abandoned(i) == items[i].state = "running" /\ Enders(i) = {}

Crashes  == Budget["crash"] - budget["crash"]
Overruns == Budget["overrun"] - budget["overrun"]

ChargedHolders(i) ==
  Cardinality(Holders(i)) + (IF Waiting(i) THEN 1 ELSE 0) <= 1 + Overruns

ChargedAttempts(i) ==
  items[i].attempts >= MaxAttempts =>
    items[i].attempts + (IF Waiting(i) \/ Abandoned(i) THEN 1 ELSE 0)
                      + Cardinality(Retriers(i)) <= MaxAttempts + Crashes + Overruns

Charged ==
  /\ Crashes >= 0 /\ Overruns >= 0
  /\ \A i \in Items : ChargedHolders(i) /\ ChargedAttempts(i)

(* The numbers the invariant adds up. *)
LEMMA CountTypes ==
  ASSUME TypeOK, Counted, NEW i \in Items
  PROVE  /\ IsFiniteSet(Holders(i)) /\ Cardinality(Holders(i)) \in Nat
         /\ IsFiniteSet(Retriers(i)) /\ Cardinality(Retriers(i)) \in Nat
         /\ Cardinality(Retriers(i)) <= Cardinality(Holders(i))
         /\ Crashes \in Int /\ Overruns \in Int
         /\ items[i].attempts \in Nat /\ MaxAttempts \in Nat
<1>1. IsFiniteSet(Holders(i)) /\ Cardinality(Holders(i)) \in Nat
  BY FS_CardinalityType DEF Counted
<1>2. Retriers(i) \in SUBSET Holders(i)
  BY DEF Retriers
<1>3. IsFiniteSet(Retriers(i)) /\ Cardinality(Retriers(i)) <= Cardinality(Holders(i))
  BY <1>1, <1>2, FS_Subset
<1>4. Cardinality(Retriers(i)) \in Nat
  BY <1>3, FS_CardinalityType
<1>5. Crashes \in Int /\ Overruns \in Int
  BY ConstantsAssumption DEF Crashes, Overruns, TypeOK, ConstantsAssumption
<1>6. items[i].attempts \in Nat /\ MaxAttempts \in Nat
  BY ConstantsAssumption DEF TypeOK, ItemRow, ConstantsAssumption
<1> QED BY <1>1, <1>3, <1>4, <1>5, <1>6

LEMMA ChargedInit == Init => Charged
<1> SUFFICES ASSUME Init PROVE Charged
  OBVIOUS
<1>1. Crashes = 0 /\ Overruns = 0
  BY ConstantsAssumption DEF Init, Crashes, Overruns, ConstantsAssumption
<1>2. ASSUME NEW i \in Items PROVE ChargedHolders(i) /\ ChargedAttempts(i)
  <2>1. Holders(i) = {}
    BY NullAssumption DEF Init, Holders, NullAssumption
  <2>2. Cardinality(Holders(i)) = 0
    BY <2>1, FS_EmptySet
  <2>3. ~Waiting(i) /\ items[i].attempts = 0
    BY DEF Init, Waiting, AbsentItem, NewItem
  <2>4. MaxAttempts > 0
    BY ConstantsAssumption DEF ConstantsAssumption
  <2> QED BY <1>1, <2>2, <2>3, <2>4, ConstantsAssumption
          DEF ChargedHolders, ChargedAttempts, ConstantsAssumption
<1> QED BY <1>1, <1>2 DEF Charged

(* Crashes and overruns are spent, never regained. *)
LEMMA SpentStep ==
  ASSUME TypeOK, Next
  PROVE  /\ Crashes' >= Crashes /\ Overruns' >= Overruns
         /\ \A w \in Workers : Crash(w) => Crashes' = Crashes + 1
         /\ \A i \in Items : ExpireLease(i) /\ Holders(i) # {} => Overruns' = Overruns + 1
<1>0. /\ \A d \in Disturbances : Budget[d] \in Nat /\ budget[d] \in Nat
      /\ budget \in [Disturbances -> Nat]
  BY ConstantsAssumption DEF TypeOK, ConstantsAssumption
<1>1. ASSUME NEW d \in Disturbances, Spend(d)
      PROVE  /\ budget'[d] = budget[d] - 1
             /\ \A e \in Disturbances : e # d => budget'[e] = budget[e]
  BY <1>0, <1>1 DEF Spend
<1>2. \/ UNCHANGED budget
      \/ \E d \in Disturbances : Spend(d)
  BY DEF Next, WorkerStep, tables, workers, CreateJob, CancelLoad, CancelCommit,
         CancelAbort, Claim, Fetch, GetItem, FlushAndGetJob, RefreshJob, Commit,
         CompleteError, AckLost, Crash, Restart, ExpireLease, BecomeDue
<1>3. Crashes' >= Crashes /\ Overruns' >= Overruns
  BY <1>0, <1>1, <1>2 DEF Crashes, Overruns
<1>4. ASSUME NEW w \in Workers, Crash(w) PROVE Crashes' = Crashes + 1
  <2>1. Spend("crash")
    BY <1>4 DEF Crash
  <2> QED BY <1>0, <1>1, <2>1 DEF Crashes
<1>5. ASSUME NEW i \in Items, ExpireLease(i), Holders(i) # {}
      PROVE  Overruns' = Overruns + 1
  <2>1. Spend("overrun")
    BY <1>5 DEF ExpireLease, Holders
  <2> QED BY <1>0, <1>1, <2>1 DEF Overruns
<1> QED BY <1>3, <1>4, <1>5

(* A step that adds nothing to the account of i leaves it in balance. *)
LEMMA Relief ==
  ASSUME TypeOK, TypeOK', Counted, Charged, Next, NEW i \in Items,
         Holders(i)' \subseteq Holders(i),
         items[i].attempts >= MaxAttempts => Retriers(i)' \subseteq Retriers(i),
         items'[i].attempts = items[i].attempts,
         Waiting(i)' => Waiting(i),
         Abandoned(i)' => Waiting(i) \/ Abandoned(i)
  PROVE  ChargedHolders(i)' /\ ChargedAttempts(i)'
<1>1. /\ Crashes' >= Crashes /\ Overruns' >= Overruns
      /\ Crashes' \in Int /\ Overruns' \in Int
  BY SpentStep, ConstantsAssumption DEF Crashes, Overruns, TypeOK, ConstantsAssumption
<1>2. /\ Cardinality(Holders(i)') \in Nat
      /\ Cardinality(Holders(i)') <= Cardinality(Holders(i))
  BY CountTypes, FS_Subset, FS_CardinalityType
<1>3. ASSUME items[i].attempts >= MaxAttempts
      PROVE  /\ Cardinality(Retriers(i)') \in Nat
             /\ Cardinality(Retriers(i)') <= Cardinality(Retriers(i))
  BY <1>3, CountTypes, FS_Subset, FS_CardinalityType
<1>4. ChargedHolders(i)'
  BY <1>1, <1>2, CountTypes DEF Charged, ChargedHolders
<1>5. ChargedAttempts(i)'
  BY <1>1, <1>3, CountTypes DEF Charged, ChargedAttempts
<1> QED BY <1>4, <1>5

(* The sessions on i, when one that is not on i moves. *)
LEMMA OthersKept ==
  ASSUME TypeOK, Next, NEW i \in Items, NEW v \in Workers, OwnStep(v),
         held[v] # i, held'[v] # i
  PROVE  /\ Holders(i)' = Holders(i)
         /\ Retriers(i)' = Retriers(i)
         /\ Enders(i)' = Enders(i)
<1>1. ASSUME NEW w \in Workers, w # v PROVE Session(w)' = Session(w)
  BY <1>1, SessionsApart
<1>2. Holders(i)' = Holders(i) /\ v \notin Holders(i)
  BY <1>1 DEF Holders, Session
<1>3. ASSUME NEW w \in Holders(i)
      PROVE  pc'[w] = pc[w] /\ loaded'[w] = loaded[w]
  BY <1>1, <1>2 DEF Session, Holders
<1> QED BY <1>2, <1>3 DEF Retriers, Enders, Open

LEMMA SessionsKept ==
  ASSUME UNCHANGED workers, NEW i \in Items
  PROVE  /\ Holders(i)' = Holders(i)
         /\ Retriers(i)' = Retriers(i)
         /\ Enders(i)' = Enders(i)
BY DEF workers, Holders, Retriers, Enders, Open

LEMMA ChargedCreate ==
  ASSUME TypeOK, TypeOK', Present, Counted, Charged, Next,
         NEW i \in Items, NEW j \in Jobs, CreateJob(j)
  PROVE  ChargedHolders(i)' /\ ChargedAttempts(i)'
<1>1. CASE JobOf[i] # j
  <2>1. items'[i] = items[i]
    BY <1>1 DEF CreateJob
  <2>2. UNCHANGED workers
    BY DEF CreateJob
  <2> QED BY <2>1, <2>2, SessionsKept, Relief DEF Waiting, Abandoned
<1>2. CASE JobOf[i] = j
  <2>1. Holders(i)' = {}
    BY <1>2 DEF CreateJob, workers, Holders, Present
  <2>2. Cardinality(Holders(i)') = 0
    BY <2>1, FS_EmptySet
  <2>3. Overruns' >= 0 /\ Overruns' \in Int
    BY SpentStep, ConstantsAssumption
       DEF Charged, Crashes, Overruns, TypeOK, ConstantsAssumption
  <2>4. items'[i].attempts = 0 /\ MaxAttempts \in Nat \ {0}
    BY <1>2, ConstantsAssumption DEF CreateJob, NewItem, ConstantsAssumption
  <2> QED BY <2>2, <2>3, <2>4 DEF ChargedHolders, ChargedAttempts
<1> QED BY <1>1, <1>2

LEMMA ChargedClaim ==
  ASSUME TypeOK, TypeOK', Counted, Counted', Charged, Next,
         NEW i \in Items, NEW w \in Workers, Claim(w, i)
  PROVE  ChargedHolders(i)' /\ ChargedAttempts(i)'
<1>1. /\ Holders(i)' = Holders(i) \cup {w} /\ w \notin Holders(i)
      /\ items'[i].attempts = items[i].attempts + 1
  BY ClaimHolders, ClaimAttempts
<1>2. Cardinality(Holders(i)') = Cardinality(Holders(i)) + 1
  BY <1>1, CountTypes, FS_AddElement
<1>3. UNCHANGED budget /\ Crashes' = Crashes /\ Overruns' = Overruns
  BY DEF Claim, Crashes, Overruns
<1>4. Waiting(i) /\ ~Waiting(i)' /\ w \in Enders(i)' /\ ~Abandoned(i)'
  BY <1>1 DEF Claim, Claimable, Claimed, Waiting, Abandoned, Enders, Open, TypeOK, ItemRow
<1>5. Retriers(i)' = Retriers(i)
  <2>1. ASSUME NEW v \in Holders(i)
        PROVE  v # w /\ pc'[v] = pc[v] /\ loaded'[v] = loaded[v]
    BY <1>1 DEF Claim, TypeOK, Holders
  <2>2. w \notin Retriers(i)'
    BY DEF Claim, Retriers, Open, TypeOK
  <2> QED BY <1>1, <2>1, <2>2 DEF Retriers, Open
<1>6. ChargedHolders(i)'
  BY <1>2, <1>3, <1>4, CountTypes DEF Charged, ChargedHolders
<1>7. ChargedAttempts(i)'
  <2>1. CASE items[i].attempts >= MaxAttempts
    BY <1>1, <1>3, <1>4, <1>5, <2>1, CountTypes DEF Charged, ChargedAttempts
  <2>2. CASE items[i].attempts < MaxAttempts
    <3>1. Cardinality(Retriers(i)) <= Overruns
      BY <1>4, CountTypes DEF Charged, ChargedHolders
    <3> QED BY <1>1, <1>3, <1>4, <1>5, <2>2, <3>1, CountTypes DEF Charged, ChargedAttempts
  <2> QED BY <2>1, <2>2, CountTypes
<1> QED BY <1>6, <1>7

(* Another item is claimed, or a step of a session that is not on i. *)
LEMMA ChargedElsewhere ==
  ASSUME TypeOK, TypeOK', Counted, Charged, Next,
         NEW i \in Items, NEW w \in Workers, OwnStep(w),
         held[w] # i, held'[w] # i, items'[i] = items[i]
  PROVE  ChargedHolders(i)' /\ ChargedAttempts(i)'
BY OthersKept, Relief DEF Waiting, Abandoned

(* A session on i that neither starts nor ends. *)
LEMMA ChargedReads ==
  ASSUME TypeOK, TypeOK', Counted, Charged, Next,
         NEW i \in Items, NEW w \in Workers, held[w] = i,
         \/ Fetch(w) \/ GetItem(w) \/ FlushAndGetJob(w) \/ RefreshJob(w)
         \/ CompleteError(w)
  PROVE  ChargedHolders(i)' /\ ChargedAttempts(i)'
<1>1. items' = items /\ held' = held
  BY DEF Fetch, GetItem, FlushAndGetJob, RefreshJob, CompleteError, Report, tables
<1>2. Holders(i)' = Holders(i) /\ w \in Holders(i)
  BY <1>1 DEF Holders
<1>3. ASSUME NEW v \in Holders(i), v # w
      PROVE  pc'[v] = pc[v] /\ loaded'[v] = loaded[v]
  <2>1. OwnStep(w)
    BY DEF OwnStep, WorkerStep
  <2> QED BY <1>3, <2>1, SessionsApart DEF Session, Holders
<1>4. CASE GetItem(w)
  <2>1. Open(w)' /\ loaded'[w] = items[i]
    BY <1>4 DEF GetItem, Open, TypeOK
  <2>2. items[i].attempts >= MaxAttempts => Retriers(i)' \subseteq Retriers(i)
    <3>0. /\ items[i].attempts \in Nat /\ MaxAttempts \in Nat
          /\ loaded'[w].attempts = items[i].attempts
      BY <2>1, CountTypes
    <3>1. items[i].attempts >= MaxAttempts => w \notin Retriers(i)'
      BY <3>0 DEF Retriers
    <3> QED BY <1>2, <1>3, <3>1 DEF Retriers, Open
  <2>3. Abandoned(i)' => Abandoned(i)
    <3>1. items[i].state = "running" => Enders(i) \subseteq Enders(i)'
      BY <1>2, <1>3, <2>1 DEF Enders, Open
    <3> QED BY <1>1, <3>1 DEF Abandoned
  <2> QED BY <1>1, <1>2, <2>2, <2>3, Relief DEF Waiting
<1>5. CASE ~GetItem(w)
  <2>1. \/ Open(w)' = Open(w) /\ loaded'[w] = loaded[w]
        \/ ~Open(w)'
    BY <1>5 DEF Fetch, FlushAndGetJob, RefreshJob, CompleteError, Report, Open, TypeOK
  <2>2. Retriers(i)' \subseteq Retriers(i)
    BY <1>2, <1>3, <2>1 DEF Retriers, Open
  <2>3. Enders(i) \subseteq Enders(i)'
    BY <1>2, <1>3, <2>1 DEF Enders, Open
  <2> QED BY <1>1, <1>2, <2>2, <2>3, Relief DEF Waiting, Abandoned
<1> QED BY <1>4, <1>5

(* What a commit makes of the row's state and lease: it re-queues only     *)
(* with attempts to spare, and is silent only when the session found the   *)
(* item out of running.                                                    *)
LEMMA FlushEnds ==
  ASSUME NEW row \in ItemRow, NEW old \in ItemRow, NEW out \in Outcomes,
         NEW new, new = FlushItem(row, old, Assigned(old, out)),
         ~(old.attempts < MaxAttempts)
  PROVE  \/ new.state \in Terminal
         \/ /\ old.state # "running"
            /\ new.state = row.state
            /\ new.leased_until = "expired" => row.leased_until = "expired"
<1>1. Assigned(old, out).state \in {"succeeded", "failed"}
  BY DEF Assigned, Completed, Failed, Retries, ItemRow
<1>2. Assigned(old, out).leased_until = NULL
  BY DEF Assigned, Completed, Failed, Retries, ItemRow
<1>3. NULL # "expired"
  BY NullAssumption DEF NullAssumption
<1> QED BY <1>1, <1>2, <1>3 DEF FlushItem

(* A session on i ends: it leaves the three sets and the others stay. *)
LEMMA SessionEnds ==
  ASSUME TypeOK, Counted, NEW i \in Items, NEW w \in Workers, held[w] = i,
         \E l : Leave(w, l)
  PROVE  /\ Holders(i)' = Holders(i) \ {w} /\ w \in Holders(i)
         /\ Retriers(i)' = Retriers(i) \ {w}
         /\ Enders(i)' = Enders(i) \ {w}
         /\ Cardinality(Holders(i)') = Cardinality(Holders(i)) - 1
         /\ Cardinality(Retriers(i)') \in Nat
         /\ Cardinality(Retriers(i)') <= Cardinality(Retriers(i))
         /\ w \in Retriers(i) =>
              Cardinality(Retriers(i)') = Cardinality(Retriers(i)) - 1
<1>1. \A v \in Workers \ {w} :
        held'[v] = held[v] /\ pc'[v] = pc[v] /\ loaded'[v] = loaded[v]
  BY DEF Leave, TypeOK
<1>2. held'[w] # i
  BY NullAssumption DEF Leave, TypeOK, NullAssumption
<1>3. Holders(i)' = Holders(i) \ {w} /\ w \in Holders(i)
  BY <1>1, <1>2 DEF Holders
<1>4. Retriers(i)' = Retriers(i) \ {w}
  BY <1>1, <1>3 DEF Retriers, Open, Holders
<1>5. Enders(i)' = Enders(i) \ {w}
  BY <1>1, <1>3 DEF Enders, Open, Holders
<1>6. Cardinality(Holders(i)') = Cardinality(Holders(i)) - 1
  <2>1. IsFiniteSet(Holders(i))
    BY CountTypes
  <2> QED BY <1>3, <2>1, FS_RemoveElement
<1>7. /\ IsFiniteSet(Retriers(i)')
      /\ w \in Retriers(i) => Cardinality(Retriers(i)') = Cardinality(Retriers(i)) - 1
      /\ w \notin Retriers(i) => Cardinality(Retriers(i)') = Cardinality(Retriers(i))
  BY <1>4, CountTypes, FS_RemoveElement
<1>8. Cardinality(Retriers(i)') \in Nat
  BY <1>7, FS_CardinalityType
<1> QED BY <1>3, <1>4, <1>5, <1>6, <1>7, <1>8, CountTypes

LEMMA ChargedCommit ==
  ASSUME TypeOK, TypeOK', Counted, Charged, Next,
         NEW i \in Items, NEW w \in Workers, Commit(w), held[w] = i
  PROVE  ChargedHolders(i)' /\ ChargedAttempts(i)'
<1>1. Leave(w, "idle") /\ \E l : Leave(w, l)
  BY DEF Commit
<1>2. /\ loaded[w] \in ItemRow /\ outcome[w] \in Outcomes /\ items[i] \in ItemRow
      /\ items'[i] = FlushItem(items[i], loaded[w], Assigned(loaded[w], outcome[w]))
      /\ items'[i].attempts = items[i].attempts
      /\ Open(w)
  BY DEF Commit, Write, TypeOK, FlushItem, Open
<1>3. CASE w \in Retriers(i)
  <2>1. /\ Cardinality(Holders(i)') = Cardinality(Holders(i)) - 1
        /\ Cardinality(Retriers(i)') = Cardinality(Retriers(i)) - 1
    BY <1>1, <1>3, SessionEnds
  <2>2. Crashes' = Crashes /\ Overruns' = Overruns
    BY DEF Commit, Crashes, Overruns
  <2>3. ChargedHolders(i)'
    BY <2>1, <2>2, CountTypes DEF Charged, ChargedHolders
  <2>4. ChargedAttempts(i)'
    BY <1>2, <2>1, <2>2, CountTypes DEF Charged, ChargedAttempts
  <2> QED BY <2>3, <2>4
<1>4. CASE w \notin Retriers(i)
  <2>1. ~(loaded[w].attempts < MaxAttempts)
    BY <1>2, <1>4 DEF Retriers, Holders
  <2>2. /\ Holders(i)' \subseteq Holders(i) /\ Retriers(i)' \subseteq Retriers(i)
        /\ Enders(i)' = Enders(i) \ {w}
    BY <1>1, SessionEnds
  <2>3. CASE items'[i].state \in Terminal
    BY <1>2, <2>2, <2>3, Relief DEF Waiting, Abandoned
  <2>4. CASE items'[i].state \notin Terminal
    <3>1. /\ loaded[w].state # "running"
          /\ items'[i].state = items[i].state
          /\ items'[i].leased_until = "expired" => items[i].leased_until = "expired"
      BY <1>2, <2>1, <2>4, FlushEnds
    <3>2. w \notin Enders(i)
      BY <1>2, <3>1 DEF Enders
    <3>3. Enders(i)' = Enders(i)
      BY <2>2, <3>2
    <3> QED BY <1>2, <2>2, <3>1, <3>3, Relief DEF Waiting, Abandoned
  <2> QED BY <2>3, <2>4
<1> QED BY <1>3, <1>4

(* A completion whose acknowledgement is lost: the session closes and its  *)
(* worker keeps the item.                                                  *)
LEMMA ChargedAckLost ==
  ASSUME TypeOK, TypeOK', Counted, Charged, Next,
         NEW i \in Items, NEW w \in Workers, AckLost(w), held[w] = i
  PROVE  ChargedHolders(i)' /\ ChargedAttempts(i)'
<1>1. /\ held' = held /\ pc'[w] = "get" /\ loaded[w] \in ItemRow /\ outcome[w] \in Returned
      /\ items'[i] = FlushItem(items[i], loaded[w], Assigned(loaded[w], outcome[w]))
  BY DEF AckLost, Report, Write, TypeOK
<1>2. ASSUME NEW v \in Holders(i), v # w
      PROVE  pc'[v] = pc[v] /\ loaded'[v] = loaded[v]
  BY <1>2 DEF AckLost, Report, Holders, TypeOK
<1>3. Holders(i)' = Holders(i) /\ w \in Holders(i)
  BY <1>1 DEF Holders
<1>4. w \notin Retriers(i)' /\ w \in Enders(i)'
  BY <1>1, <1>3 DEF Retriers, Enders, Open
<1>5. Retriers(i)' \subseteq Retriers(i)
  BY <1>2, <1>3, <1>4 DEF Retriers, Open
<1>6. /\ Assigned(loaded[w], outcome[w]).state = "succeeded"
      /\ Assigned(loaded[w], outcome[w]).leased_until = NULL
      /\ NULL # "expired"
  BY <1>1, NullAssumption DEF Assigned, Completed, ItemRow, NullAssumption
<1>7. /\ items'[i].attempts = items[i].attempts
      /\ Waiting(i)' => Waiting(i)
  BY <1>1, <1>6 DEF FlushItem, Waiting
<1>8. ~Abandoned(i)'
  BY <1>4 DEF Abandoned
<1> QED BY <1>3, <1>5, <1>7, <1>8, Relief

LEMMA ChargedCrash ==
  ASSUME TypeOK, TypeOK', Counted, Charged, Next,
         NEW i \in Items, NEW w \in Workers, Crash(w), held[w] = i
  PROVE  ChargedHolders(i)' /\ ChargedAttempts(i)'
<1>1. items' = items /\ \E l : Leave(w, l)
  BY DEF Crash, tables
<1>2. /\ Cardinality(Holders(i)') = Cardinality(Holders(i)) - 1
      /\ Cardinality(Retriers(i)') \in Nat
      /\ Cardinality(Retriers(i)') <= Cardinality(Retriers(i))
  BY <1>1, SessionEnds
<1>3. /\ Crashes' = Crashes + 1 /\ Overruns' >= Overruns /\ Overruns' \in Int
  BY SpentStep, ConstantsAssumption DEF Overruns, TypeOK, ConstantsAssumption
<1>4. Waiting(i)' <=> Waiting(i)
  BY <1>1 DEF Waiting
<1>5. ChargedHolders(i)'
  BY <1>2, <1>3, <1>4, CountTypes DEF Charged, ChargedHolders
<1>6. ChargedAttempts(i)'
  BY <1>1, <1>2, <1>3, CountTypes DEF Charged, ChargedAttempts
<1> QED BY <1>5, <1>6

(* The lease of an item nobody holds runs out: if the item was running, it *)
(* was abandoned, which a crash has paid for.                              *)
LEMMA ChargedUnheld ==
  ASSUME TypeOK, TypeOK', Counted, Charged, Next,
         NEW i \in Items, ExpireLease(i), Holders(i) = {}
  PROVE  ChargedHolders(i)' /\ ChargedAttempts(i)'
<1>1. UNCHANGED workers /\ items'[i].attempts = items[i].attempts
                        /\ items'[i].state = items[i].state
  BY DEF ExpireLease, TypeOK, ItemRow
<1>2. /\ Holders(i)' = {} /\ Retriers(i)' = Retriers(i) /\ Enders(i) = {}
  BY <1>1, SessionsKept DEF Enders
<1>3. Cardinality(Holders(i)') = 0
  BY <1>2, FS_EmptySet
<1>4. Overruns' >= 0 /\ Overruns' \in Int
  BY SpentStep, ConstantsAssumption
     DEF Charged, Overruns, TypeOK, ConstantsAssumption
<1>5. ChargedHolders(i)'
  BY <1>3, <1>4 DEF ChargedHolders, Overruns, TypeOK
<1>6. /\ Crashes' >= Crashes /\ Overruns' >= Overruns
      /\ Crashes' \in Int /\ Overruns' \in Int
  BY SpentStep, ConstantsAssumption DEF Crashes, Overruns, TypeOK, ConstantsAssumption
<1>7. Waiting(i)' \/ Abandoned(i)' => Waiting(i) \/ Abandoned(i)
  BY <1>1, <1>2 DEF Waiting, Abandoned
<1>8. ChargedAttempts(i)'
  BY <1>1, <1>2, <1>6, <1>7, CountTypes DEF Charged, ChargedAttempts
<1> QED BY <1>5, <1>8

LEMMA ChargedOverrun ==
  ASSUME TypeOK, TypeOK', Counted, Charged, Next,
         NEW i \in Items, ExpireLease(i), Holders(i) # {}
  PROVE  ChargedHolders(i)' /\ ChargedAttempts(i)'
<1>1. UNCHANGED workers /\ items'[i].attempts = items[i].attempts
  BY DEF ExpireLease, TypeOK, ItemRow
<1>2. Holders(i)' = Holders(i) /\ Retriers(i)' = Retriers(i)
  BY <1>1, SessionsKept
<1>3. Crashes' >= Crashes /\ Crashes' \in Int /\ Overruns' = Overruns + 1
  BY SpentStep, ConstantsAssumption DEF Crashes, TypeOK, ConstantsAssumption
<1>4. ChargedHolders(i)'
  BY <1>2, <1>3, CountTypes DEF Charged, ChargedHolders
<1>5. ChargedAttempts(i)'
  BY <1>1, <1>2, <1>3, CountTypes DEF Charged, ChargedAttempts
<1> QED BY <1>4, <1>5

LEMMA ChargedTime ==
  ASSUME TypeOK, TypeOK', Counted, Charged, Next,
         NEW i \in Items, NEW k \in Items, ExpireLease(k) \/ BecomeDue(k)
  PROVE  ChargedHolders(i)' /\ ChargedAttempts(i)'
<1>1. CASE BecomeDue(k) \/ k # i
  <2>1. /\ UNCHANGED workers /\ items'[i].attempts = items[i].attempts
        /\ items'[i].state = items[i].state
        /\ items'[i].leased_until = items[i].leased_until
    BY <1>1 DEF ExpireLease, BecomeDue, TypeOK, ItemRow
  <2> QED BY <2>1, SessionsKept, Relief DEF Waiting, Abandoned
<1>2. CASE ExpireLease(i)
  BY <1>2, ChargedUnheld, ChargedOverrun
<1> QED BY <1>1, <1>2

LEMMA ChargedCancel ==
  ASSUME TypeOK, TypeOK', Counted, Charged, Next, NEW i \in Items,
         CancelCommit \/ CancelAbort \/ \E j \in Jobs : CancelLoad(j)
  PROVE  ChargedHolders(i)' /\ ChargedAttempts(i)'
<1>1. UNCHANGED workers /\ \/ items'[i] = items[i]
                           \/ /\ items'[i].state = "cancelled"
                              /\ items'[i].attempts = items[i].attempts
  BY DEF CancelCommit, CancelAbort, CancelLoad, tables, TypeOK, ItemRow
<1> QED BY <1>1, SessionsKept, Relief DEF Waiting, Abandoned

LEMMA ChargedNext ==
  ASSUME TypeOK, TypeOK', Present, Counted, Counted', Charged, [Next]_vars
  PROVE  Charged'
<1>1. CASE UNCHANGED vars
  BY <1>1, SessionsKept
     DEF vars, workers, Charged, ChargedHolders, ChargedAttempts, Waiting, Abandoned,
         Crashes, Overruns
<1>2. CASE Next
  <2>1. Crashes' >= 0 /\ Overruns' >= 0
    BY <1>2, SpentStep, ConstantsAssumption
       DEF Charged, Crashes, Overruns, TypeOK, ConstantsAssumption
  <2>2. ASSUME NEW i \in Items PROVE ChargedHolders(i)' /\ ChargedAttempts(i)'
    <3>1. ASSUME NEW j \in Jobs, CreateJob(j) PROVE ChargedHolders(i)' /\ ChargedAttempts(i)'
      BY <1>2, <3>1, ChargedCreate
    <3>2. ASSUME \/ CancelCommit \/ CancelAbort \/ \E j \in Jobs : CancelLoad(j)
                 \/ \E k \in Items : ExpireLease(k) \/ BecomeDue(k)
          PROVE  ChargedHolders(i)' /\ ChargedAttempts(i)'
      BY <1>2, <3>2, ChargedCancel, ChargedTime
    <3>3. ASSUME NEW w \in Workers, OwnStep(w)
          PROVE  ChargedHolders(i)' /\ ChargedAttempts(i)'
      <4>1. CASE held[w] = i
        <5>1. pc[w] \notin {"idle", "down"}
          BY <4>1 DEF TypeOK
        <5> QED BY <1>2, <3>3, <4>1, <5>1, ChargedReads, ChargedCommit, ChargedAckLost,
                   ChargedCrash
                DEF OwnStep, WorkerStep, Claim, Restart
      <4>2. CASE Claim(w, i)
        BY <1>2, <4>2, ChargedClaim
      <4>3. CASE held[w] # i /\ ~Claim(w, i)
        <5>1. items'[i] = items[i]
          BY <3>3, <4>3 DEF OwnStep, WorkerStep, Claim, Fetch, GetItem, FlushAndGetJob,
                            RefreshJob, Commit, CompleteError, AckLost, Report, Write,
                            Crash, Restart, tables, TypeOK
        <5>2. held'[w] # i
          BY <1>2, <4>3, HeldSteps, NullAssumption DEF NullAssumption
        <5> QED BY <1>2, <3>3, <4>3, <5>1, <5>2, ChargedElsewhere
      <4> QED BY <4>1, <4>2, <4>3
    <3> QED BY <1>2, <3>1, <3>2, <3>3 DEF Next, OwnStep
  <2> QED BY <2>1, <2>2 DEF Charged
<1> QED BY <1>1, <1>2

LEMMA ChargedBounds == TypeOK /\ Counted /\ Charged => AttemptsBounded
<1> SUFFICES ASSUME TypeOK, Counted, Charged, NEW i \in Items
             PROVE  items[i].attempts <= MaxAttempts + Crashes + Overruns
  BY DEF AttemptsBounded, Crashes, Overruns
<1>1. CASE items[i].attempts < MaxAttempts
  BY <1>1, CountTypes DEF Charged
<1>2. CASE items[i].attempts >= MaxAttempts
  BY <1>2, CountTypes DEF Charged, ChargedAttempts
<1> QED BY <1>1, <1>2, CountTypes

(* However sessions interleave, an item is claimed at most max_attempts    *)
(* times, and once more for each crash and each overrun                    *)
(* (repository.py:78, 90, 117).                                            *)
THEOREM AttemptsAreBounded == Spec => []AttemptsBounded
<1>1. Init => TypeOK /\ Present /\ Counted /\ Charged
  BY TypeInit, PresentInit, CountedInit, ChargedInit
<1>2. TypeOK /\ Present /\ Counted /\ Charged /\ [Next]_vars
        => (TypeOK /\ Present /\ Counted /\ Charged)'
  BY TypeNext, PresentNext, CountedNext, ChargedNext
<1> QED BY <1>1, <1>2, ChargedBounds, PTL DEF Spec

-----------------------------------------------------------------------------
(* Job summaries.  How a job row and a view of its items' states compare.  *)

Tally(is, view, s) == Cardinality({i \in is : view[i] = s})

(* Against the items of a job that have a result, and those that failed.   *)
SoundFor(row, is, got, lost) ==
  /\ row.succeeded_count <= Cardinality(is \cap got)
  /\ row.failed_count <= Cardinality(is \cap lost)
  /\ row.state = "succeeded" => is \subseteq got
  /\ row.state = "failed" => is \subseteq got \cup lost /\ is \cap lost # {}

ExactFor(row, is, view) ==
  /\ row.succeeded_count = Tally(is, view, "succeeded")
  /\ row.failed_count = Tally(is, view, "failed")
  /\ (\A i \in is : view[i] \in Terminal) =>
       row.state = IF Tally(is, view, "failed") > 0 THEN "failed" ELSE "succeeded"

LEMMA TallyType ==
  ASSUME NEW is \in SUBSET Items, NEW view, NEW s
  PROVE  IsFiniteSet({i \in is : view[i] = s}) /\ Tally(is, view, s) \in Nat
<1>1. IsFiniteSet({i \in is : view[i] = s})
  BY FS_Subset, ConstantsAssumption DEF ConstantsAssumption
<1> QED BY <1>1, FS_CardinalityType DEF Tally

LEMMA SmallerCount ==
  ASSUME NEW is \in SUBSET Items, NEW S, NEW T, is \cap S \subseteq T
  PROVE  /\ Cardinality(is \cap S) <= Cardinality(is \cap T)
         /\ Cardinality(is \cap S) \in Nat /\ Cardinality(is \cap T) \in Nat
<1>1. IsFiniteSet(is \cap S) /\ IsFiniteSet(is \cap T)
  BY FS_Subset, ConstantsAssumption DEF ConstantsAssumption
<1>2. is \cap S \in SUBSET (is \cap T)
  OBVIOUS
<1> QED BY <1>1, <1>2, FS_Subset, FS_CardinalityType

(* Results and failures that stay keep a sound row sound. *)
LEMMA SoundKept ==
  ASSUME NEW row \in JobRow, NEW is \in SUBSET Items,
         NEW got, NEW lost, NEW got2, NEW lost2,
         is \cap got \subseteq got2, is \cap lost \subseteq lost2,
         SoundFor(row, is, got, lost)
  PROVE  SoundFor(row, is, got2, lost2)
<1>1. /\ Cardinality(is \cap got) <= Cardinality(is \cap got2)
      /\ Cardinality(is \cap got) \in Nat /\ Cardinality(is \cap got2) \in Nat
  BY SmallerCount
<1>2. /\ Cardinality(is \cap lost) <= Cardinality(is \cap lost2)
      /\ Cardinality(is \cap lost) \in Nat /\ Cardinality(is \cap lost2) \in Nat
  BY SmallerCount
<1>3. row.succeeded_count \in Nat /\ row.failed_count \in Nat
  BY DEF JobRow
<1>4. /\ row.succeeded_count <= Cardinality(is \cap got2)
      /\ row.failed_count <= Cardinality(is \cap lost2)
  BY <1>1, <1>2, <1>3 DEF SoundFor
<1>5. row.state = "succeeded" => is \subseteq got2
  BY DEF SoundFor
<1>6. row.state = "failed" => is \subseteq got2 \cup lost2 /\ is \cap lost2 # {}
  BY DEF SoundFor
<1> QED BY <1>4, <1>5, <1>6 DEF SoundFor

(* _refresh_job computes a sound row from one, where the view shows as     *)
(* succeeded what has a result, as failed what failed, and nothing         *)
(* cancelled.                                                              *)
LEMMA SoundRefreshed ==
  ASSUME NEW row \in JobRow, NEW is \in SUBSET Items, NEW view, NEW got, NEW lost,
         SoundFor(row, is, got, lost),
         \A i \in is : /\ view[i] = "succeeded" => i \in got
                       /\ view[i] = "failed" <=> i \in lost
                       /\ view[i] # "cancelled"
  PROVE  SoundFor(Refreshed(row, is, view), is, got, lost)
<1> DEFINE new == Refreshed(row, is, view)
           S == {i \in is : view[i] = "succeeded"}
           F == {i \in is : view[i] = "failed"}
<1>1. new.succeeded_count = Cardinality(S) /\ new.failed_count = Cardinality(F)
  BY DEF Refreshed
<1>2. S = is \cap S /\ S \subseteq got /\ F = is \cap lost
  OBVIOUS
<1>3. Cardinality(S) <= Cardinality(is \cap got)
  <2>1. is \cap S \subseteq got
    BY <1>2
  <2>2. Cardinality(is \cap S) <= Cardinality(is \cap got)
    BY <2>1, SmallerCount
  <2> QED BY <1>2, <2>2
<1>4. Cardinality(F) <= Cardinality(is \cap lost)
  <2>1. Cardinality(is \cap lost) <= Cardinality(is \cap lost)
    BY SmallerCount
  <2> QED BY <1>2, <2>1
<1>5. new.state = "succeeded" => is \subseteq got
  <2>1. CASE ~\A i \in is : view[i] \in Terminal
    <3>1. new.state \in {"running", row.state}
      BY <2>1 DEF Refreshed
    <3> QED BY <3>1 DEF SoundFor
  <2>2. CASE (\A i \in is : view[i] \in Terminal) /\ Cardinality(F) > 0
    BY <2>2 DEF Refreshed
  <2>3. CASE (\A i \in is : view[i] \in Terminal) /\ ~(Cardinality(F) > 0)
    <3>1. F = {}
      <4>1. IsFiniteSet(F)
        BY FS_Subset, ConstantsAssumption DEF ConstantsAssumption
      <4>2. Cardinality(F) = 0
        BY <2>3, <4>1, FS_CardinalityType
      <4> QED BY <4>1, <4>2, FS_EmptySet
    <3> QED BY <2>3, <3>1
  <2> QED BY <2>1, <2>2, <2>3
<1>6. new.state = "failed" => is \subseteq got \cup lost /\ is \cap lost # {}
  <2>1. CASE ~\A i \in is : view[i] \in Terminal
    <3>1. new.state \in {"running", row.state}
      BY <2>1 DEF Refreshed
    <3> QED BY <3>1 DEF SoundFor
  <2>2. CASE (\A i \in is : view[i] \in Terminal) /\ Cardinality(F) > 0
    <3>1. F # {}
      BY <2>2, FS_EmptySet
    <3> QED BY <1>2, <2>2, <3>1
  <2>3. CASE (\A i \in is : view[i] \in Terminal) /\ ~(Cardinality(F) > 0)
    BY <2>3 DEF Refreshed
  <2> QED BY <2>1, <2>2, <2>3
<1> QED BY <1>1, <1>3, <1>4, <1>5, <1>6 DEF SoundFor

(* Sound columns may be mixed. *)
LEMMA SoundFlushed ==
  ASSUME NEW row \in JobRow, NEW old \in JobRow, NEW new \in JobRow,
         NEW is, NEW got, NEW lost,
         SoundFor(row, is, got, lost), SoundFor(new, is, got, lost)
  PROVE  SoundFor(FlushJob(row, old, new), is, got, lost)
BY DEF FlushJob, SoundFor

(* Exactness does not depend on which of the other states an item has.     *)
LEMMA ExactKept ==
  ASSUME NEW row \in JobRow, NEW is \in SUBSET Items, NEW old, NEW new,
         \A i \in is : old[i] \in Terminal \/ new[i] \in Terminal => new[i] = old[i],
         ExactFor(row, is, old)
  PROVE  ExactFor(row, is, new)
<1>1. ASSUME NEW s \in Terminal PROVE Tally(is, old, s) = Tally(is, new, s)
  <2>1. \A i \in is : old[i] = s <=> new[i] = s
    OBVIOUS
  <2>2. {i \in is : old[i] = s} = {i \in is : new[i] = s}
    BY <2>1
  <2> QED BY <2>2 DEF Tally
<1>2. /\ Tally(is, old, "succeeded") = Tally(is, new, "succeeded")
      /\ Tally(is, old, "failed") = Tally(is, new, "failed")
  BY <1>1
<1>3. (\A i \in is : old[i] \in Terminal) <=> (\A i \in is : new[i] \in Terminal)
  OBVIOUS
<1> QED BY <1>2, <1>3 DEF ExactFor

LEMMA ExactRefreshed ==
  ASSUME NEW row \in JobRow, NEW is, NEW view
  PROVE  ExactFor(Refreshed(row, is, view), is, view)
BY DEF Refreshed, ExactFor, Tally

(* Where the row is what the session loaded, all that it computed is there. *)
LEMMA FlushedWhole ==
  ASSUME NEW row \in JobRow, NEW new \in JobRow
  PROVE  FlushJob(row, row, new) = new
BY DEF FlushJob, JobRow

-----------------------------------------------------------------------------
(* The summary in the tables and in the sessions.                          *)

States == [i \in Items |-> items[i].state]

LEMMA EndedTally ==
  ASSUME NEW j \in Jobs, NEW s
  PROVE  Ended(j, s) = Tally(ItemsOf(j), States, s)
<1>1. {i \in ItemsOf(j) : items[i].state = s} = {i \in ItemsOf(j) : States[i] = s}
  BY DEF States, ItemsOf
<1> QED BY <1>1 DEF Ended, Tally

(* The end of a transaction that writes its rows. *)
Writes(w) == Commit(w) \/ AckLost(w)

(* What a session is about to write is what its commit leaves.             *)
LEMMA WriteView ==
  ASSUME TypeOK, Leased, NEW w \in Workers, Write(w)
  PROVE  States' = View(w)
<1> DEFINE new == Assigned(loaded[w], outcome[w])
<1>1. /\ held[w] \in Items /\ loaded[w] \in ItemRow /\ outcome[w] \in Outcomes
      /\ loaded[w].state = items[held[w]].state
  BY DEF Write, TypeOK, Leased
<1>2. items'[held[w]].state = new.state
  BY <1>1 DEF Write, FlushItem, TypeOK
<1>3. \A i \in Items : i # held[w] => items'[i] = items[i]
  BY <1>1 DEF Write, TypeOK
<1> QED BY <1>2, <1>3 DEF States, View

LEMMA StatesStep ==
  ASSUME TypeOK, Present, Leased, [Next]_vars, NEW i \in Items, States[i] \in Terminal
  PROVE  \/ States'[i] = States[i]
         \/ \E w \in Workers : Writes(w) /\ held[w] = i
<1>1. CASE UNCHANGED vars
  BY <1>1 DEF vars, States
<1>2. CASE Next
  BY <1>2, TerminalStep DEF States, TakesBack, Writes
<1> QED BY <1>1, <1>2

LEMMA ViewStep ==
  ASSUME TypeOK, Present, Leased, [Next]_vars, NEW w \in Workers,
         held'[w] = held[w], loaded'[w] = loaded[w], outcome'[w] = outcome[w],
         NEW i \in Items, View(w)[i] \in Terminal
  PROVE  \/ View(w)'[i] = View(w)[i]
         \/ i # held[w] /\ \E v \in Workers : Writes(v) /\ held[v] = i
<1>1. CASE i = held[w]
  BY <1>1 DEF View
<1>2. CASE i # held[w]
  BY <1>2, StatesStep DEF View, States
<1> QED BY <1>1, <1>2

(* Sessions at their commit have just computed the summary, or kept it. *)
LEMMA CommitSteps ==
  ASSUME TypeOK, TypeOK', [Next]_vars, NEW w \in Workers, summary'[w] \in JobRow
  PROVE  RefreshJob(w) \/ Session(w)' = Session(w)
<1>1. pc'[w] = "commit"
  BY DEF TypeOK
<1>2. ASSUME NEW i \in Items, Claim(w, i) PROVE FALSE
  BY <1>1, <1>2 DEF Claim, TypeOK
<1>3. CASE Fetch(w) \/ GetItem(w) \/ FlushAndGetJob(w) \/ Restart(w)
  BY <1>1, <1>3 DEF Fetch, GetItem, FlushAndGetJob, Restart, TypeOK
<1>4. CASE Commit(w) \/ CompleteError(w) \/ AckLost(w) \/ Crash(w)
  BY <1>1, <1>4 DEF Commit, CompleteError, AckLost, Report, Crash, Leave, TypeOK
<1> QED BY <1>2, <1>3, <1>4, SessionSteps DEF OwnStep, WorkerStep

(* And sessions that have a job row have just read it, or kept it. *)
LEMMA SeenSteps ==
  ASSUME TypeOK, TypeOK', [Next]_vars, NEW w \in Workers, seen'[w] \in JobRow
  PROVE  \/ FlushAndGetJob(w)
         \/ seen'[w] = seen[w] /\ held'[w] = held[w] /\ pc[w] \in {"refresh", "commit"}
<1>1. pc'[w] \in {"refresh", "commit"}
  BY DEF TypeOK
<1>2. ASSUME NEW i \in Items, Claim(w, i) PROVE FALSE
  BY <1>1, <1>2 DEF Claim, TypeOK
<1>3. CASE Fetch(w) \/ GetItem(w) \/ Restart(w)
  BY <1>1, <1>3 DEF Fetch, GetItem, Restart, TypeOK
<1>4. CASE Commit(w) \/ CompleteError(w) \/ AckLost(w) \/ Crash(w)
  BY <1>1, <1>4 DEF Commit, CompleteError, AckLost, Report, Crash, Leave, TypeOK
<1>5. CASE RefreshJob(w)
  BY <1>5 DEF RefreshJob
<1>6. CASE Session(w)' = Session(w)
  BY <1>1, <1>6 DEF Session
<1> QED BY <1>2, <1>3, <1>4, <1>5, <1>6, SessionSteps DEF OwnStep, WorkerStep

(* How a step changes a job row while nothing is cancelled. *)
LEMMA JobSteps ==
  ASSUME TypeOK, Leased, [Next]_vars, NEW j \in Jobs
  PROVE  \/ jobs'[j] = jobs[j]
         \/ CreateJob(j) /\ jobs'[j] = NewJob
         \/ \E w \in Workers, i \in ItemsOf(j) :
              Claim(w, i) /\ jobs'[j] = [jobs[j] EXCEPT !.state = "running"]
         \/ \E w \in Workers :
              /\ Writes(w) /\ JobOf[held[w]] = j
              /\ jobs'[j] = FlushJob(jobs[j], seen[w], summary[w])
<1>1. CASE UNCHANGED jobs
  BY <1>1
<1>2. ASSUME NEW k \in Jobs, CreateJob(k)
      PROVE  \/ jobs'[j] = jobs[j]
             \/ CreateJob(j) /\ jobs'[j] = NewJob
  BY <1>2 DEF CreateJob, TypeOK
<1>3. ASSUME NEW w \in Workers, NEW i \in Items, Claim(w, i)
      PROVE  \/ jobs'[j] = jobs[j]
             \/ i \in ItemsOf(j) /\ jobs'[j] = [jobs[j] EXCEPT !.state = "running"]
  <2>1. jobs' = [jobs EXCEPT ![JobOf[i]] = [jobs[JobOf[i]] EXCEPT !.state = "running"]]
    BY <1>3 DEF Claim
  <2>2. CASE JobOf[i] = j
    BY <2>1, <2>2 DEF TypeOK, ItemsOf
  <2>3. CASE JobOf[i] # j
    BY <2>1, <2>3 DEF TypeOK
  <2> QED BY <2>2, <2>3
<1>4. ASSUME NEW w \in Workers, Writes(w)
      PROVE  \/ jobs'[j] = jobs[j]
             \/ /\ JobOf[held[w]] = j
                /\ jobs'[j] = FlushJob(jobs[j], seen[w], summary[w])
  BY <1>4 DEF Writes, Commit, AckLost, Write, TypeOK
<1>5. ~CancelCommit
  BY DEF CancelCommit, Leased
<1> QED BY <1>1, <1>2, <1>3, <1>4, <1>5
        DEF Next, WorkerStep, vars, tables, workers, CancelLoad, CancelAbort, Fetch,
            GetItem, FlushAndGetJob, RefreshJob, Writes, Commit, CompleteError, AckLost,
            Crash, Restart,
            ExpireLease, BecomeDue

-----------------------------------------------------------------------------
(* Jobs are never reported better than they are.  The rows cannot carry    *)
(* that alone: it is what the sessions loaded and computed before they     *)
(* write it.  And it is told against what lasts: a failure does, and a     *)
(* recorded result, but not the state of an item whose success is taken    *)
(* back.                                                                   *)

Got  == {i \in Items : items[i].result # NULL}
Lost == {i \in Items : items[i].state = "failed"}

GotBy(w)  == {i \in Items : IF i = held[w]
                            THEN Assigned(loaded[w], outcome[w]).result # NULL
                            ELSE items[i].result # NULL}
LostBy(w) == {i \in Items : View(w)[i] = "failed"}

Sound ==
  /\ \A i \in Items : items[i].state # "cancelled"
  /\ \A j \in Jobs : SoundFor(jobs[j], ItemsOf(j), Got, Lost)
  /\ \A w \in Workers :
       /\ seen[w] \in JobRow => SoundFor(seen[w], ItemsOf(JobOf[held[w]]), Got, Lost)
       /\ summary[w] \in JobRow =>
            SoundFor(summary[w], ItemsOf(JobOf[held[w]]), GotBy(w), LostBy(w))

LEMMA NewSound ==
  ASSUME NEW row \in JobRow, row.state \notin {"succeeded", "failed"},
         row.succeeded_count = 0, row.failed_count = 0,
         NEW is \in SUBSET Items, NEW got, NEW lost
  PROVE  SoundFor(row, is, got, lost)
<1>1. Cardinality(is \cap got) \in Nat /\ Cardinality(is \cap lost) \in Nat
  BY SmallerCount
<1> QED BY <1>1 DEF SoundFor

LEMMA SoundInit == Init => Sound
<1> SUFFICES ASSUME Init PROVE Sound
  OBVIOUS
<1>1. ASSUME NEW j \in Jobs PROVE SoundFor(jobs[j], ItemsOf(j), Got, Lost)
  <2>1. /\ jobs[j] \in JobRow /\ ItemsOf(j) \in SUBSET Items
        /\ jobs[j].succeeded_count = 0 /\ jobs[j].failed_count = 0
        /\ jobs[j].state = "absent"
    BY RowTypes DEF Init, AbsentJob, NewJob, ItemsOf
  <2> QED BY <2>1, NewSound
<1> QED BY <1>1, NullAssumption DEF Init, Sound, AbsentItem, NewItem, NullAssumption

LEMMA NoneCancelled ==
  ASSUME TypeOK, Leased, Sound, [Next]_vars, NEW i \in Items
  PROVE  items'[i].state # "cancelled"
<1>1. CASE UNCHANGED items
  BY <1>1 DEF Sound
<1>2. ASSUME NEW j \in Jobs, CreateJob(j) PROVE items'[i] = items[i] \/ items'[i] = NewItem
  BY <1>2 DEF CreateJob
<1>3. ASSUME NEW w \in Workers, NEW k \in Items, Claim(w, k)
      PROVE  items'[i] = items[i] \/ items'[i].state = "running"
  BY <1>3 DEF Claim, Claimed, TypeOK, ItemRow
<1>4. ASSUME NEW w \in Workers, Write(w)
      PROVE  items'[i] = items[i] \/ items'[i].state \in {"queued", "succeeded", "failed"}
  <2>1. /\ held[w] \in Items /\ loaded[w] \in ItemRow /\ outcome[w] \in Outcomes
    BY <1>4 DEF Write, TypeOK
  <2>2. Assigned(loaded[w], outcome[w]).state \in {"queued", "succeeded", "failed"}
    BY <2>1 DEF Assigned, Completed, Failed, ItemRow
  <2>3. States'[i] = View(w)[i]
    BY <1>4, WriteView
  <2>4. CASE i = held[w]
    BY <2>2, <2>3, <2>4 DEF States, View
  <2>5. CASE i # held[w]
    BY <1>4, <2>5 DEF Write, TypeOK
  <2> QED BY <2>4, <2>5
<1>5. ASSUME NEW k \in Items, ExpireLease(k) \/ BecomeDue(k)
      PROVE  items'[i].state = items[i].state
  BY <1>5, TimeStep
<1>6. ~CancelCommit
  BY DEF CancelCommit, Leased
<1> QED BY <1>1, <1>2, <1>3, <1>4, <1>5, <1>6
        DEF Next, WorkerStep, vars, tables, workers, CancelLoad, CancelAbort, Fetch,
            GetItem, FlushAndGetJob, RefreshJob, Commit, CompleteError, AckLost, Crash,
            Restart, Sound, NewItem

(* Results and failures last. *)
LEMMA EndsLast ==
  ASSUME TypeOK, Present, Leased, Recorded, [Next]_vars,
         NEW i \in Items, ~CreateJob(JobOf[i])
  PROVE  /\ items[i].result # NULL => items'[i].result # NULL
         /\ items[i].state = "failed" => items'[i].state = "failed"
<1>1. CASE UNCHANGED vars
  BY <1>1 DEF vars
<1>2. CASE Next
  BY <1>2, OutcomesKept, TerminalStep DEF TakesBack
<1> QED BY <1>1, <1>2

(* What a session is about to write is what its commit leaves. *)
LEMMA WriteEnds ==
  ASSUME TypeOK, Leased, NEW w \in Workers, Write(w)
  PROVE  Got' = GotBy(w) /\ Lost' = LostBy(w)
<1> DEFINE new == Assigned(loaded[w], outcome[w])
<1>1. PICK i \in Items : i = held[w]
  BY DEF Write, TypeOK
<1>2. /\ loaded[w] \in ItemRow /\ loaded[w].result = items[i].result
      /\ items' = [items EXCEPT ![i] = FlushItem(items[i], loaded[w], new)]
  BY <1>1 DEF Write, TypeOK, Leased
<1>3. items'[i].result = new.result
  BY <1>2 DEF FlushItem, TypeOK
<1>4. \A k \in Items : k # i => items'[k] = items[k]
  BY <1>2 DEF TypeOK
<1>5. Got' = GotBy(w)
  BY <1>1, <1>3, <1>4 DEF Got, GotBy
<1>6. Lost' = LostBy(w)
  BY WriteView DEF Lost, LostBy, States
<1> QED BY <1>5, <1>6

LEMMA SoundJobs ==
  ASSUME TypeOK, TypeOK', Present, Leased, Recorded, Sound, [Next]_vars, NEW j \in Jobs
  PROVE  SoundFor(jobs'[j], ItemsOf(j), Got', Lost')
<1>0. ItemsOf(j) \in SUBSET Items /\ jobs[j] \in JobRow /\ jobs'[j] \in JobRow
  BY DEF ItemsOf, TypeOK
<1>1. CASE CreateJob(j)
  BY <1>0, <1>1, NewSound DEF CreateJob, NewJob, TypeOK
<1>2. CASE ~CreateJob(j)
  <2>1. /\ ItemsOf(j) \cap Got \subseteq Got'
        /\ ItemsOf(j) \cap Lost \subseteq Lost'
    BY <1>2, EndsLast DEF Got, Lost, ItemsOf
  <2>2. SoundFor(jobs[j], ItemsOf(j), Got', Lost')
    <3>1. SoundFor(jobs[j], ItemsOf(j), Got, Lost)
      BY DEF Sound
    <3> QED BY <1>0, <2>1, <3>1, SoundKept
  <2>3. CASE jobs'[j] = [jobs[j] EXCEPT !.state = "running"]
    BY <1>0, <2>2, <2>3 DEF SoundFor, JobRow
  <2>4. ASSUME NEW w \in Workers, Writes(w), JobOf[held[w]] = j,
               jobs'[j] = FlushJob(jobs[j], seen[w], summary[w])
        PROVE  SoundFor(jobs'[j], ItemsOf(j), Got', Lost')
    <3>1. seen[w] \in JobRow /\ summary[w] \in JobRow
      BY <2>4 DEF Writes, Commit, AckLost, Write, TypeOK
    <3>2. SoundFor(summary[w], ItemsOf(j), Got', Lost')
      BY <2>4, <3>1, WriteEnds DEF Writes, Commit, AckLost, Sound
    <3> QED BY <1>0, <2>2, <2>4, <3>1, <3>2, SoundFlushed
  <2> QED BY <1>2, <2>2, <2>3, <2>4, JobSteps
<1> QED BY <1>1, <1>2

LEMMA SoundSeen ==
  ASSUME TypeOK, TypeOK', Present, Leased, Recorded, Sound, [Next]_vars,
         NEW w \in Workers, seen'[w] \in JobRow
  PROVE  SoundFor(seen'[w], ItemsOf(JobOf[held'[w]]), Got', Lost')
<1> DEFINE j == JobOf[held[w]]
<1>0. held'[w] \in Items
  BY DEF TypeOK
<1>1. CASE FlushAndGetJob(w)
  <2>1. /\ held' = held /\ seen'[w] = jobs[j] /\ j \in Jobs
        /\ Got' = Got /\ Lost' = Lost
    BY <1>0, <1>1, ConstantsAssumption
       DEF FlushAndGetJob, TypeOK, tables, Got, Lost, ConstantsAssumption
  <2> QED BY <2>1 DEF Sound
<1>2. CASE seen'[w] = seen[w] /\ held'[w] = held[w]
  <2>1. ~CreateJob(j) /\ ItemsOf(j) \in SUBSET Items
    BY <1>0, <1>2 DEF Present, CreateJob, ItemsOf
  <2>2. /\ ItemsOf(j) \cap Got \subseteq Got'
        /\ ItemsOf(j) \cap Lost \subseteq Lost'
    BY <2>1, EndsLast DEF Got, Lost, ItemsOf
  <2>3. SoundFor(seen[w], ItemsOf(j), Got, Lost) /\ seen[w] \in JobRow
    BY <1>2 DEF Sound
  <2>4. SoundFor(seen[w], ItemsOf(j), Got', Lost')
    BY <2>1, <2>2, <2>3, SoundKept
  <2> QED BY <1>2, <2>4
<1> QED BY <1>1, <1>2, SeenSteps

LEMMA SoundSummaries ==
  ASSUME TypeOK, TypeOK', Present, Leased, Recorded, Sound, [Next]_vars,
         NEW w \in Workers, summary'[w] \in JobRow
  PROVE  SoundFor(summary'[w], ItemsOf(JobOf[held'[w]]), GotBy(w)', LostBy(w)')
<1> DEFINE is == ItemsOf(JobOf[held[w]])
           new == Assigned(loaded[w], outcome[w])
<1>0. is \in SUBSET Items
  BY DEF ItemsOf
<1>1. CASE RefreshJob(w)
  <2>1. /\ held[w] \in Items /\ loaded[w] \in ItemRow /\ outcome[w] \in Outcomes
        /\ seen[w] \in JobRow /\ loaded[w].result = items[held[w]].result
        /\ items[held[w]].state # "failed"
    BY <1>1 DEF RefreshJob, TypeOK, Leased, Executed
  <2>2. /\ new.state \in {"queued", "succeeded", "failed"}
        /\ new.state = "succeeded" => new.result # NULL
        /\ loaded[w].result # NULL => new.result # NULL
    BY <2>1, NullAssumption DEF Assigned, Completed, Failed, ItemRow, NullAssumption
  <2>3. is \cap Got \subseteq GotBy(w) /\ is \cap Lost \subseteq LostBy(w)
    BY <1>0, <2>1, <2>2 DEF Got, GotBy, Lost, LostBy, View
  <2>4. SoundFor(seen[w], is, GotBy(w), LostBy(w))
    <3>1. SoundFor(seen[w], is, Got, Lost)
      BY <2>1 DEF Sound
    <3> QED BY <1>0, <2>1, <2>3, <3>1, SoundKept
  <2>5. ASSUME NEW i \in is
        PROVE  /\ View(w)[i] = "succeeded" => i \in GotBy(w)
               /\ View(w)[i] = "failed" <=> i \in LostBy(w)
               /\ View(w)[i] # "cancelled"
    BY <1>0, <2>2 DEF View, GotBy, LostBy, Sound, Recorded, EndBacked
  <2>6. SoundFor(Refreshed(seen[w], is, View(w)), is, GotBy(w), LostBy(w))
    BY <1>0, <2>1, <2>4, <2>5, SoundRefreshed
  <2>7. /\ summary'[w] = Refreshed(seen[w], is, View(w)) /\ held' = held
        /\ GotBy(w)' = GotBy(w) /\ LostBy(w)' = LostBy(w)
    BY <1>1 DEF RefreshJob, TypeOK, View, GotBy, LostBy, tables
  <2> QED BY <2>6, <2>7
<1>2. CASE Session(w)' = Session(w)
  <2>1. /\ summary'[w] = summary[w] /\ held'[w] = held[w]
        /\ loaded'[w] = loaded[w] /\ outcome'[w] = outcome[w]
    BY <1>2 DEF Session
  <2>2. /\ ~CreateJob(JobOf[held[w]])
        /\ SoundFor(summary[w], is, GotBy(w), LostBy(w)) /\ summary[w] \in JobRow
    BY <2>1 DEF Present, CreateJob, TypeOK, Sound
  <2>3. ASSUME NEW i \in is
        PROVE  /\ items[i].result # NULL => items'[i].result # NULL
               /\ items[i].state = "failed" => items'[i].state = "failed"
    BY <2>2, EndsLast DEF ItemsOf
  <2>4. is \cap GotBy(w) \subseteq GotBy(w)'
    BY <1>0, <2>1, <2>3 DEF GotBy
  <2>5. is \cap LostBy(w) \subseteq LostBy(w)'
    BY <1>0, <2>1, <2>3 DEF LostBy, View
  <2>6. SoundFor(summary[w], is, GotBy(w)', LostBy(w)')
    BY <1>0, <2>2, <2>4, <2>5, SoundKept
  <2> QED BY <2>1, <2>6
<1> QED BY <1>1, <1>2, CommitSteps

LEMMA SoundNext ==
  ASSUME TypeOK, TypeOK', Present, Leased, Recorded, Sound, [Next]_vars
  PROVE  Sound'
BY NoneCancelled, SoundJobs, SoundSeen, SoundSummaries DEF Sound, ItemsOf

LEMMA SoundSummary == Sound /\ EndBacked => SummarySound
<1> SUFFICES ASSUME Sound, EndBacked,
                    NEW j \in Jobs, \A i \in ItemsOf(j) : ~TakenBack(i)
             PROVE  /\ jobs[j].succeeded_count <= Ended(j, "succeeded")
                    /\ jobs[j].failed_count <= Ended(j, "failed")
                    /\ jobs[j].state = "succeeded" =>
                         \A i \in ItemsOf(j) : items[i].state = "succeeded"
                    /\ jobs[j].state = "failed" => AllEnded(j) /\ Ended(j, "failed") > 0
  BY DEF SummarySound
<1> DEFINE is == ItemsOf(j)
           S == {i \in is : items[i].state = "succeeded"}
           F == {i \in is : items[i].state = "failed"}
<1>1. SoundFor(jobs[j], is, Got, Lost) /\ is \in SUBSET Items
  BY DEF Sound, ItemsOf
<1>2. is \cap Got = S /\ is \cap Lost = F
  BY <1>1 DEF Got, Lost, TakenBack, EndBacked
<1>3. Ended(j, "succeeded") = Cardinality(S) /\ Ended(j, "failed") = Cardinality(F)
  BY DEF Ended
<1>4. F # {} => Cardinality(F) > 0
  <2>1. IsFiniteSet(F)
    BY <1>1, FS_Subset, ConstantsAssumption DEF ConstantsAssumption
  <2> QED BY <2>1, FS_CardinalityType, FS_EmptySet
<1>5. /\ jobs[j].state = "succeeded" => is \subseteq S
      /\ jobs[j].state = "failed" => is \subseteq S \cup F /\ F # {}
  BY <1>1, <1>2 DEF SoundFor
<1> QED BY <1>1, <1>2, <1>3, <1>4, <1>5 DEF SoundFor, AllEnded

LEMMA SoundInvariants ==
  ASSUME Undisturbed
  PROVE  Spec => [](TypeOK /\ Present /\ Leased /\ Recorded /\ Sound)
<1>1. Init => Recorded /\ Sound
  BY RecordedInit, SoundInit
<1>2. TypeOK /\ Present /\ Leased /\ Recorded /\ Sound /\ [Next]_vars
        => (Recorded /\ Sound)'
  BY TypeNext, RecordedNext, SoundNext
<1> QED BY <1>1, <1>2, Invariants, PTL DEF Spec

(* While no item is cancelled or taken over from a worker at work on it,   *)
(* no crash, error, lost acknowledgement or interleaving of workers makes  *)
(* a job look better than it is, as long as the successes of its items     *)
(* stand (repository.py:126-134).                                          *)
THEOREM SummariesAreSound == ASSUME Undisturbed PROVE Spec => []SummarySound
<1>1. Recorded /\ Sound => SummarySound
  BY SoundSummary DEF Recorded
<1> QED BY <1>1, SoundInvariants, PTL

(* A job row that says succeeded or failed is never written again, once no *)
(* worker is at work on an item of the job and if no success was taken     *)
(* back: those two are what a lost acknowledgement leaves behind.          *)
ReportIsFinal ==
  [][\A j \in Jobs :
       /\ jobs[j].state \in {"succeeded", "failed"}
       /\ \A i \in ItemsOf(j) : ~TakenBack(i) /\ \A w \in Workers : held[w] # i
       => jobs'[j] = jobs[j]]_vars

LEMMA ReportStep ==
  ASSUME TypeOK, Leased, Sound, [Next]_vars,
         NEW j \in Jobs, jobs[j].state \in {"succeeded", "failed"},
         \A i \in ItemsOf(j) : ~TakenBack(i) /\ \A w \in Workers : held[w] # i
  PROVE  jobs'[j] = jobs[j]
<1>1. \A i \in ItemsOf(j) : items[i].state \in {"succeeded", "failed"}
  <2>1. SoundFor(jobs[j], ItemsOf(j), Got, Lost)
    BY DEF Sound
  <2> QED BY <2>1 DEF SoundFor, Got, Lost, TakenBack
<1>2. ~CreateJob(j)
  BY DEF CreateJob
<1>3. \A w \in Workers, i \in ItemsOf(j) : ~Claim(w, i)
  BY <1>1 DEF Claim, Claimable
<1>4. ASSUME NEW w \in Workers, Writes(w), JobOf[held[w]] = j PROVE FALSE
  <2>1. held[w] \in ItemsOf(j)
    BY <1>4 DEF Writes, Commit, AckLost, Write, TypeOK, ItemsOf
  <2> QED BY <2>1
<1> QED BY <1>2, <1>3, <1>4, JobSteps

(* What a client is told of a job reported finished it will be told from   *)
(* then on, but for the aftermath of a lost acknowledgement                *)
(* (repository.py:126-134).                                                *)
THEOREM ReportedForGood == ASSUME Undisturbed PROVE Spec => ReportIsFinal
<1>1. ASSUME TypeOK, Leased, Sound, [Next]_vars
      PROVE  [\A j \in Jobs :
                /\ jobs[j].state \in {"succeeded", "failed"}
                /\ \A i \in ItemsOf(j) : ~TakenBack(i) /\ \A w \in Workers : held[w] # i
                => jobs'[j] = jobs[j]]_vars
  BY <1>1, ReportStep
<1> QED BY <1>1, SoundInvariants, PTL DEF Spec, ReportIsFinal

-----------------------------------------------------------------------------
(* Where one worker serves a job, the session that reads, computes and     *)
(* writes the summary is the only one that could have made it stale: the   *)
(* row is exact all the time, and right when the items have ended.  A job  *)
(* served by two workers can lose an update and stay wrong for ever.       *)

(* No two workers take items of one job, as with the deployed pair of      *)
(* workers (deploy/systemd) and a job whose requests go to one queue.      *)
OneWorkerPerJob ==
  \A v, w \in Workers, i, k \in Items :
    /\ JobOf[i] = JobOf[k]
    /\ QueueOf[i] = WorkerQueue[v] /\ QueueOf[k] = WorkerQueue[w]
    => v = w

(* A request to create a job has at least one item (schemas.py:76).        *)
NoEmptyJob == \A j \in Jobs : ItemsOf(j) # {}

Exact ==
  /\ \A j \in Jobs : ExactFor(jobs[j], ItemsOf(j), States)
  /\ \A w \in Workers :
       /\ seen[w] \in JobRow => seen[w] = jobs[JobOf[held[w]]]
       /\ summary[w] \in JobRow => ExactFor(summary[w], ItemsOf(JobOf[held[w]]), View(w))

LEMMA ExactInit == ASSUME NoEmptyJob PROVE Init => Exact
<1> SUFFICES ASSUME Init PROVE Exact
  OBVIOUS
<1>1. ASSUME NEW j \in Jobs PROVE ExactFor(jobs[j], ItemsOf(j), States)
  <2>1. \A i \in ItemsOf(j) : States[i] = "absent"
    BY DEF Init, States, AbsentItem, NewItem, ItemsOf
  <2>2. ASSUME NEW s \in Terminal PROVE Tally(ItemsOf(j), States, s) = 0
    <3>1. {i \in ItemsOf(j) : States[i] = s} = {}
      BY <2>1
    <3> QED BY <3>1, FS_EmptySet DEF Tally
  <2>3. ~\A i \in ItemsOf(j) : States[i] \in Terminal
    BY <2>1 DEF NoEmptyJob
  <2>4. jobs[j].succeeded_count = 0 /\ jobs[j].failed_count = 0
    BY DEF Init, AbsentJob, NewJob
  <2>5. /\ Tally(ItemsOf(j), States, "succeeded") = 0
        /\ Tally(ItemsOf(j), States, "failed") = 0
    BY <2>2
  <2> QED BY <2>3, <2>4, <2>5 DEF ExactFor
<1> QED BY <1>1, NullAssumption DEF Init, Exact, NullAssumption

(* An item ends at the commit of the worker that holds it. *)
LEMMA EndsStep ==
  ASSUME TypeOK, TypeOK', Present, Leased, [Next]_vars, NEW i \in Items,
         States'[i] \in Terminal
  PROVE  \/ States'[i] = States[i]
         \/ \E w \in Workers : Writes(w) /\ held[w] = i
<1>1. CASE UNCHANGED items
  BY <1>1 DEF States
<1>2. ASSUME NEW j \in Jobs, CreateJob(j) PROVE States'[i] = States[i]
  BY <1>2 DEF CreateJob, NewItem, States
<1>3. ASSUME NEW w \in Workers, NEW k \in Items, Claim(w, k)
      PROVE  States'[i] = States[i]
  BY <1>3 DEF Claim, Claimed, States, TypeOK, ItemRow
<1>4. ASSUME NEW w \in Workers, Writes(w), held[w] # i PROVE States'[i] = States[i]
  BY <1>4 DEF Writes, Commit, AckLost, Write, States, TypeOK
<1>5. ASSUME NEW k \in Items, ExpireLease(k) \/ BecomeDue(k)
      PROVE  States'[i] = States[i]
  BY <1>5, TimeStep DEF States
<1>6. ~CancelCommit
  BY DEF CancelCommit, Leased
<1> QED BY <1>1, <1>2, <1>3, <1>4, <1>5, <1>6
        DEF Next, WorkerStep, vars, tables, workers, CancelLoad, CancelAbort, Fetch,
            GetItem, FlushAndGetJob, RefreshJob, Writes, Commit, CompleteError, AckLost,
            Crash, Restart

LEMMA ExactJobs ==
  ASSUME NoEmptyJob, TypeOK, TypeOK', Present, Leased, Exact, [Next]_vars, NEW j \in Jobs
  PROVE  ExactFor(jobs'[j], ItemsOf(j), States')
<1>0. ItemsOf(j) \in SUBSET Items /\ jobs[j] \in JobRow
  BY DEF ItemsOf, TypeOK
<1>1. ASSUME \A w \in Workers : ~(Writes(w) /\ JobOf[held[w]] = j)
      PROVE  ExactFor(jobs[j], ItemsOf(j), States')
  <2>1. ASSUME NEW i \in ItemsOf(j), States[i] \in Terminal \/ States'[i] \in Terminal
        PROVE  States'[i] = States[i]
    BY <1>1, <2>1, StatesStep, EndsStep DEF ItemsOf
  <2> QED BY <1>0, <2>1, ExactKept DEF Exact
<1>2. ASSUME CreateJob(j), jobs'[j] = NewJob
      PROVE  ExactFor(jobs'[j], ItemsOf(j), States')
  <2>1. \A i \in ItemsOf(j) : States'[i] = "queued"
    BY <1>2 DEF CreateJob, States, ItemsOf, NewItem
  <2>2. ASSUME NEW s \in Terminal PROVE Tally(ItemsOf(j), States', s) = 0
    <3>1. {i \in ItemsOf(j) : States'[i] = s} = {}
      BY <2>1
    <3> QED BY <3>1, FS_EmptySet DEF Tally
  <2>3. ~\A i \in ItemsOf(j) : States'[i] \in Terminal
    BY <2>1 DEF NoEmptyJob
  <2>4. /\ Tally(ItemsOf(j), States', "succeeded") = 0
        /\ Tally(ItemsOf(j), States', "failed") = 0
    BY <2>2
  <2> QED BY <1>2, <2>3, <2>4 DEF ExactFor, NewJob
<1>3. ASSUME NEW w \in Workers, NEW k \in ItemsOf(j), Claim(w, k),
             jobs'[j] = [jobs[j] EXCEPT !.state = "running"]
      PROVE  ExactFor(jobs'[j], ItemsOf(j), States')
  <2>1. ASSUME NEW v \in Workers, Writes(v), JobOf[held[v]] = j PROVE FALSE
    <3>1. k \in Items
      BY DEF ItemsOf
    <3>2. items'[k].attempts = items[k].attempts
      BY <2>1, <3>1 DEF Writes, Commit, AckLost, Write, FlushItem, TypeOK
    <3> QED BY <1>3, <3>1, <3>2, ClaimAttempts DEF TypeOK, ItemRow
  <2>2. ExactFor(jobs[j], ItemsOf(j), States')
    BY <1>1, <2>1
  <2>3. States'[k] = "running"
    BY <1>3 DEF Claim, Claimed, States, ItemsOf, TypeOK, ItemRow
  <2>4. ~\A i \in ItemsOf(j) : States'[i] \in Terminal
    BY <2>3
  <2> QED BY <1>0, <1>3, <2>2, <2>4 DEF ExactFor, JobRow
<1>4. ASSUME NEW w \in Workers, Writes(w), JobOf[held[w]] = j
      PROVE  ExactFor(jobs'[j], ItemsOf(j), States')
  <2>1. seen[w] \in JobRow /\ summary[w] \in JobRow
    BY <1>4 DEF Writes, Commit, AckLost, Write, TypeOK
  <2>2. seen[w] = jobs[j]
    BY <1>4, <2>1 DEF Exact
  <2>3. jobs'[j] = FlushJob(jobs[j], seen[w], summary[w])
    BY <1>4 DEF Writes, Commit, AckLost, Write, TypeOK
  <2>4. jobs'[j] = summary[w]
    BY <1>0, <2>1, <2>2, <2>3, FlushedWhole
  <2>5. ExactFor(summary[w], ItemsOf(j), View(w))
    BY <1>4, <2>1 DEF Exact
  <2> QED BY <1>4, <2>4, <2>5, WriteView DEF Writes, Commit, AckLost
<1>5. CASE \A w \in Workers : ~(Writes(w) /\ JobOf[held[w]] = j)
  BY <1>1, <1>2, <1>3, <1>5, JobSteps
<1> QED BY <1>4, <1>5

(* A worker serves a job alone. *)
LEMMA OneServer ==
  ASSUME OneWorkerPerJob, Leased, TypeOK, NEW w \in Workers, held[w] \in Items
  PROVE  /\ \A v \in Workers : held[v] \in Items /\ JobOf[held[v]] = JobOf[held[w]] => v = w
         /\ \A v \in Workers, i \in ItemsOf(JobOf[held[w]]) : Claim(v, i) => v = w
<1>1. QueueOf[held[w]] = WorkerQueue[w]
  BY DEF Leased
<1>2. ASSUME NEW v \in Workers, held[v] \in Items, JobOf[held[v]] = JobOf[held[w]]
      PROVE  v = w
  <2>1. QueueOf[held[v]] = WorkerQueue[v]
    BY <1>2 DEF Leased
  <2> QED BY <1>1, <1>2, <2>1 DEF OneWorkerPerJob
<1>3. ASSUME NEW v \in Workers, NEW i \in ItemsOf(JobOf[held[w]]), Claim(v, i)
      PROVE  v = w
  <2>1. i \in Items /\ JobOf[i] = JobOf[held[w]] /\ QueueOf[i] = WorkerQueue[v]
    BY <1>3 DEF ItemsOf, Claim
  <2> QED BY <1>1, <2>1 DEF OneWorkerPerJob
<1> QED BY <1>2, <1>3

LEMMA ExactSeen ==
  ASSUME OneWorkerPerJob, TypeOK, TypeOK', Present, Leased, Exact, [Next]_vars,
         NEW w \in Workers, seen'[w] \in JobRow
  PROVE  seen'[w] = jobs'[JobOf[held'[w]]]
<1> DEFINE j == JobOf[held[w]]
<1>1. CASE FlushAndGetJob(w)
  BY <1>1 DEF FlushAndGetJob, tables, TypeOK
<1>2. CASE seen'[w] = seen[w] /\ held'[w] = held[w] /\ pc[w] \in {"refresh", "commit"}
  <2>1. /\ held[w] \in Items /\ j \in Jobs /\ held[w] \in ItemsOf(j)
        /\ items[held[w]].state # "absent" /\ seen[w] = jobs[j]
    BY <1>2, ConstantsAssumption DEF TypeOK, ConstantsAssumption, ItemsOf, Leased, Executed,
                                   Exact
  <2>2. ~CreateJob(j)
    BY <2>1 DEF CreateJob, Present
  <2>3. ASSUME NEW v \in Workers, NEW i \in ItemsOf(j), Claim(v, i) PROVE FALSE
    <3>1. v = w
      BY <2>1, <2>3, OneServer
    <3> QED BY <1>2, <2>3, <3>1 DEF Claim
  <2>4. ASSUME NEW v \in Workers, Writes(v), JobOf[held[v]] = j PROVE FALSE
    <3>1. pc[v] = "commit" /\ held[v] \in Items
      BY <2>4 DEF Writes, Commit, AckLost, Write, TypeOK
    <3>2. v = w
      BY <2>1, <2>4, <3>1, OneServer
    <3>3. pc'[w] \in {"refresh", "commit"}
      BY DEF TypeOK
    <3>4. ~Writes(w)
      BY <3>3 DEF Writes, Commit, AckLost, Leave, Report, TypeOK
    <3> QED BY <2>4, <3>2, <3>4
  <2>5. jobs'[j] = jobs[j]
    BY <2>1, <2>2, <2>3, <2>4, JobSteps
  <2> QED BY <1>2, <2>1, <2>5
<1> QED BY <1>1, <1>2, SeenSteps

LEMMA ExactSummary ==
  ASSUME OneWorkerPerJob, TypeOK, TypeOK', Present, Leased, Exact, [Next]_vars,
         NEW w \in Workers, summary'[w] \in JobRow
  PROVE  ExactFor(summary'[w], ItemsOf(JobOf[held'[w]]), View(w)')
<1> DEFINE is == ItemsOf(JobOf[held[w]])
<1>0. is \in SUBSET Items
  BY DEF ItemsOf
<1>1. CASE RefreshJob(w)
  <2>1. seen[w] \in JobRow
    BY <1>1 DEF RefreshJob, TypeOK
  <2>2. /\ summary'[w] = Refreshed(seen[w], is, View(w)) /\ held' = held
        /\ View(w)' = View(w)
    BY <1>1 DEF RefreshJob, TypeOK, View, tables
  <2> QED BY <2>1, <2>2, ExactRefreshed
<1>2. CASE Session(w)' = Session(w)
  <2>1. /\ summary'[w] = summary[w] /\ held'[w] = held[w]
        /\ loaded'[w] = loaded[w] /\ outcome'[w] = outcome[w]
    BY <1>2 DEF Session
  <2>2. held[w] \in Items
    BY <2>1 DEF TypeOK
  <2>3. ASSUME NEW v \in Workers, held[v] \in is PROVE v = w
    BY <1>0, <2>2, <2>3, OneServer DEF ItemsOf
  <2>4. ASSUME NEW i \in is, View(w)'[i] \in Terminal PROVE View(w)'[i] = View(w)[i]
    <3>1. CASE i = held[w]
      BY <1>0, <2>1, <3>1 DEF View
    <3>2. CASE i # held[w]
      <4>1. ~\E v \in Workers : Writes(v) /\ held[v] = i
        BY <1>0, <2>3, <3>2
      <4>2. View(w)'[i] = States'[i] /\ View(w)[i] = States[i]
        BY <1>0, <2>1, <3>2 DEF View, States
      <4> QED BY <1>0, <2>4, <4>1, <4>2, EndsStep
    <3> QED BY <3>1, <3>2
  <2>5. \A i \in is : View(w)[i] \in Terminal => View(w)'[i] = View(w)[i]
    BY <1>0, <2>1, <2>3, ViewStep
  <2>6. ExactFor(summary[w], is, View(w)) /\ summary[w] \in JobRow
    BY <2>1 DEF Exact
  <2> QED BY <1>0, <2>1, <2>4, <2>5, <2>6, ExactKept
<1> QED BY <1>1, <1>2, CommitSteps

LEMMA ExactNext ==
  ASSUME OneWorkerPerJob, NoEmptyJob, TypeOK, TypeOK', Present, Leased, Exact,
         [Next]_vars
  PROVE  Exact'
BY ExactJobs, ExactSeen, ExactSummary DEF Exact, ItemsOf

LEMMA ExactEnds == NoEmptyJob /\ Exact => SummaryRight
<1> SUFFICES ASSUME NoEmptyJob, Exact, NEW j \in Jobs, AllEnded(j)
             PROVE  /\ jobs[j].succeeded_count = Ended(j, "succeeded")
                    /\ jobs[j].failed_count = Ended(j, "failed")
                    /\ jobs[j].state = IF Ended(j, "failed") > 0 THEN "failed"
                                                                  ELSE "succeeded"
  BY DEF SummaryRight
<1>1. ExactFor(jobs[j], ItemsOf(j), States)
  BY DEF Exact
<1>2. \A i \in ItemsOf(j) : States[i] = items[i].state
  BY DEF States, ItemsOf
<1> QED BY <1>1, <1>2, EndedTally DEF ExactFor, AllEnded

(* A job that one worker serves has the state and the counts of its items  *)
(* whenever they have all ended and the worker is done with them, whatever *)
(* crashes, errors, lost acknowledgements and overruns came before         *)
(* (repository.py:126-134, tests/test_repository.py:29-32).                *)
THEOREM SummariesAreRight ==
  ASSUME Budget["cancel"] = 0, OneWorkerPerJob, NoEmptyJob
  PROVE  Spec => []SummaryRight
<1>0. Undisturbed
  BY DEF Undisturbed, OneWorkerPerJob, OneWorkerPerItem
<1>1. Init => Exact
  BY ExactInit
<1>2. /\ TypeOK /\ Present /\ Leased /\ Exact /\ [Next]_vars => Exact'
  BY TypeNext, ExactNext
<1>3. Exact => SummaryRight
  BY ExactEnds
<1> QED BY <1>0, <1>1, <1>2, <1>3, Invariants, PTL DEF Spec
=============================================================================
