--------------------------- MODULE JobQueueProofs ---------------------------
(***************************************************************************)
(* Theorems about JobQueue, for every set of jobs, items and workers, and  *)
(* every budget of disturbances.                                           *)
(***************************************************************************)
EXTENDS JobQueue, TLAPS, FiniteSetTheorems

USE DEF Queues, Disturbances, ItemStates, JobStates, Terminal, Returned, Raised, Outcomes

-----------------------------------------------------------------------------
(* The rows that operations compute are rows.                              *)

LEMMA RowTypes ==
  /\ NewItem \in ItemRow /\ AbsentItem \in ItemRow
  /\ NewJob \in JobRow /\ AbsentJob \in JobRow
BY DEF NewItem, AbsentItem, NewJob, AbsentJob, ItemRow, JobRow

LEMMA ClaimedType ==
  ASSUME NEW row \in ItemRow
  PROVE  Claimed(row) \in ItemRow
<1>1. row.attempts + 1 \in Nat
  BY DEF ItemRow
<1> QED BY <1>1 DEF Claimed, ItemRow

LEMMA StateType ==
  /\ \A row \in ItemRow, s \in ItemStates : [row EXCEPT !.state = s] \in ItemRow
  /\ \A row \in JobRow, s \in JobStates : [row EXCEPT !.state = s] \in JobRow
BY DEF ItemRow, JobRow

LEMMA AssignedType ==
  ASSUME NEW row \in ItemRow, NEW out \in Outcomes
  PROVE  Assigned(row, out) \in ItemRow
BY DEF Assigned, Completed, Failed, ItemRow

LEMMA FlushItemType ==
  ASSUME NEW row \in ItemRow, NEW old \in ItemRow, NEW new \in ItemRow
  PROVE  FlushItem(row, old, new) \in ItemRow
BY DEF FlushItem, ItemRow

LEMMA FlushJobType ==
  ASSUME NEW row \in JobRow, NEW old \in JobRow, NEW new \in JobRow
  PROVE  FlushJob(row, old, new) \in JobRow
BY DEF FlushJob, JobRow

LEMMA RefreshedType ==
  ASSUME NEW row \in JobRow, NEW is \in SUBSET Items, NEW view
  PROVE  Refreshed(row, is, view) \in JobRow
<1> DEFINE Count(s) == Cardinality({i \in is : view[i] = s})
<1>1. ASSUME NEW s PROVE Count(s) \in Nat
  <2>1. IsFiniteSet({i \in is : view[i] = s})
    BY FS_Subset, ConstantsAssumption DEF ConstantsAssumption
  <2> QED BY <2>1, FS_CardinalityType
<1>2. Count("succeeded") \in Nat /\ Count("failed") \in Nat
  BY <1>1
<1> QED BY <1>2 DEF Refreshed, JobRow

-----------------------------------------------------------------------------
(* Type correctness.                                                       *)

LEMMA TypeInit == Init => TypeOK
BY RowTypes, ConstantsAssumption, NullAssumption
   DEF Init, TypeOK, ConstantsAssumption, NullAssumption, PCs

LEMMA TypeClientsAndTime ==
  ASSUME TypeOK,
         \/ \E j \in Jobs : CreateJob(j) \/ CancelLoad(j)
         \/ CancelCommit
         \/ CancelAbort
         \/ \E i \in Items : ExpireLease(i) \/ BecomeDue(i)
  PROVE  TypeOK'
<1>1. ASSUME NEW j \in Jobs, CreateJob(j) PROVE TypeOK'
  BY <1>1, RowTypes DEF CreateJob, TypeOK, workers
<1>2. ASSUME NEW j \in Jobs, CancelLoad(j) PROVE TypeOK'
  BY <1>2 DEF CancelLoad, Spend, TypeOK, tables, workers, ItemsOf
<1>3. CASE CancelCommit
  <2>1. items' \in [Items -> ItemRow]
    <3>1. \A i \in Items : [items[i] EXCEPT !.state = "cancelled"] \in ItemRow
      BY StateType DEF TypeOK
    <3> QED BY <1>3, <3>1 DEF CancelCommit, TypeOK
  <2>2. jobs' \in [Jobs -> JobRow]
    BY <1>3 DEF CancelCommit, TypeOK, JobRow
  <2> QED BY <1>3, <2>1, <2>2 DEF CancelCommit, TypeOK, workers
<1>4. CASE CancelAbort
  BY <1>4 DEF CancelAbort, TypeOK, tables, workers
<1>5. ASSUME NEW i \in Items, ExpireLease(i) PROVE TypeOK'
  <2>1. items' \in [Items -> ItemRow]
    <3>1. items \in [Items -> ItemRow]
      BY DEF TypeOK
    <3>2. [items[i] EXCEPT !.leased_until = "expired"] \in ItemRow
      BY <3>1 DEF ItemRow
    <3>3. items' = [items EXCEPT ![i] = [items[i] EXCEPT !.leased_until = "expired"]]
      BY <1>5 DEF ExpireLease
    <3> QED BY <3>1, <3>2, <3>3
  <2>2. budget' \in [Disturbances -> Nat]
    BY <1>5 DEF ExpireLease, Spend, TypeOK
  <2> QED BY <1>5, <2>1, <2>2 DEF ExpireLease, TypeOK, workers
<1>6. ASSUME NEW i \in Items, BecomeDue(i) PROVE TypeOK'
  <2>1. items' \in [Items -> ItemRow]
    <3>1. items \in [Items -> ItemRow]
      BY DEF TypeOK
    <3>2. [items[i] EXCEPT !.next_run_at = "due"] \in ItemRow
      BY <3>1 DEF ItemRow
    <3>3. items' = [items EXCEPT ![i] = [items[i] EXCEPT !.next_run_at = "due"]]
      BY <1>6 DEF BecomeDue
    <3> QED BY <3>1, <3>2, <3>3
  <2> QED BY <1>6, <2>1 DEF BecomeDue, TypeOK, workers
<1> QED BY <1>1, <1>2, <1>3, <1>4, <1>5, <1>6

LEMMA TypeClaim ==
  ASSUME TypeOK, NEW w \in Workers, NEW i \in Items, Claim(w, i)
  PROVE  TypeOK'
<1>1. items' \in [Items -> ItemRow]
  BY ClaimedType DEF Claim, TypeOK
<1>2. jobs' \in [Jobs -> JobRow]
  <2>1. JobOf[i] \in Jobs
    BY ConstantsAssumption DEF ConstantsAssumption
  <2>2. [jobs[JobOf[i]] EXCEPT !.state = "running"] \in JobRow
    BY <2>1, StateType DEF TypeOK
  <2> QED BY <2>1, <2>2 DEF Claim, TypeOK
<1> QED BY <1>1, <1>2, NullAssumption DEF Claim, TypeOK, PCs, NullAssumption

LEMMA TypeWorkerReads ==
  ASSUME TypeOK, NEW w \in Workers,
         Fetch(w) \/ GetItem(w) \/ FlushAndGetJob(w) \/ RefreshJob(w) \/ Restart(w)
  PROVE  TypeOK'
<1>1. CASE Fetch(w)
  BY <1>1 DEF Fetch, TypeOK, tables, PCs
<1>2. CASE GetItem(w)
  BY <1>2 DEF GetItem, TypeOK, tables, PCs
<1>3. CASE FlushAndGetJob(w)
  <2>1. jobs[JobOf[held[w]]] \in JobRow
    BY <1>3, ConstantsAssumption DEF FlushAndGetJob, TypeOK, ConstantsAssumption
  <2> QED BY <1>3, <2>1 DEF FlushAndGetJob, TypeOK, tables, PCs
<1>4. CASE RefreshJob(w)
  <2>1. Refreshed(seen[w], ItemsOf(JobOf[held[w]]), View(w)) \in JobRow
    BY <1>4, RefreshedType DEF RefreshJob, TypeOK, ItemsOf
  <2> QED BY <1>4, <2>1 DEF RefreshJob, TypeOK, tables, PCs
<1>5. CASE Restart(w)
  BY <1>5 DEF Restart, TypeOK, tables, PCs
<1> QED BY <1>1, <1>2, <1>3, <1>4, <1>5

LEMMA TypeWorkerLeaves ==
  ASSUME TypeOK, NEW w \in Workers,
         Commit(w) \/ CompleteError(w) \/ AckLost(w) \/ Crash(w)
  PROVE  TypeOK'
<1>0. ASSUME Write(w) PROVE items' \in [Items -> ItemRow] /\ jobs' \in [Jobs -> JobRow]
  <2>1. Assigned(loaded[w], outcome[w]) \in ItemRow
    BY <1>0, AssignedType DEF Write, TypeOK
  <2>2. items' \in [Items -> ItemRow]
    BY <1>0, <2>1, FlushItemType DEF Write, TypeOK
  <2>3. jobs' \in [Jobs -> JobRow]
    BY <1>0, FlushJobType, ConstantsAssumption DEF Write, TypeOK, ConstantsAssumption
  <2> QED BY <2>2, <2>3
<1>1. CASE Commit(w)
  BY <1>0, <1>1, NullAssumption DEF Commit, Leave, TypeOK, PCs, NullAssumption
<1>2. CASE CompleteError(w)
  BY <1>2, NullAssumption
     DEF CompleteError, Report, Spend, TypeOK, tables, PCs, NullAssumption
<1>3. CASE AckLost(w)
  <2>1. pc[w] = "commit" /\ items' \in [Items -> ItemRow] /\ jobs' \in [Jobs -> JobRow]
    BY <1>0, <1>3 DEF AckLost, Write
  <2> QED BY <1>3, <2>1, NullAssumption
          DEF AckLost, Report, Spend, TypeOK, PCs, NullAssumption
<1>4. CASE Crash(w)
  BY <1>4, NullAssumption DEF Crash, Leave, Spend, TypeOK, tables, PCs, NullAssumption
<1> QED BY <1>1, <1>2, <1>3, <1>4

LEMMA TypeNext == TypeOK /\ [Next]_vars => TypeOK'
<1> SUFFICES ASSUME TypeOK, [Next]_vars PROVE TypeOK'
  OBVIOUS
<1>1. CASE UNCHANGED vars
  BY <1>1 DEF vars, TypeOK
<1>2. CASE Next
  BY <1>2, TypeClientsAndTime, TypeClaim, TypeWorkerReads, TypeWorkerLeaves
     DEF Next, WorkerStep
<1> QED BY <1>1, <1>2

(* Rows, sessions and locations keep their types in every behaviour of the *)
(* queue (repository.py, worker.py).                                       *)
THEOREM TypeCorrect == Spec => []TypeOK
BY TypeInit, TypeNext, PTL DEF Spec

(* Time changes no more than leases and due times. *)
LEMMA TimeStep ==
  ASSUME TypeOK, NEW k \in Items, ExpireLease(k) \/ BecomeDue(k), NEW i \in Items
  PROVE  /\ items'[i].state = items[i].state
         /\ items'[i].attempts = items[i].attempts
         /\ items'[i].result = items[i].result
         /\ items'[i].error_code = items[i].error_code
<1>1. items \in [Items -> ItemRow] /\ items[i] \in ItemRow
  BY DEF TypeOK
<1>2. CASE i # k
  BY <1>1, <1>2 DEF ExpireLease, BecomeDue
<1>3. CASE i = k
  <2>1. \/ items'[i] = [items[i] EXCEPT !.leased_until = "expired"]
        \/ items'[i] = [items[i] EXCEPT !.next_run_at = "due"]
    BY <1>1, <1>3 DEF ExpireLease, BecomeDue
  <2> QED BY <1>1, <2>1 DEF ItemRow
<1> QED BY <1>2, <1>3

-----------------------------------------------------------------------------
(* A job row is present as long as anything refers to it, and the items of *)
(* an absent job are absent: the batch of a CreateJob is always fresh.     *)

Present ==
  /\ \A i \in Items : items[i].state # "absent" => jobs[JobOf[i]].state # "absent"
  /\ \A w \in Workers :
       /\ held[w] \in Items => jobs[JobOf[held[w]]].state # "absent"
       /\ seen[w] \in JobRow => seen[w].state # "absent"
       /\ summary[w] \in JobRow => summary[w].state # "absent"
  /\ cancel # NULL => /\ jobs[cancel.job].state # "absent"
                      /\ cancel.items \subseteq ItemsOf(cancel.job)

LEMMA PresentInit == Init => Present
BY NullAssumption, ConstantsAssumption
   DEF Init, Present, NullAssumption, ConstantsAssumption, AbsentItem, NewItem

(* No step makes a present job absent. *)
LEMMA JobsStay ==
  ASSUME TypeOK, Present, [Next]_vars, NEW j \in Jobs, jobs[j].state # "absent"
  PROVE  jobs'[j].state # "absent"
<1>1. CASE UNCHANGED jobs
  BY <1>1
<1>2. ASSUME NEW k \in Jobs, CreateJob(k) PROVE jobs'[j].state # "absent"
  BY <1>2 DEF CreateJob, TypeOK
<1>3. ASSUME NEW w \in Workers, NEW i \in Items, Claim(w, i)
      PROVE  jobs'[j].state # "absent"
  BY <1>3 DEF Claim, TypeOK, JobRow
<1>4. ASSUME NEW w \in Workers, Write(w) PROVE jobs'[j].state # "absent"
  <2>1. /\ seen[w] \in JobRow /\ seen[w].state # "absent"
        /\ summary[w] \in JobRow /\ summary[w].state # "absent"
    BY <1>4 DEF Write, TypeOK, Present
  <2> QED BY <1>4, <2>1 DEF Write, FlushJob, TypeOK
<1>5. CASE CancelCommit
  BY <1>5 DEF CancelCommit, TypeOK, JobRow
<1> QED BY <1>1, <1>2, <1>3, <1>4, <1>5
        DEF Next, WorkerStep, vars, tables, workers, CancelLoad, CancelAbort, Fetch,
            GetItem, FlushAndGetJob, RefreshJob, Commit, CompleteError, AckLost, Crash,
            Restart,
            ExpireLease, BecomeDue

LEMMA PresentItems ==
  ASSUME TypeOK, Present, [Next]_vars, NEW i \in Items, items'[i].state # "absent"
  PROVE  jobs'[JobOf[i]].state # "absent"
<1>0. JobOf[i] \in Jobs
  BY ConstantsAssumption DEF ConstantsAssumption
<1>1. CASE items[i].state # "absent"
  BY <1>0, <1>1, JobsStay DEF Present
<1>2. CASE items[i].state = "absent" /\ \E j \in Jobs : CreateJob(j)
  <2>1. PICK j \in Jobs : CreateJob(j)
    BY <1>2
  <2>2. JobOf[i] = j
    BY <2>1, <1>2 DEF CreateJob
  <2> QED BY <2>1, <2>2 DEF CreateJob, TypeOK, NewJob
<1>3. CASE items[i].state = "absent" /\ \E w \in Workers, k \in Items : Claim(w, k)
  <2>1. PICK w \in Workers, k \in Items : Claim(w, k)
    BY <1>3
  <2>2. k = i
    BY <2>1, <1>3 DEF Claim, TypeOK
  <2> QED BY <2>1, <2>2, <1>3 DEF Claim, Claimable
<1>4. CASE items[i].state = "absent" /\ \E w \in Workers : Write(w)
  <2>1. PICK w \in Workers : Write(w)
    BY <1>4
  <2>2. held[w] = i
    BY <2>1, <1>4 DEF Write, TypeOK
  <2> QED BY <1>0, <2>2, JobsStay DEF Present
<1>5. CASE items[i].state = "absent" /\ CancelCommit
  <2>1. i \in cancel.items
    BY <1>5 DEF CancelCommit
  <2>2. cancel # NULL /\ JobOf[i] = cancel.job
    BY <1>5, <2>1 DEF CancelCommit, Present, ItemsOf
  <2> QED BY <1>0, <2>2, JobsStay DEF Present
<1>6. CASE \E k \in Items : ExpireLease(k) \/ BecomeDue(k)
  <2>1. items[i].state # "absent"
    BY <1>6, TimeStep
  <2> QED BY <1>1, <2>1
<1>7. CASE UNCHANGED items
  BY <1>1, <1>7
<1> QED BY <1>1, <1>2, <1>3, <1>4, <1>5, <1>6, <1>7
        DEF Next, WorkerStep, vars, tables, workers, CancelLoad, CancelAbort, Fetch,
            GetItem, FlushAndGetJob, RefreshJob, Commit, CompleteError, AckLost, Crash,
            Restart

(* A step leaves the session of w alone unless it is a step of w.          *)
Session(w) == <<pc[w], held[w], outcome[w], loaded[w], seen[w], summary[w]>>

OwnStep(w) == WorkerStep(w) \/ CompleteError(w) \/ AckLost(w) \/ Crash(w)

LEMMA SessionsApart ==
  ASSUME TypeOK, NEW v \in Workers, NEW w \in Workers, v # w, OwnStep(v)
  PROVE  Session(w)' = Session(w)
<1>1. ASSUME NEW i \in Items, Claim(v, i) PROVE Session(w)' = Session(w)
  BY <1>1 DEF Claim, Session, TypeOK
<1>2. CASE Fetch(v)
  BY <1>2 DEF Fetch, Session, TypeOK
<1>3. CASE GetItem(v) \/ FlushAndGetJob(v) \/ RefreshJob(v) \/ Restart(v)
  BY <1>3 DEF GetItem, FlushAndGetJob, RefreshJob, Restart, Session, TypeOK
<1>4. CASE Commit(v)
  BY <1>4 DEF Commit, Leave, Session, TypeOK
<1>5. CASE CompleteError(v) \/ AckLost(v) \/ Crash(v)
  BY <1>5 DEF CompleteError, AckLost, Report, Crash, Leave, Session, TypeOK
<1> QED BY <1>1, <1>2, <1>3, <1>4, <1>5 DEF OwnStep, WorkerStep

LEMMA SessionSteps ==
  ASSUME TypeOK, [Next]_vars, NEW w \in Workers
  PROVE  Session(w)' = Session(w) \/ OwnStep(w)
<1>1. CASE UNCHANGED workers
  BY <1>1 DEF workers, Session
<1>2. ASSUME NEW v \in Workers, OwnStep(v)
      PROVE  Session(w)' = Session(w) \/ OwnStep(w)
  BY <1>2, SessionsApart
<1>3. UNCHANGED workers \/ \E v \in Workers : OwnStep(v)
  BY DEF Next, OwnStep, vars, workers, CreateJob, CancelLoad, CancelAbort, CancelCommit,
         ExpireLease, BecomeDue
<1> QED BY <1>1, <1>2, <1>3

LEMMA PresentSessions ==
  ASSUME TypeOK, TypeOK', Present, [Next]_vars, NEW w \in Workers
  PROVE  /\ held'[w] \in Items => jobs'[JobOf[held'[w]]].state # "absent"
         /\ seen'[w] \in JobRow => seen'[w].state # "absent"
         /\ summary'[w] \in JobRow => summary'[w].state # "absent"
<1>0. \A i \in Items : JobOf[i] \in Jobs
  BY ConstantsAssumption DEF ConstantsAssumption
<1>1. ASSUME held'[w] \in Items PROVE jobs'[JobOf[held'[w]]].state # "absent"
  <2>1. CASE held'[w] = held[w]
    BY <1>0, <1>1, <2>1, JobsStay DEF Present
  <2>2. CASE held'[w] # held[w]
    <3>1. \/ held'[w] = NULL
          \/ \E i \in Items : Claim(w, i)
      <4>1. OwnStep(w)
        BY <2>2, SessionSteps DEF Session
      <4>2. CASE Commit(w) \/ Crash(w)
        BY <4>2 DEF Commit, Crash, Leave, TypeOK
      <4> QED BY <2>2, <4>1, <4>2
              DEF OwnStep, WorkerStep, Fetch, GetItem, FlushAndGetJob, RefreshJob,
                  CompleteError, AckLost, Report, Restart
    <3>2. PICK i \in Items : Claim(w, i)
      BY <1>1, <3>1, NullAssumption DEF NullAssumption
    <3> QED BY <1>0, <3>2 DEF Claim, TypeOK, JobRow
  <2> QED BY <2>1, <2>2
<1>2. ASSUME seen'[w] \in JobRow PROVE seen'[w].state # "absent"
  <2>1. CASE seen'[w] = seen[w]
    BY <1>2, <2>1 DEF Present
  <2>2. CASE seen'[w] # seen[w]
    <3>1. \/ seen'[w] = NULL
          \/ FlushAndGetJob(w)
      <4>1. OwnStep(w)
        BY <2>2, SessionSteps DEF Session
      <4>2. CASE Commit(w) \/ Crash(w)
        BY <4>2 DEF Commit, Crash, Leave, TypeOK
      <4>3. CASE CompleteError(w) \/ AckLost(w)
        BY <4>3 DEF CompleteError, AckLost, Report, TypeOK
      <4>4. ASSUME NEW i \in Items, Claim(w, i) PROVE UNCHANGED <<seen, summary>>
        BY <4>4 DEF Claim
      <4>5. CASE Fetch(w) \/ GetItem(w) \/ Restart(w)
        BY <2>2, <4>5 DEF Fetch, GetItem, Restart
      <4>6. CASE RefreshJob(w)
        BY <2>2, <4>6 DEF RefreshJob
      <4> QED BY <2>2, <4>1, <4>2, <4>3, <4>4, <4>5, <4>6 DEF OwnStep, WorkerStep
    <3>2. FlushAndGetJob(w)
      BY <1>2, <3>1, NullAssumption DEF NullAssumption
    <3> QED BY <3>2 DEF FlushAndGetJob, Present, TypeOK
  <2> QED BY <2>1, <2>2
<1>3. ASSUME summary'[w] \in JobRow PROVE summary'[w].state # "absent"
  <2>1. CASE summary'[w] = summary[w]
    BY <1>3, <2>1 DEF Present
  <2>2. CASE summary'[w] # summary[w]
    <3>1. \/ summary'[w] = NULL
          \/ RefreshJob(w)
      <4>1. OwnStep(w)
        BY <2>2, SessionSteps DEF Session
      <4>2. CASE Commit(w) \/ Crash(w)
        BY <4>2 DEF Commit, Crash, Leave, TypeOK
      <4>3. CASE CompleteError(w) \/ AckLost(w)
        BY <4>3 DEF CompleteError, AckLost, Report, TypeOK
      <4>4. ASSUME NEW i \in Items, Claim(w, i) PROVE UNCHANGED <<seen, summary>>
        BY <4>4 DEF Claim
      <4>5. CASE Fetch(w) \/ GetItem(w) \/ Restart(w)
        BY <2>2, <4>5 DEF Fetch, GetItem, Restart
      <4>6. CASE FlushAndGetJob(w)
        BY <2>2, <4>6 DEF FlushAndGetJob
      <4> QED BY <2>2, <4>1, <4>2, <4>3, <4>4, <4>5, <4>6 DEF OwnStep, WorkerStep
    <3>2. RefreshJob(w)
      BY <1>3, <3>1, NullAssumption DEF NullAssumption
    <3>3. seen[w] \in JobRow /\ seen[w].state # "absent"
      BY <3>2 DEF RefreshJob, TypeOK, Present
    <3> QED BY <3>2, <3>3 DEF RefreshJob, Refreshed, TypeOK
  <2> QED BY <2>1, <2>2
<1> QED BY <1>1, <1>2, <1>3

LEMMA PresentNext ==
  ASSUME TypeOK, TypeOK', Present, [Next]_vars
  PROVE  Present'
<1>1. ASSUME cancel' # NULL
      PROVE  /\ jobs'[cancel'.job].state # "absent"
             /\ cancel'.items \subseteq ItemsOf(cancel'.job)
  <2>1. CASE cancel' = cancel
    BY <1>1, <2>1, JobsStay DEF Present, TypeOK
  <2>2. CASE cancel' # cancel
    <3>1. PICK j \in Jobs : CancelLoad(j)
      BY <1>1, <2>2 DEF Next, WorkerStep, vars, tables, workers, CreateJob,
                  CancelAbort, CancelCommit, Claim, Fetch, GetItem, FlushAndGetJob,
                  RefreshJob, Commit, CompleteError, AckLost, Crash, Restart,
                  ExpireLease, BecomeDue
    <3> QED BY <3>1, JobsStay DEF CancelLoad, ItemsOf, tables
  <2> QED BY <2>1, <2>2
<1> QED BY <1>1, PresentItems, PresentSessions DEF Present, ItemsOf

-----------------------------------------------------------------------------
(* Ends are backed.  EndBacked alone is not inductive: a transaction that  *)
(* found nothing to change relies on what it loaded being in the row yet.  *)

Recorded ==
  /\ EndBacked
  /\ \A w \in Workers : loaded[w] \in ItemRow =>
       /\ loaded[w].state = "succeeded" => loaded[w].result # NULL
       /\ loaded[w].state = "failed" => loaded[w].error_code # NULL
       /\ loaded[w].result # NULL => items[held[w]].result # NULL
       /\ loaded[w].error_code # NULL => items[held[w]].error_code # NULL

LEMMA RecordedInit == Init => Recorded
BY NullAssumption DEF Init, Recorded, EndBacked, AbsentItem, NewItem, NullAssumption

(* What a commit writes, from what the session assigned. *)
LEMMA FlushRecords ==
  ASSUME NEW row \in ItemRow, NEW old \in ItemRow, NEW out \in Outcomes,
         old.state = "succeeded" => old.result # NULL,
         old.state = "failed" => old.error_code # NULL,
         old.result # NULL => row.result # NULL,
         old.error_code # NULL => row.error_code # NULL,
         NEW new, new = FlushItem(row, old, Assigned(old, out))
  PROVE  /\ row.result # NULL => new.result # NULL
         /\ row.error_code # NULL => new.error_code # NULL
         /\ (row.state = "succeeded" => row.result # NULL) =>
              (new.state = "succeeded" => new.result # NULL)
         /\ (row.state = "failed" => row.error_code # NULL) =>
              (new.state = "failed" => new.error_code # NULL)
<1>1. out # NULL
  BY NullAssumption DEF NullAssumption
<1>2. CASE out \in Returned
  BY <1>1, <1>2 DEF Assigned, Completed, FlushItem, ItemRow
<1>3. CASE out \notin Returned
  BY <1>1, <1>3 DEF Assigned, Failed, FlushItem, ItemRow
<1> QED BY <1>2, <1>3

LEMMA OutcomesKept ==
  ASSUME TypeOK, Recorded, [Next]_vars, NEW i \in Items, ~CreateJob(JobOf[i])
  PROVE  /\ items[i].result # NULL => items'[i].result # NULL
         /\ items[i].error_code # NULL => items'[i].error_code # NULL
<1>1. CASE UNCHANGED items
  BY <1>1
<1>2. ASSUME NEW j \in Jobs, CreateJob(j) PROVE items'[i] = items[i]
  BY <1>2 DEF CreateJob
<1>3. ASSUME NEW w \in Workers, NEW k \in Items, Claim(w, k)
      PROVE  /\ items'[i].result = items[i].result
             /\ items'[i].error_code = items[i].error_code
  BY <1>3 DEF Claim, Claimed, TypeOK, ItemRow
<1>4. ASSUME NEW w \in Workers, Write(w)
      PROVE  /\ items[i].result # NULL => items'[i].result # NULL
             /\ items[i].error_code # NULL => items'[i].error_code # NULL
  <2>1. held[w] \in Items /\ loaded[w] \in ItemRow /\ outcome[w] \in Outcomes
    BY <1>4 DEF Write, TypeOK
  <2>2. CASE i # held[w]
    BY <1>4, <2>1, <2>2 DEF Write, TypeOK
  <2>3. CASE i = held[w]
    <3>1. items'[i] = FlushItem(items[i], loaded[w], Assigned(loaded[w], outcome[w]))
      BY <1>4, <2>3 DEF Write, TypeOK
    <3> QED BY <2>1, <2>3, <3>1, FlushRecords DEF Recorded, TypeOK
  <2> QED BY <2>2, <2>3
<1>5. CASE CancelCommit
  BY <1>5 DEF CancelCommit, TypeOK, ItemRow
<1>6. ASSUME NEW k \in Items, ExpireLease(k) \/ BecomeDue(k)
      PROVE  /\ items'[i].result = items[i].result
             /\ items'[i].error_code = items[i].error_code
  BY <1>6, TimeStep
<1> QED BY <1>1, <1>2, <1>3, <1>4, <1>5, <1>6
        DEF Next, WorkerStep, vars, tables, workers, CancelLoad, CancelAbort, Fetch,
            GetItem, FlushAndGetJob, RefreshJob, Commit, CompleteError, AckLost, Crash,
            Restart

LEMMA EndBackedNext ==
  ASSUME TypeOK, Recorded, [Next]_vars
  PROVE  EndBacked'
<1> SUFFICES ASSUME NEW i \in Items
             PROVE  /\ items'[i].state = "succeeded" => items'[i].result # NULL
                    /\ items'[i].state = "failed" => items'[i].error_code # NULL
  BY DEF EndBacked
<1>1. CASE UNCHANGED items
  BY <1>1 DEF Recorded, EndBacked
<1>2. ASSUME NEW j \in Jobs, CreateJob(j)
      PROVE  items'[i] = items[i] \/ items'[i] = NewItem
  BY <1>2 DEF CreateJob
<1>3. ASSUME NEW w \in Workers, NEW k \in Items, Claim(w, k)
      PROVE  items'[i] = items[i] \/ items'[i].state = "running"
  BY <1>3 DEF Claim, Claimed, TypeOK, ItemRow
<1>4. ASSUME NEW w \in Workers, Write(w)
      PROVE  /\ items'[i].state = "succeeded" => items'[i].result # NULL
             /\ items'[i].state = "failed" => items'[i].error_code # NULL
  <2>1. held[w] \in Items /\ loaded[w] \in ItemRow /\ outcome[w] \in Outcomes
    BY <1>4 DEF Write, TypeOK
  <2>2. CASE i # held[w]
    BY <1>4, <2>1, <2>2 DEF Write, TypeOK, Recorded, EndBacked
  <2>3. CASE i = held[w]
    <3>1. items'[i] = FlushItem(items[i], loaded[w], Assigned(loaded[w], outcome[w]))
      BY <1>4, <2>3 DEF Write, TypeOK
    <3> QED BY <2>1, <2>3, <3>1, FlushRecords DEF Recorded, EndBacked, TypeOK
  <2> QED BY <2>2, <2>3
<1>5. CASE CancelCommit
  BY <1>5 DEF CancelCommit, TypeOK, ItemRow, Recorded, EndBacked
<1>6. ASSUME NEW k \in Items, ExpireLease(k) \/ BecomeDue(k)
      PROVE  /\ items'[i].state = items[i].state
             /\ items'[i].result = items[i].result
             /\ items'[i].error_code = items[i].error_code
  BY <1>6, TimeStep
<1> QED BY <1>1, <1>2, <1>3, <1>4, <1>5, <1>6
        DEF Next, WorkerStep, vars, tables, workers, CancelLoad, CancelAbort, Fetch,
            GetItem, FlushAndGetJob, RefreshJob, Commit, CompleteError, AckLost, Crash,
            Restart,
            Recorded, EndBacked, NewItem

LEMMA RecordedNext ==
  ASSUME TypeOK, TypeOK', Present, Recorded, [Next]_vars
  PROVE  Recorded'
<1> SUFFICES ASSUME NEW w \in Workers, loaded'[w] \in ItemRow
             PROVE  /\ loaded'[w].state = "succeeded" => loaded'[w].result # NULL
                    /\ loaded'[w].state = "failed" => loaded'[w].error_code # NULL
                    /\ loaded'[w].result # NULL => items'[held'[w]].result # NULL
                    /\ loaded'[w].error_code # NULL => items'[held'[w]].error_code # NULL
  BY EndBackedNext DEF Recorded
<1>1. held'[w] \in Items /\ pc'[w] \in {"flush", "refresh", "commit"}
  BY DEF TypeOK
<1>2. CASE GetItem(w)
  BY <1>2 DEF GetItem, tables, Recorded, EndBacked, TypeOK
<1>3. CASE loaded'[w] = loaded[w] /\ held'[w] = held[w]
  <2>1. ~CreateJob(JobOf[held[w]])
    BY <1>1, <1>3 DEF Present, CreateJob
  <2> QED BY <1>1, <1>3, <2>1, OutcomesKept DEF Recorded
<1>4. CASE ~(loaded'[w] = loaded[w] /\ held'[w] = held[w])
  <2>1. OwnStep(w)
    BY <1>4, SessionSteps DEF Session
  <2>2. CASE Commit(w) \/ CompleteError(w) \/ AckLost(w) \/ Crash(w)
    BY <1>1, <2>2 DEF Commit, CompleteError, AckLost, Report, Crash, Leave, TypeOK
  <2>3. ASSUME NEW i \in Items, Claim(w, i) PROVE FALSE
    BY <1>1, <2>3 DEF Claim, TypeOK
  <2> QED BY <1>2, <1>4, <2>1, <2>2, <2>3
          DEF OwnStep, WorkerStep, Fetch, FlushAndGetJob, RefreshJob, Restart
<1> QED BY <1>2, <1>3, <1>4

(* A succeeded item has its result and a failed one its error code, under  *)
(* any crashes, errors, overrun leases and cancellations                   *)
(* (repository.py:97-124).                                                 *)
THEOREM EndsAreBacked == Spec => []EndBacked
<1>1. Init => TypeOK /\ Present /\ Recorded
  BY TypeInit, PresentInit, RecordedInit
<1>2. TypeOK /\ Present /\ Recorded /\ [Next]_vars => (TypeOK /\ Present /\ Recorded)'
  BY TypeNext, PresentNext, RecordedNext
<1>3. Recorded => EndBacked
  BY DEF Recorded
<1> QED BY <1>1, <1>2, <1>3, PTL DEF Spec

-----------------------------------------------------------------------------
(* Cancelled items.                                                        *)

LEMMA CancelledStep ==
  ASSUME TypeOK, Present, [Next]_vars,
         NEW i \in Items, items[i].state = "cancelled", \A w \in Workers : held[w] # i
  PROVE  items'[i].state = "cancelled"
<1>1. CASE UNCHANGED items
  BY <1>1
<1>2. ASSUME NEW j \in Jobs, CreateJob(j) PROVE items'[i] = items[i]
  BY <1>2 DEF CreateJob, Present
<1>3. ASSUME NEW w \in Workers, NEW k \in Items, Claim(w, k) PROVE items'[i] = items[i]
  <2>1. k # i
    BY <1>3 DEF Claim, Claimable
  <2> QED BY <1>3, <2>1 DEF Claim, TypeOK
<1>4. ASSUME NEW w \in Workers, Write(w) PROVE items'[i] = items[i]
  BY <1>4 DEF Write, TypeOK
<1>5. CASE CancelCommit
  BY <1>5 DEF CancelCommit, TypeOK, ItemRow
<1>6. ASSUME NEW k \in Items, ExpireLease(k) \/ BecomeDue(k)
      PROVE  items'[i].state = items[i].state
  BY <1>6, TimeStep
<1> QED BY <1>1, <1>2, <1>3, <1>4, <1>5, <1>6
        DEF Next, WorkerStep, vars, tables, workers, CancelLoad, CancelAbort, Fetch,
            GetItem, FlushAndGetJob, RefreshJob, Commit, CompleteError, AckLost, Crash,
            Restart

(* What a client cancelled while no worker had it never runs again,        *)
(* whatever other sessions are open (repository.py:62-63, 73-80).          *)
THEOREM CancelledStaysOut == Spec => CancelledIsOut
<1>1. Init => TypeOK /\ Present
  BY TypeInit, PresentInit
<1>2. TypeOK /\ Present /\ [Next]_vars => (TypeOK /\ Present)'
  BY TypeNext, PresentNext
<1>3. ASSUME TypeOK, Present, [Next]_vars
      PROVE  [\A i \in Items :
                 items[i].state = "cancelled" /\ (\A w \in Workers : held[w] # i) =>
                   items'[i].state = "cancelled"]_vars
  BY <1>3, CancelledStep
<1> QED BY <1>1, <1>2, <1>3, PTL DEF Spec, CancelledIsOut
=============================================================================
