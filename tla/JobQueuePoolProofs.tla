------------------------- MODULE JobQueuePoolProofs -------------------------
(***************************************************************************)
(* While no client cancels and no worker takes over an item that another   *)
(* still executes, the job queue implements TaskPool, whatever crashes and *)
(* errors happen.                                                          *)
(***************************************************************************)
EXTENDS JobQueueProofs

(* One worker process per queue, as deployed (deploy/systemd).             *)
OneWorkerPerItem ==
  \A v, w \in Workers, i \in Items :
    QueueOf[i] = WorkerQueue[v] /\ QueueOf[i] = WorkerQueue[w] => v = w

(* No cancellations.  Workers may overrun their leases only if no other    *)
(* worker is there to claim the item then.                                 *)
Undisturbed ==
  Budget["cancel"] = 0 /\ (Budget["overrun"] = 0 \/ OneWorkerPerItem)

LeasesLive ==
  /\ budget["overrun"] = 0
  /\ \A w \in Workers :
       held[w] \in Items /\ items[held[w]].state = "running" =>
         items[held[w]].leased_until = "live"

(* The worker that holds an item holds it alone, under its live lease      *)
(* wherever that matters, unless it completed it without being told.  The  *)
(* session's view of its own item is then never stale.                     *)
Executed(w) ==
  \/ items[held[w]].state = "running"
  \/ items[held[w]].state = "succeeded" /\ outcome[w] = "retryable"

Leased ==
  /\ budget["cancel"] = 0 /\ cancel = NULL
  /\ OneExecutor
  /\ \A w \in Workers :
       /\ held[w] \in Items => /\ QueueOf[held[w]] = WorkerQueue[w]
                               /\ Executed(w)
       /\ loaded[w] \in ItemRow => /\ loaded[w].state = items[held[w]].state
                                   /\ loaded[w].result = items[held[w]].result
  /\ LeasesLive \/ OneWorkerPerItem

LEMMA LeasedInit == Undisturbed /\ Init => Leased
BY NullAssumption DEF Undisturbed, Init, Leased, LeasesLive, Executed, OneExecutor, NullAssumption

LEMMA NoDisturbance ==
  ASSUME TypeOK, Leased, Next
  PROVE  /\ budget'["cancel"] = 0 /\ cancel' = NULL
         /\ \A j \in Jobs : ~CancelLoad(j)
         /\ ~CancelCommit
<1>1. ~Spend("cancel") /\ ~CancelCommit /\ ~CancelAbort
  BY DEF Leased, CancelCommit, CancelAbort, Spend
<1>2. \A j \in Jobs : ~CancelLoad(j)
  BY <1>1 DEF CancelLoad
<1>3. ASSUME \E d \in {"error", "lost", "crash", "overrun"} : Spend(d)
      PROVE  budget'["cancel"] = budget["cancel"]
  BY <1>3 DEF Spend, TypeOK
<1>4. ASSUME NEW w \in Workers, CompleteError(w) \/ AckLost(w) \/ Crash(w)
      PROVE  budget'["cancel"] = 0 /\ cancel' = NULL
  BY <1>3, <1>4 DEF CompleteError, AckLost, Crash, Leased, tables
<1>5. ASSUME NEW i \in Items, ExpireLease(i) PROVE budget'["cancel"] = 0 /\ cancel' = NULL
  BY <1>3, <1>5 DEF ExpireLease, Leased
<1> QED BY <1>1, <1>2, <1>4, <1>5
        DEF Next, WorkerStep, tables, workers, Leased, CreateJob, Claim, Fetch,
            GetItem, FlushAndGetJob, RefreshJob, Commit, Restart, BecomeDue

(* Where leases are live, no lease of an item at work runs out.            *)
LEMMA NoOverrun ==
  ASSUME TypeOK, LeasesLive, Next
  PROVE  /\ budget'["overrun"] = 0
         /\ \A i \in Items : ExpireLease(i) => \A w \in Workers : held[w] # i
<1>1. ~Spend("overrun")
  BY DEF LeasesLive, Spend
<1>2. \A i \in Items : ExpireLease(i) => (\A w \in Workers : held[w] # i) /\ budget' = budget
  BY <1>1 DEF ExpireLease
<1>3. ASSUME \E d \in {"error", "lost", "crash", "cancel"} : Spend(d)
      PROVE  budget'["overrun"] = 0
  BY <1>3 DEF Spend, TypeOK, LeasesLive
<1>4. \/ budget' = budget \/ (\E d \in {"error", "lost", "crash", "cancel"} : Spend(d))
      \/ \E i \in Items : ExpireLease(i)
  BY DEF Next, WorkerStep, tables, workers, CreateJob, Claim, Fetch, GetItem,
         FlushAndGetJob, RefreshJob, Commit, Restart, BecomeDue, CompleteError,
         AckLost, Crash, CancelLoad, CancelCommit, CancelAbort
<1> QED BY <1>2, <1>3, <1>4 DEF LeasesLive

(* What a worker claims is nobody's.                                       *)
LEMMA ClaimFree ==
  ASSUME TypeOK, Leased, NEW v \in Workers, NEW i \in Items, Claim(v, i), NEW w \in Workers
  PROVE  held[w] # i
<1> SUFFICES ASSUME held[w] = i PROVE FALSE
  OBVIOUS
<1>1. /\ items[i].state = "running" /\ QueueOf[i] = WorkerQueue[w]
      /\ items[i].leased_until = "expired" /\ QueueOf[i] = WorkerQueue[v]
  BY DEF Claim, Claimable, Leased, Executed
<1>2. CASE LeasesLive
  BY <1>1, <1>2 DEF LeasesLive
<1>3. CASE OneWorkerPerItem
  <2>1. v = w
    BY <1>1, <1>3 DEF OneWorkerPerItem
  <2> QED BY <2>1 DEF Claim, TypeOK
<1> QED BY <1>2, <1>3 DEF Leased

(* An item that a worker keeps holding is touched by no other step but its *)
(* own lost completion and the end of its lease.                           *)
LEMMA HeldUntouched ==
  ASSUME TypeOK, TypeOK', Present, Leased, Next, NEW w \in Workers,
         held[w] \in Items, held'[w] = held[w], ~AckLost(w)
  PROVE  /\ items'[held[w]].state = items[held[w]].state
         /\ items'[held[w]].result = items[held[w]].result
         /\ LeasesLive => items'[held[w]].leased_until = items[held[w]].leased_until
<1> DEFINE i == held[w]
<1>1. CASE UNCHANGED items
  BY <1>1
<1>2. ASSUME NEW j \in Jobs, CreateJob(j) PROVE items'[i] = items[i]
  BY <1>2 DEF CreateJob, Present
<1>3. ASSUME NEW v \in Workers, NEW k \in Items, Claim(v, k) PROVE items'[i] = items[i]
  <2>1. k # i
    BY <1>3, ClaimFree
  <2> QED BY <1>3, <2>1 DEF Claim, TypeOK
<1>4. ASSUME NEW v \in Workers, Commit(v) \/ AckLost(v) PROVE items'[i] = items[i]
  <2>1. Write(v) /\ held[v] \in Items
    BY <1>4 DEF Commit, AckLost, Write, TypeOK
  <2>2. v # w
    BY <1>4, NullAssumption DEF Commit, Leave, TypeOK, NullAssumption
  <2>3. held[v] # i
    BY <2>1, <2>2, NullAssumption DEF Leased, OneExecutor, NullAssumption
  <2> QED BY <2>1, <2>3 DEF Write, TypeOK
<1>5. ASSUME NEW k \in Items, ExpireLease(k)
      PROVE  /\ items'[i].state = items[i].state
             /\ items'[i].result = items[i].result
             /\ k # i => items'[i] = items[i]
  BY <1>5 DEF ExpireLease, TypeOK, ItemRow
<1>6. ASSUME NEW k \in Items, ExpireLease(k), LeasesLive PROVE k # i
  BY <1>6, NoOverrun
<1>7. ASSUME NEW k \in Items, BecomeDue(k)
      PROVE  /\ items'[i].state = items[i].state
             /\ items'[i].leased_until = items[i].leased_until
             /\ items'[i].result = items[i].result
  BY <1>7 DEF BecomeDue, TypeOK, ItemRow
<1> QED BY <1>1, <1>2, <1>3, <1>4, <1>5, <1>6, <1>7, NoDisturbance
        DEF Next, WorkerStep, vars, tables, workers, Fetch, CancelAbort,
            GetItem, FlushAndGetJob, RefreshJob, CompleteError, Crash, Restart

(* How a step changes the item a worker holds. *)
LEMMA HeldSteps ==
  ASSUME TypeOK, Next, NEW w \in Workers
  PROVE  \/ held'[w] = held[w]
         \/ held'[w] = NULL
         \/ \E i \in Items : Claim(w, i) /\ held'[w] = i
<1>1. CASE Session(w)' = Session(w)
  BY <1>1 DEF Session
<1>2. ASSUME NEW i \in Items, Claim(w, i) PROVE held'[w] = i
  BY <1>2 DEF Claim, TypeOK
<1>3. CASE Commit(w) \/ Crash(w)
  BY <1>3 DEF Commit, Crash, Leave, TypeOK
<1> QED BY <1>1, <1>2, <1>3, SessionSteps
        DEF OwnStep, WorkerStep, Fetch, GetItem, FlushAndGetJob, RefreshJob,
            CompleteError, AckLost, Report, Restart

LEMMA LeasedExecutor ==
  ASSUME TypeOK, TypeOK', Leased, Next
  PROVE  OneExecutor'
<1> SUFFICES ASSUME NEW v \in Workers, NEW w \in Workers, v # w,
                    held'[v] = held'[w], held'[v] # NULL
             PROVE  FALSE
  BY DEF OneExecutor
<1>1. ASSUME NEW a \in Workers, NEW b \in Workers, a # b, NEW i \in Items,
             Claim(a, i), held'[b] = i
      PROVE  FALSE
  <2>1. held[b] = i
    BY <1>1 DEF Claim, TypeOK
  <2> QED BY <1>1, <2>1, ClaimFree
<1>2. held'[v] \in Items
  BY DEF TypeOK
<1>3. ~\E i \in Items : Claim(v, i) /\ held'[v] = i
  BY <1>1
<1>4. ~\E i \in Items : Claim(w, i) /\ held'[w] = i
  BY <1>1
<1>5. held'[v] = held[v] /\ held'[w] = held[w]
  BY <1>3, <1>4, HeldSteps
<1> QED BY <1>5 DEF Leased, OneExecutor

(* A completion whose acknowledgement is lost leaves its worker with an    *)
(* item that has succeeded.                                                *)
LEMMA AckLostItem ==
  ASSUME TypeOK, Leased, NEW w \in Workers, AckLost(w)
  PROVE  /\ held[w] \in Items /\ held'[w] = held[w]
         /\ items[held[w]].state = "running"
         /\ items'[held[w]].state = "succeeded" /\ outcome'[w] = "retryable"
         /\ loaded'[w] = NULL
<1>1. /\ held[w] \in Items /\ held' = held /\ Write(w)
      /\ loaded[w] \in ItemRow /\ outcome[w] \in Returned
      /\ outcome'[w] = "retryable" /\ loaded'[w] = NULL
  BY DEF AckLost, Report, Write, TypeOK
<1>2. items[held[w]].state = "running" /\ loaded[w].state = "running"
  BY <1>1 DEF Leased, Executed, Returned
<1>3. items'[held[w]].state = "succeeded"
  BY <1>1, <1>2 DEF Write, FlushItem, Assigned, Completed, TypeOK, ItemRow
<1> QED BY <1>1, <1>2, <1>3

LEMMA LeasedSessions ==
  ASSUME TypeOK, TypeOK', Present, Leased, Next, NEW w \in Workers
  PROVE  /\ held'[w] \in Items => /\ QueueOf[held'[w]] = WorkerQueue[w]
                                  /\ Executed(w)'
         /\ loaded'[w] \in ItemRow => /\ loaded'[w].state = items'[held'[w]].state
                                      /\ loaded'[w].result = items'[held'[w]].result
         /\ LeasesLive =>
              (held'[w] \in Items /\ items'[held'[w]].state = "running" =>
                 items'[held'[w]].leased_until = "live")
<1>1. CASE held'[w] = NULL
  BY <1>1, NullAssumption DEF TypeOK, NullAssumption
<1>2. ASSUME NEW i \in Items, Claim(w, i)
      PROVE  /\ held'[w] = i /\ items'[i].state = "running" /\ QueueOf[i] = WorkerQueue[w]
             /\ items'[i].leased_until = "live" /\ loaded'[w] \notin ItemRow
  BY <1>2 DEF Claim, Claimed, TypeOK, ItemRow
<1>3. CASE AckLost(w)
  BY <1>3, AckLostItem, NullAssumption DEF Leased, Executed, NullAssumption
<1>4. CASE held'[w] = held[w] /\ held[w] # NULL /\ ~AckLost(w)
  <2>1. held[w] \in Items
    BY <1>4 DEF TypeOK
  <2>2. /\ QueueOf[held'[w]] = WorkerQueue[w]
        /\ items'[held'[w]].state = items[held[w]].state
        /\ items'[held'[w]].result = items[held[w]].result
        /\ LeasesLive => items'[held'[w]].leased_until = items[held[w]].leased_until
    BY <1>4, <2>1, HeldUntouched DEF Leased
  <2>3. items[held[w]].state = "succeeded" => outcome'[w] = "retryable"
    <3>1. ASSUME items[held[w]].state = "succeeded" PROVE outcome[w] = "retryable"
      BY <2>1, <3>1 DEF Leased, Executed
    <3>2. CASE Session(w)' = Session(w)
      BY <3>1, <3>2 DEF Session
    <3>3. ASSUME Fetch(w) PROVE outcome[w] # "retryable"
      BY <3>3 DEF Fetch, TypeOK, Outcomes, Raised
    <3>4. CASE CompleteError(w)
      BY <3>4 DEF CompleteError, Report, TypeOK
    <3>5. CASE Commit(w) \/ Crash(w)
      BY <1>4, <3>5 DEF Commit, Crash, Leave, TypeOK
    <3> QED BY <1>4, <3>1, <3>2, <3>3, <3>4, <3>5, SessionSteps
            DEF OwnStep, WorkerStep, Claim, GetItem, FlushAndGetJob, RefreshJob, Restart
  <2>4. Executed(w)'
    BY <1>4, <2>1, <2>2, <2>3 DEF Leased, Executed
  <2>5. ASSUME loaded'[w] \in ItemRow
        PROVE  /\ loaded'[w].state = items'[held'[w]].state
               /\ loaded'[w].result = items'[held'[w]].result
    <3>1. CASE loaded'[w] = loaded[w]
      BY <2>2, <2>5, <3>1 DEF Leased
    <3>2. CASE GetItem(w)
      BY <2>1, <2>2, <3>2 DEF GetItem, TypeOK
    <3>3. CASE loaded'[w] # loaded[w]
      <4>1. OwnStep(w)
        BY <3>3, SessionSteps DEF Session
      <4>2. CASE Commit(w) \/ CompleteError(w) \/ Crash(w)
        BY <2>5, <4>2, NullAssumption
           DEF Commit, CompleteError, Report, Crash, Leave, TypeOK, NullAssumption
      <4> QED BY <1>4, <3>2, <3>3, <4>1, <4>2
              DEF OwnStep, WorkerStep, Claim, Fetch, FlushAndGetJob, RefreshJob, Restart
    <3> QED BY <3>1, <3>3
  <2> QED BY <2>1, <2>2, <2>4, <2>5 DEF LeasesLive
<1> QED BY <1>1, <1>2, <1>3, <1>4, HeldSteps DEF Executed

LEMMA LeasedNext ==
  ASSUME TypeOK, TypeOK', Present, Leased, [Next]_vars
  PROVE  Leased'
<1>1. CASE UNCHANGED vars
  BY <1>1 DEF vars, Leased, LeasesLive, Executed, OneExecutor
<1>2. CASE Next
  <2>1. LeasesLive => LeasesLive'
    BY <1>2, NoOverrun, LeasedSessions DEF LeasesLive
  <2> QED BY <1>2, <2>1, NoDisturbance, LeasedExecutor, LeasedSessions
          DEF Leased, OneWorkerPerItem
<1> QED BY <1>1, <1>2

LEMMA Invariants == ASSUME Undisturbed
                    PROVE  Spec => [](TypeOK /\ Present /\ Leased)
<1>1. Init => TypeOK /\ Present /\ Leased
  BY TypeInit, PresentInit, LeasedInit
<1>2. TypeOK /\ Present /\ Leased /\ [Next]_vars => (TypeOK /\ Present /\ Leased)'
  BY TypeNext, PresentNext, LeasedNext
<1> QED BY <1>1, <1>2, PTL DEF Spec

(* One worker at a time executes an item (repository.py:73-90).            *)
THEOREM OneExecutorHolds == ASSUME Undisturbed PROVE Spec => []OneExecutor
<1>1. Leased => OneExecutor
  BY DEF Leased
<1> QED BY <1>1, Invariants, PTL

-----------------------------------------------------------------------------
(* Only the fail() of a worker that completed the item without being told  *)
(* changes a finished item.                                                *)
TakesBack(w, i) ==
  /\ Commit(w) /\ held[w] = i
  /\ items[i].state = "succeeded" /\ outcome[w] = "retryable"

LEMMA TerminalStep ==
  ASSUME TypeOK, Present, Leased, Next,
         NEW i \in Items, items[i].state \in Terminal
  PROVE  \/ items'[i].state = items[i].state /\ items'[i].result = items[i].result
         \/ \E w \in Workers : TakesBack(w, i)
<1>1. CASE UNCHANGED items
  BY <1>1
<1>2. ASSUME NEW j \in Jobs, CreateJob(j) PROVE items'[i] = items[i]
  BY <1>2 DEF CreateJob, Present, Terminal
<1>3. ASSUME NEW w \in Workers, NEW k \in Items, Claim(w, k) PROVE items'[i] = items[i]
  <2>1. k # i
    BY <1>3 DEF Claim, Claimable, Terminal
  <2> QED BY <1>3, <2>1 DEF Claim, TypeOK
<1>4. ASSUME NEW w \in Workers, Commit(w)
      PROVE  items'[i] = items[i] \/ TakesBack(w, i)
  <2>1. CASE held[w] = i
    BY <1>4, <2>1 DEF Leased, Executed, Terminal, TakesBack
  <2>2. CASE held[w] # i
    BY <1>4, <2>2 DEF Commit, Write, TypeOK
  <2> QED BY <2>1, <2>2
<1>5. ASSUME NEW w \in Workers, AckLost(w) PROVE items'[i] = items[i]
  <2>1. held[w] # i
    BY <1>5, AckLostItem DEF Terminal
  <2> QED BY <1>5, <2>1 DEF AckLost, Write, TypeOK
<1>6. ASSUME NEW k \in Items, ExpireLease(k) \/ BecomeDue(k)
      PROVE  items'[i].state = items[i].state /\ items'[i].result = items[i].result
  BY <1>6, TimeStep
<1> QED BY <1>1, <1>2, <1>3, <1>4, <1>5, <1>6, NoDisturbance
        DEF Next, WorkerStep, vars, tables, workers, Fetch, CancelAbort,
            GetItem, FlushAndGetJob, RefreshJob, CompleteError, Crash, Restart

(* What is finished is never touched again, but by a fail() that follows a *)
(* complete() whose acknowledgement was lost (repository.py:97-124).       *)
THEOREM FinishedForGood == ASSUME Undisturbed PROVE Spec => TerminalIsFinal
<1>1. ASSUME TypeOK, Present, Leased, Next, NEW i \in Items, items[i].state \in Terminal
      PROVE  \/ items'[i].state = items[i].state /\ items'[i].result = items[i].result
             \/ /\ items[i].state = "succeeded"
                /\ \E w \in Workers : /\ held[w] = i /\ outcome[w] = "retryable"
                                      /\ held'[w] = NULL
  <2>1. ASSUME NEW w \in Workers, TakesBack(w, i)
        PROVE  /\ items[i].state = "succeeded" /\ held[w] = i /\ outcome[w] = "retryable"
               /\ held'[w] = NULL
    BY <1>1, <2>1 DEF TakesBack, Commit, Leave, TypeOK
  <2> QED BY <1>1, <2>1, TerminalStep
<1>2. ASSUME TypeOK, Present, Leased, [Next]_vars
      PROVE  [\A i \in Items : items[i].state \in Terminal =>
                \/ /\ items'[i].state = items[i].state
                   /\ items'[i].result = items[i].result
                \/ /\ items[i].state = "succeeded"
                   /\ \E w \in Workers : /\ held[w] = i /\ outcome[w] = "retryable"
                                         /\ held'[w] = NULL]_vars
  BY <1>1, <1>2
<1> QED BY <1>2, Invariants, PTL DEF Spec, TerminalIsFinal

-----------------------------------------------------------------------------
(* The refinement.                                                         *)

StatusOf == [i \in Items |-> Status(i)]

(* The status of an item is a matter of its holders and of its row's state. *)
LEMMA StatusKept ==
  ASSUME NEW i \in Items, items'[i].state = items[i].state,
         \A w \in Workers : held'[w] = i <=> held[w] = i
  PROVE  Status(i)' = Status(i)
BY DEF Status, RowStatus

LEMMA PoolInit == Init => Pool!Init
BY NullAssumption DEF Init, Pool!Init, Status, RowStatus, AbsentItem, NewItem, NullAssumption

LEMMA PoolSubmit ==
  ASSUME TypeOK, Present, NEW j \in Jobs, CreateJob(j)
  PROVE  Pool!Submit \/ UNCHANGED <<StatusOf, held>>
<1> DEFINE S == ItemsOf(j)
<1>0. held' = held /\ \A i \in S, w \in Workers : held[w] # i
  BY DEF CreateJob, workers, Present, ItemsOf
<1>1. \A i \in S : StatusOf[i] = "absent"
  BY <1>0 DEF CreateJob, Present, ItemsOf, StatusOf, Status, RowStatus
<1>2. StatusOf' = [i \in Items |-> IF i \in S THEN "waiting" ELSE StatusOf[i]]
  <2>1. ASSUME NEW i \in S PROVE Status(i)' = "waiting"
    BY <1>0 DEF CreateJob, ItemsOf, Status, RowStatus, NewItem
  <2>2. ASSUME NEW i \in Items \ S PROVE Status(i)' = Status(i)
    BY <1>0 DEF CreateJob, ItemsOf, Status, RowStatus
  <2> QED BY <2>1, <2>2 DEF StatusOf
<1>4. CASE S = {}
  <2>1. StatusOf' = StatusOf
    BY <1>2, <1>4 DEF StatusOf
  <2> QED BY <1>0, <2>1
<1>5. CASE S # {}
  <2>1. S \in SUBSET {i \in Items : StatusOf[i] = "absent"}
    BY <1>1 DEF ItemsOf
  <2> QED BY <1>0, <1>2, <1>5, <2>1 DEF Pool!Submit, StatusOf
<1> QED BY <1>4, <1>5

LEMMA PoolTake ==
  ASSUME TypeOK, Leased, NEW w \in Workers, NEW i \in Items, Claim(w, i)
  PROVE  Pool!Take(w, i)
<1>1. held[w] = NULL /\ NULL \notin Items
  BY NullAssumption DEF Claim, TypeOK, NullAssumption
<1>2. /\ \A v \in Workers : held[v] # i
      /\ StatusOf[i] \in {"waiting", "taken"}
  BY ClaimFree DEF Claim, Claimable, StatusOf, Status, RowStatus
<1>3. \A k \in Items : k # i => items'[k] = items[k]
  BY DEF Claim, TypeOK
<1>4. held' = [held EXCEPT ![w] = i] /\ held'[w] = i
  BY DEF Claim, TypeOK
<1>5. StatusOf' = [StatusOf EXCEPT ![i] = "taken"]
  <2>1. Status(i)' = "taken"
    BY <1>4 DEF Status
  <2>2. ASSUME NEW k \in Items, k # i PROVE Status(k)' = Status(k)
    <3>1. \A v \in Workers : held'[v] = k <=> held[v] = k
      BY <1>1, <1>4, <2>2
    <3> QED BY <1>3, <2>2, <3>1, StatusKept
  <2> QED BY <2>1, <2>2 DEF StatusOf
<1> QED BY <1>1, <1>2, <1>4, <1>5 DEF Pool!Take, StatusOf

(* A worker that leaves an item leaves it to its row, and the others as    *)
(* they are.                                                               *)
LEMMA PoolLeave ==
  ASSUME TypeOK, Leased, NEW w \in Workers, held[w] \in Items, \E l : Leave(w, l),
         \A k \in Items : k # held[w] => items'[k] = items[k]
  PROVE  /\ held' = [held EXCEPT ![w] = NULL]
         /\ StatusOf' = [StatusOf EXCEPT ![held[w]] =
                            RowStatus(items'[held[w]])]
<1>0. PICK i \in Items : i = held[w]
  OBVIOUS
<1>1. /\ held' = [held EXCEPT ![w] = NULL] /\ held'[w] = NULL /\ NULL \notin Items
      /\ \A v \in Workers : v # w => held'[v] = held[v]
  BY NullAssumption DEF Leave, TypeOK, NullAssumption
<1>2. ASSUME NEW v \in Workers PROVE held'[v] # i
  <2>1. v # w => held[v] # i
    BY <1>0, <1>1 DEF Leased, OneExecutor
  <2> QED BY <1>0, <1>1, <2>1
<1>3. Status(i)' = RowStatus(items'[i])
  BY <1>2 DEF Status
<1>4. ASSUME NEW k \in Items, k # i PROVE Status(k)' = Status(k)
  <2>1. ASSUME NEW v \in Workers PROVE held'[v] = k <=> held[v] = k
    BY <1>0, <1>1, <1>4
  <2>2. items'[k] = items[k]
    BY <1>0, <1>4
  <2> QED BY <1>4, <2>1, <2>2, StatusKept
<1> QED BY <1>0, <1>1, <1>3, <1>4 DEF StatusOf

LEMMA PoolReturn ==
  ASSUME TypeOK, Leased, NEW w \in Workers, Commit(w)
  PROVE  \E s \in {"waiting", "done"} : Pool!Return(w, s)
<1> DEFINE i == held[w]
           new == Assigned(loaded[w], outcome[w])
<1>1. i \in Items /\ loaded[w] \in ItemRow /\ outcome[w] \in Outcomes /\ Write(w)
  BY DEF Commit, Write, TypeOK
<1>2. loaded[w].state = items[i].state
  BY <1>1 DEF Leased
<1>3. new.state \in {"queued", "succeeded", "failed"}
  BY <1>1 DEF Assigned, Completed, Failed, ItemRow
<1>4. /\ items'[i].state = new.state
      /\ \A k \in Items : k # i => items'[k] = items[k]
  BY <1>1, <1>2, <1>3 DEF Write, FlushItem, TypeOK
<1>5. \E l : Leave(w, l)
  BY DEF Commit
<1>6. PICK s \in {"waiting", "done"} : StatusOf' = [StatusOf EXCEPT ![i] = s]
  BY <1>1, <1>3, <1>4, <1>5, PoolLeave DEF RowStatus
<1>7. i # NULL /\ held' = [held EXCEPT ![w] = NULL]
  BY <1>1, NullAssumption DEF Commit, Leave, NullAssumption
<1> QED BY <1>6, <1>7 DEF Pool!Return, StatusOf

LEMMA PoolCrash ==
  ASSUME TypeOK, Leased, NEW w \in Workers, Crash(w)
  PROVE  \/ Pool!Disappear(w) \/ Pool!Return(w, "done")
         \/ UNCHANGED <<StatusOf, held>>
<1>1. items' = items /\ (\E l : Leave(w, l)) /\ held' = [held EXCEPT ![w] = NULL]
  BY DEF Crash, Leave, tables
<1>2. CASE held[w] = NULL
  <2>1. held' = held
    BY <1>1, <1>2 DEF TypeOK
  <2>2. StatusOf' = StatusOf
    BY <1>1, <2>1 DEF StatusOf, Status, RowStatus
  <2> QED BY <2>1, <2>2
<1>3. CASE held[w] # NULL
  <2> DEFINE i == held[w]
  <2>1. i \in Items /\ items[i].state \in {"running", "succeeded"} /\ StatusOf[i] = "taken"
    BY <1>3 DEF TypeOK, Leased, Executed, StatusOf, Status, RowStatus
  <2>2. CASE items[i].state = "running"
    <3>1. StatusOf' = [StatusOf EXCEPT ![i] = "taken"]
      BY <1>1, <2>1, <2>2, PoolLeave DEF RowStatus
    <3>2. StatusOf' = StatusOf
      BY <2>1, <3>1 DEF StatusOf
    <3> QED BY <1>1, <1>3, <3>2 DEF Pool!Disappear, StatusOf
  <2>3. CASE items[i].state = "succeeded"
    <3>1. StatusOf' = [StatusOf EXCEPT ![i] = "done"]
      BY <1>1, <2>1, <2>3, PoolLeave DEF RowStatus
    <3> QED BY <1>1, <1>3, <3>1 DEF Pool!Return, StatusOf
  <2> QED BY <2>1, <2>2, <2>3
<1> QED BY <1>2, <1>3

(* A completion whose acknowledgement is lost gives nothing back yet.      *)
LEMMA PoolAckLost ==
  ASSUME TypeOK, Leased, NEW w \in Workers, AckLost(w)
  PROVE  UNCHANGED <<StatusOf, held>>
<1>1. held' = held /\ held[w] \in Items
  BY DEF AckLost, Report, Write, TypeOK
<1>2. \A k \in Items : k # held[w] => items'[k] = items[k]
  BY <1>1 DEF AckLost, Write, TypeOK
<1>3. ASSUME NEW k \in Items PROVE Status(k)' = Status(k)
  <2>1. CASE k = held[w]
    BY <1>1, <2>1 DEF Status
  <2>2. CASE k # held[w]
    BY <1>1, <1>2, <2>2, StatusKept
  <2> QED BY <2>1, <2>2
<1> QED BY <1>1, <1>3 DEF StatusOf

LEMMA PoolStep ==
  ASSUME TypeOK, Present, Leased, [Next]_vars
  PROVE  Pool!Next \/ UNCHANGED <<StatusOf, held>>
<1>1. CASE UNCHANGED <<items, held>>
  <2>1. items' = items /\ held' = held
    BY <1>1
  <2> QED BY <2>1 DEF StatusOf, Status, RowStatus
<1>2. ASSUME NEW i \in Items, ExpireLease(i) \/ BecomeDue(i)
      PROVE  UNCHANGED <<StatusOf, held>>
  <2>1. \A k \in Items : items'[k].state = items[k].state
    BY <1>2, TimeStep
  <2>2. UNCHANGED held
    BY <1>2 DEF ExpireLease, BecomeDue, workers
  <2>3. \A k \in Items : Status(k)' = Status(k)
    BY <2>1, <2>2, StatusKept
  <2> QED BY <2>2, <2>3 DEF StatusOf
<1>3. ~CancelCommit
  BY DEF CancelCommit, Leased
<1>4. ASSUME \/ \E j \in Jobs : CancelLoad(j)
             \/ CancelAbort
             \/ \E w \in Workers : \/ Fetch(w) \/ GetItem(w) \/ FlushAndGetJob(w)
                                   \/ RefreshJob(w) \/ CompleteError(w) \/ Restart(w)
             \/ UNCHANGED vars
      PROVE  UNCHANGED <<items, held>>
  BY <1>4 DEF vars, tables, workers, CancelLoad, CancelAbort, Fetch, GetItem,
              FlushAndGetJob, RefreshJob, CompleteError, Report, Restart
<1>5. ASSUME NEW w \in Workers, Crash(w) PROVE Pool!Next \/ UNCHANGED <<StatusOf, held>>
  BY <1>5, PoolCrash DEF Pool!Next
<1>6. ASSUME NEW w \in Workers, Commit(w) PROVE Pool!Next
  BY <1>6, PoolReturn DEF Pool!Next
<1>7. ASSUME NEW w \in Workers, NEW i \in Items, Claim(w, i) PROVE Pool!Next
  BY <1>7, PoolTake DEF Pool!Next
<1>8. ASSUME NEW j \in Jobs, CreateJob(j) PROVE Pool!Next \/ UNCHANGED <<StatusOf, held>>
  BY <1>8, PoolSubmit DEF Pool!Next
<1> QED BY <1>1, <1>2, <1>3, <1>4, <1>5, <1>6, <1>7, <1>8, PoolAckLost
        DEF Next, WorkerStep

(* The queue implements the pool of tasks.                                 *)
THEOREM QueueIsPool == ASSUME Undisturbed PROVE Spec => PoolSpec
<1>1. ASSUME TypeOK, Present, Leased, [Next]_vars
      PROVE  [Pool!Next]_<<StatusOf, held>>
  BY <1>1, PoolStep
<1> QED BY <1>1, PoolInit, Invariants, PTL DEF Spec, PoolSpec, Pool!Spec, StatusOf
=============================================================================
