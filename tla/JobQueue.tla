------------------------------ MODULE JobQueue ------------------------------
(***************************************************************************)
(* The durable job queue: JobRepository (persistence/repository.py) over   *)
(* the tables of persistence/models.py, driven by the worker loop of       *)
(* worker.py and by the job routes of api/routes.py.                       *)
(*                                                                         *)
(* PostgreSQL runs at READ COMMITTED.  A repository call is a transaction; *)
(* its statements are separate steps here, because other transactions      *)
(* commit between them.  SQLAlchemy writes back only the columns whose     *)
(* value differs from the one the session loaded, and an UPDATE holds the  *)
(* lock of its row until the commit.                                       *)
(*                                                                         *)
(* Time is abstracted to what the claim query tells apart: a lease is      *)
(* "live" or "expired", a next_run_at is "due" or "later".                 *)
(***************************************************************************)
EXTENDS Integers, FiniteSets

CONSTANTS Jobs,         \* ids of the jobs clients create
          Items,        \* ids of the job items
          Workers,      \* worker processes
          JobOf,        \* the job of an item
          QueueOf,      \* JobItem.queue: "http" or "browser"
          WorkerQueue,  \* WEBFETCH_WORKER_QUEUE of a worker
          MaxAttempts,  \* max_attempts of JobRepository.fail (3 in the code)
          Budget,       \* bound on each kind of disturbance a behaviour has
          NULL

Queues == {"http", "browser"}

(* The disturbances, each bounded by Budget: a worker process dies or is   *)
(* stopped, complete() raises and its transaction rolls back, complete()   *)
(* raises although its COMMIT took effect, a worker overruns its lease, a  *)
(* client calls the cancel route.                                          *)
Disturbances == {"crash", "error", "lost", "overrun", "cancel"}

ItemStates == {"absent", "queued", "running", "succeeded", "failed", "cancelled"}
JobStates  == ItemStates
Terminal   == {"succeeded", "failed", "cancelled"}

(* How executing a payload ends: a response with success true or false     *)
(* (both go to complete), an error worth a retry, or a final error.        *)
Returned == {"ok", "bad"}
Raised   == {"retryable", "fatal"}
Outcomes == Returned \cup Raised

ASSUME ConstantsAssumption ==
  /\ IsFiniteSet(Items)
  /\ JobOf \in [Items -> Jobs]
  /\ QueueOf \in [Items -> Queues]
  /\ WorkerQueue \in [Workers -> Queues]
  /\ MaxAttempts \in Nat \ {0}
  /\ Budget \in [Disturbances -> Nat]

VARIABLES
  items,    \* table job_items, the committed rows
  jobs,     \* table jobs, the committed rows
  pc,       \* where a worker is in its loop and in its transaction
  held,     \* the item a worker executes
  outcome,  \* how the worker's execution of that item ended
  loaded,   \* the item row the worker's session loaded
  seen,     \* the job row the worker's session loaded
  summary,  \* the job row the worker's session is about to write
  cancel,   \* the cancel transaction in flight
  budget    \* what is left of Budget

tables  == <<items, jobs>>
workers == <<pc, held, outcome, loaded, seen, summary>>
vars    == <<items, jobs, pc, held, outcome, loaded, seen, summary, cancel, budget>>

ItemsOf(j) == {i \in Items : JobOf[i] = j}

-----------------------------------------------------------------------------
(* Rows.                                                                   *)

ItemRow == [state        : ItemStates,
            attempts     : Nat,
            leased_until : {NULL, "live", "expired"},
            next_run_at  : {"due", "later"},
            result       : {NULL} \cup Returned,
            error_code   : {NULL} \cup Raised]

JobRow == [state : JobStates, succeeded_count : Nat, failed_count : Nat]

ASSUME NullAssumption ==
  /\ NULL \notin Items \cup Outcomes \cup {"live", "expired"}
  /\ NULL \notin ItemRow \cup JobRow

NewItem == [state |-> "queued", attempts |-> 0, leased_until |-> NULL,
            next_run_at |-> "due", result |-> NULL, error_code |-> NULL]

NewJob == [state |-> "queued", succeeded_count |-> 0, failed_count |-> 0]

AbsentItem == [NewItem EXCEPT !.state = "absent"]
AbsentJob  == [NewJob EXCEPT !.state = "absent"]

(* The flush of a session: of the columns it assigned, those that differ   *)
(* from what it loaded reach the row, whatever the row holds by now.  A    *)
(* re-queue always assigns a next_run_at of its own.                       *)
FlushItem(row, old, new) ==
  [state        |-> IF new.state # old.state THEN new.state ELSE row.state,
   attempts     |-> row.attempts,
   leased_until |-> IF new.leased_until # old.leased_until
                    THEN new.leased_until ELSE row.leased_until,
   next_run_at  |-> IF new.state = "queued"
                    THEN new.next_run_at ELSE row.next_run_at,
   result       |-> IF new.result # old.result THEN new.result ELSE row.result,
   error_code   |-> IF new.error_code # old.error_code
                    THEN new.error_code ELSE row.error_code]

FlushJob(row, old, new) ==
  [state           |-> IF new.state # old.state THEN new.state ELSE row.state,
   succeeded_count |-> IF new.succeeded_count # old.succeeded_count
                       THEN new.succeeded_count ELSE row.succeeded_count,
   failed_count    |-> IF new.failed_count # old.failed_count
                       THEN new.failed_count ELSE row.failed_count]

-----------------------------------------------------------------------------
(* What complete() and fail() assign to the item they loaded.              *)

Completed(row, out) ==
  [row EXCEPT !.state = "succeeded", !.result = out, !.leased_until = NULL]

(* Mutation: max_attempts compared with <=. *)
RetriesOnce(row, out) == out = "retryable" /\ row.attempts <= MaxAttempts

Retries(row, out) == out = "retryable" /\ row.attempts < MaxAttempts

Failed(row, out) ==
  IF Retries(row, out)
  THEN [row EXCEPT !.error_code = out, !.leased_until = NULL,
                   !.state = "queued", !.next_run_at = "later"]
  ELSE [row EXCEPT !.error_code = out, !.leased_until = NULL, !.state = "failed"]

Assigned(row, out) ==
  IF out \in Returned THEN Completed(row, out) ELSE Failed(row, out)

(* Mutation: finished is taken to mean succeeded. *)
RefreshedIfSucceeded(row, is, view) ==
  LET Count(s) == Cardinality({i \in is : view[i] = s})
  IN  [succeeded_count |-> Count("succeeded"), failed_count |-> Count("failed"),
       state |-> IF \A i \in is : view[i] = "succeeded" THEN "succeeded" ELSE row.state]

(* Mutation: finished is taken to mean that nothing runs. *)
RefreshedIfIdle(row, is, view) ==
  LET Count(s) == Cardinality({i \in is : view[i] = s})
  IN  [succeeded_count |-> Count("succeeded"), failed_count |-> Count("failed"),
       state |-> IF \E i \in is : view[i] = "running" THEN "running"
                 ELSE IF Count("failed") > 0 THEN "failed" ELSE "succeeded"]

(* _refresh_job: the job row as computed from the item states the session  *)
(* sees; a mix of queued and terminal items leaves the state alone.        *)
Refreshed(row, is, view) ==
  LET Count(s) == Cardinality({i \in is : view[i] = s})
  IN  [succeeded_count |-> Count("succeeded"),
       failed_count    |-> Count("failed"),
       state |-> IF \A i \in is : view[i] \in Terminal
                 THEN IF Count("failed") > 0 THEN "failed" ELSE "succeeded"
                 ELSE IF \E i \in is : view[i] = "running" THEN "running"
                 ELSE row.state]

(* Mutation: the session is not flushed before its query. *)
ViewUnflushed(w) == [i \in Items |-> items[i].state]

(* The identity map: the session's own item keeps the value it assigned,   *)
(* the others are as committed.                                            *)
View(w) == [i \in Items |-> IF i = held[w]
                            THEN Assigned(loaded[w], outcome[w]).state
                            ELSE items[i].state]

(* fail() on an item that is already failed with the same error changes no *)
(* column, so no UPDATE is issued; complete() always has a new request_id  *)
(* and a re-queue a new next_run_at.                                       *)
Updates(w) == \/ outcome[w] \in Returned
              \/ Retries(loaded[w], outcome[w])
              \/ Assigned(loaded[w], outcome[w]) # loaded[w]

(* Mutation: the row lock does not last until the commit. *)
RowLockedBriefly(i) == \E w \in Workers : /\ held[w] = i
                                          /\ pc[w] = "refresh"
                                          /\ Updates(w)

RowLocked(i) == \E w \in Workers : /\ held[w] = i
                                   /\ pc[w] \in {"refresh", "commit"}
                                   /\ Updates(w)

-----------------------------------------------------------------------------
Init ==
  /\ items   = [i \in Items |-> AbsentItem]
  /\ jobs    = [j \in Jobs |-> AbsentJob]
  /\ pc      = [w \in Workers |-> "idle"]
  /\ held    = [w \in Workers |-> NULL]
  /\ outcome = [w \in Workers |-> NULL]
  /\ loaded  = [w \in Workers |-> NULL]
  /\ seen    = [w \in Workers |-> NULL]
  /\ summary = [w \in Workers |-> NULL]
  /\ cancel  = NULL
  /\ budget  = Budget

Spend(d) == budget[d] > 0 /\ budget' = [budget EXCEPT ![d] = @ - 1]

(* POST /v1/jobs: one transaction inserts the job and all its items.       *)
CreateJob(j) ==
  /\ jobs[j].state = "absent"
  /\ jobs'  = [jobs EXCEPT ![j] = NewJob]
  /\ items' = [i \in Items |-> IF JobOf[i] = j THEN NewItem ELSE items[i]]
  /\ UNCHANGED <<workers, cancel, budget>>

-----------------------------------------------------------------------------
(* Mutation: the lease is not looked at. *)
ClaimableUnleased(row) ==
  row.next_run_at = "due" /\ row.state \in {"queued", "running"}

(* Mutation: crashed items are not looked for. *)
ClaimableQueued(row) == row.next_run_at = "due" /\ row.state = "queued"

(* Mutation: any item without a live lease. *)
ClaimableByLease(row) ==
  /\ row.next_run_at = "due"
  /\ row.state # "absent"
  /\ row.leased_until # "live"

(* claim(): SELECT ... FOR UPDATE SKIP LOCKED of one due item that is      *)
(* queued, or running under an expired lease.                              *)
Claimable(row) ==
  /\ row.next_run_at = "due"
  /\ \/ row.state = "queued"
     \/ row.state = "running" /\ row.leased_until = "expired"

(* Mutation: a reclaim is not counted. *)
ClaimedFirst(row) == [row EXCEPT !.state = "running", !.leased_until = "live",
                                 !.attempts = IF row.state = "queued" THEN @ + 1 ELSE @]

(* Mutation: a claim wipes the previous error. *)
ClaimedAfresh(row) == [row EXCEPT !.state = "running", !.leased_until = "live",
                                  !.attempts = @ + 1, !.error_code = NULL]

Claimed(row) == [row EXCEPT !.state = "running", !.leased_until = "live",
                            !.attempts = @ + 1]

Claim(w, i) ==
  /\ pc[w] = "idle"
  /\ QueueOf[i] = WorkerQueue[w]
  /\ Claimable(items[i])
  /\ ~RowLocked(i)
  /\ items' = [items EXCEPT ![i] = Claimed(@)]
  /\ jobs'  = [jobs EXCEPT ![JobOf[i]].state = "running"]
  /\ pc'    = [pc EXCEPT ![w] = "fetch"]
  /\ held'  = [held EXCEPT ![w] = i]
  /\ UNCHANGED <<outcome, loaded, seen, summary, cancel, budget>>

(* FetchService.fetch returns a response or raises.                        *)
Fetch(w) ==
  /\ pc[w] = "fetch"
  /\ \E out \in Outcomes : outcome' = [outcome EXCEPT ![w] = out]
  /\ pc' = [pc EXCEPT ![w] = "get"]
  /\ UNCHANGED <<tables, held, loaded, seen, summary, cancel, budget>>

(* complete() and fail(), statement by statement: session.get(JobItem) ... *)
GetItem(w) ==
  /\ pc[w] = "get"
  /\ loaded' = [loaded EXCEPT ![w] = items[held[w]]]
  /\ pc'     = [pc EXCEPT ![w] = "flush"]
  /\ UNCHANGED <<tables, held, outcome, seen, summary, cancel, budget>>

(* ... the autoflush of _refresh_job's query, which waits for the row lock *)
(* and takes it, then SELECT of the job ...                                *)
FlushAndGetJob(w) ==
  /\ pc[w] = "flush"
  /\ Updates(w) => ~RowLocked(held[w])
  /\ seen' = [seen EXCEPT ![w] = jobs[JobOf[held[w]]]]
  /\ pc'   = [pc EXCEPT ![w] = "refresh"]
  /\ UNCHANGED <<tables, held, outcome, loaded, summary, cancel, budget>>

(* ... selectinload of the job's items and the new summary ...             *)
RefreshJob(w) ==
  /\ pc[w] = "refresh"
  /\ summary' = [summary EXCEPT ![w] =
                   Refreshed(seen[w], ItemsOf(JobOf[held[w]]), View(w))]
  /\ pc' = [pc EXCEPT ![w] = "commit"]
  /\ UNCHANGED <<tables, held, outcome, loaded, seen, cancel, budget>>

(* The worker's session is closed and the worker is at location l.         *)
Leave(w, l) ==
  /\ pc'      = [pc EXCEPT ![w] = l]
  /\ held'    = [held EXCEPT ![w] = NULL]
  /\ outcome' = [outcome EXCEPT ![w] = NULL]
  /\ loaded'  = [loaded EXCEPT ![w] = NULL]
  /\ seen'    = [seen EXCEPT ![w] = NULL]
  /\ summary' = [summary EXCEPT ![w] = NULL]

(* ... and UPDATE of the job and COMMIT, which takes effect.               *)
Write(w) ==
  LET i == held[w]
      j == JobOf[i]
  IN  /\ pc[w] = "commit"
      /\ items' = [items EXCEPT ![i] =
                     FlushItem(@, loaded[w], Assigned(loaded[w], outcome[w]))]
      /\ jobs'  = [jobs EXCEPT ![j] = FlushJob(@, seen[w], summary[w])]

Commit(w) ==
  /\ Write(w)
  /\ Leave(w, "idle")
  /\ UNCHANGED <<cancel, budget>>

(* complete() raised: its session is closed, and the worker reports a      *)
(* retryable INTERNAL_ERROR on the item through fail().                    *)
Report(w) ==
  /\ outcome[w] \in Returned
  /\ pc'      = [pc EXCEPT ![w] = "get"]
  /\ outcome' = [outcome EXCEPT ![w] = "retryable"]
  /\ loaded'  = [loaded EXCEPT ![w] = NULL]
  /\ seen'    = [seen EXCEPT ![w] = NULL]
  /\ summary' = [summary EXCEPT ![w] = NULL]
  /\ UNCHANGED held

(* Mutation: the session is not closed. *)
CompleteErrorUnclosed(w) ==
  /\ pc[w] \in {"get", "flush", "refresh", "commit"}
  /\ outcome[w] \in Returned
  /\ Spend("error")
  /\ pc'      = [pc EXCEPT ![w] = "get"]
  /\ outcome' = [outcome EXCEPT ![w] = "retryable"]
  /\ UNCHANGED <<tables, held, loaded, seen, summary, cancel>>

(* A statement of complete() or its COMMIT fails (a deadlock victim, a     *)
(* lost connection) and the transaction rolls back.                        *)
CompleteError(w) ==
  /\ pc[w] \in {"get", "flush", "refresh", "commit"}
  /\ Report(w)
  /\ Spend("error")
  /\ UNCHANGED <<tables, cancel>>

(* The connection is lost after the COMMIT of complete() took effect and   *)
(* before its acknowledgement arrives.  (After that of claim() or fail()   *)
(* nothing catches the exception and the process ends: the step, then      *)
(* Crash.)                                                                 *)
AckLost(w) ==
  /\ Write(w)
  /\ Report(w)
  /\ Spend("lost")
  /\ UNCHANGED cancel

(* The process dies anywhere, an exception leaves claim() or fail(), or    *)
(* SIGTERM stops it between two items; an open transaction rolls back.     *)
Crash(w) ==
  /\ pc[w] # "down"
  /\ Spend("crash")
  /\ Leave(w, "down")
  /\ UNCHANGED <<tables, cancel>>

(* systemd (Restart=on-failure) or the operator starts the worker again.   *)
Restart(w) ==
  /\ pc[w] = "down"
  /\ pc' = [pc EXCEPT ![w] = "idle"]
  /\ UNCHANGED <<tables, held, outcome, loaded, seen, summary, cancel, budget>>

-----------------------------------------------------------------------------
(* cancel(): SELECT of the job and its items, then, in a later statement,  *)
(* UPDATE of the items that were queued, and of the job when every item is *)
(* terminal by then in the session.                                        *)
CancelLoad(j) ==
  /\ cancel = NULL
  /\ jobs[j].state # "absent"
  /\ Spend("cancel")
  /\ LET queued == {i \in ItemsOf(j) : items[i].state = "queued"}
     IN  cancel' = [job    |-> j,
                    items  |-> queued,
                    closes |-> /\ jobs[j].state # "cancelled"
                               /\ \A i \in ItemsOf(j) \ queued :
                                    items[i].state \in Terminal]
  /\ UNCHANGED <<tables, workers>>

CancelCommit ==
  /\ cancel # NULL
  /\ \A i \in cancel.items : ~RowLocked(i)
  /\ items' = [i \in Items |-> IF i \in cancel.items
                               THEN [items[i] EXCEPT !.state = "cancelled"]
                               ELSE items[i]]
  /\ jobs'  = [jobs EXCEPT ![cancel.job].state = IF cancel.closes THEN "cancelled" ELSE @]
  /\ cancel' = NULL
  /\ UNCHANGED <<workers, budget>>

(* The transaction of cancel() rolls back; the client gets an error.       *)
CancelAbort ==
  /\ cancel # NULL
  /\ cancel' = NULL
  /\ UNCHANGED <<tables, workers, budget>>

-----------------------------------------------------------------------------
(* Time.  A lease runs out; while a worker is still executing the item     *)
(* that is an overrun, for nothing renews a lease.                         *)
ExpireLease(i) ==
  /\ items[i].leased_until = "live"
  /\ items' = [items EXCEPT ![i].leased_until = "expired"]
  /\ IF \E w \in Workers : held[w] = i THEN Spend("overrun") ELSE UNCHANGED budget
  /\ UNCHANGED <<jobs, workers, cancel>>

BecomeDue(i) ==
  /\ items[i].next_run_at = "later"
  /\ items' = [items EXCEPT ![i].next_run_at = "due"]
  /\ UNCHANGED <<jobs, workers, cancel, budget>>

-----------------------------------------------------------------------------
WorkerStep(w) ==
  \/ \E i \in Items : Claim(w, i)
  \/ Fetch(w)
  \/ GetItem(w)
  \/ FlushAndGetJob(w)
  \/ RefreshJob(w)
  \/ Commit(w)
  \/ Restart(w)

Next ==
  \/ \E j \in Jobs : CreateJob(j) \/ CancelLoad(j)
  \/ \E w \in Workers : WorkerStep(w) \/ CompleteError(w) \/ AckLost(w) \/ Crash(w)
  \/ CancelCommit
  \/ CancelAbort
  \/ \E i \in Items : ExpireLease(i) \/ BecomeDue(i)

Spec == Init /\ [][Next]_vars

(* Workers loop for ever, the database answers, systemd restarts a worker  *)
(* that ended, and time passes.  A fetch owes nothing: no deadline bounds  *)
(* it (http.py:115 passes timeout=None by default, worker.py:46 sets none).*)
(* Clients, crashes and errors owe nothing either.                         *)
Fairness == /\ \A w \in Workers : WF_vars(pc[w] # "fetch" /\ WorkerStep(w))
            /\ \A i \in Items : WF_vars(ExpireLease(i)) /\ WF_vars(BecomeDue(i))

FairSpec == Spec /\ Fairness

-----------------------------------------------------------------------------
PCs == {"idle", "fetch", "get", "flush", "refresh", "commit", "down"}

(* Every variable has its type, and a worker's session holds exactly what  *)
(* its location says it has loaded (worker.py:35-51, repository.py:97-134).*)
TypeOK ==
  /\ items \in [Items -> ItemRow]
  /\ jobs \in [Jobs -> JobRow]
  /\ pc \in [Workers -> PCs]
  /\ held \in [Workers -> Items \cup {NULL}]
  /\ outcome \in [Workers -> Outcomes \cup {NULL}]
  /\ loaded \in [Workers -> ItemRow \cup {NULL}]
  /\ seen \in [Workers -> JobRow \cup {NULL}]
  /\ summary \in [Workers -> JobRow \cup {NULL}]
  /\ cancel \in [job : Jobs, items : SUBSET Items, closes : BOOLEAN] \cup {NULL}
  /\ budget \in [Disturbances -> Nat]
  /\ \A w \in Workers :
       /\ held[w] \in Items <=> pc[w] \notin {"idle", "down"}
       /\ outcome[w] \in Outcomes <=> pc[w] \in {"get", "flush", "refresh", "commit"}
       /\ loaded[w] \in ItemRow <=> pc[w] \in {"flush", "refresh", "commit"}
       /\ seen[w] \in JobRow <=> pc[w] \in {"refresh", "commit"}
       /\ summary[w] \in JobRow <=> pc[w] = "commit"

(* A succeeded item has a result and a failed one an error code, although  *)
(* each transaction writes only the columns it found changed and late      *)
(* transactions overwrite one another (repository.py:102-105, 114-122).    *)
EndBacked ==
  \A i \in Items : /\ items[i].state = "succeeded" => items[i].result # NULL
                   /\ items[i].state = "failed" => items[i].error_code # NULL

(* attempts counts claims: no execution of an item is missing from it,     *)
(* even when a crash or a late writer intervenes (repository.py:90).       *)
HoldersCounted ==
  \A i \in Items : Cardinality({w \in Workers : held[w] = i}) <= items[i].attempts

(* Beyond the claims max_attempts allows, each needs a crash or an overrun *)
(* of its own: fail() compares an attempts it read before                  *)
(* (repository.py:117), and claim() never compares it.                     *)
AttemptsBounded ==
  \A i \in Items :
    items[i].attempts <= MaxAttempts + (Budget["crash"] - budget["crash"])
                                     + (Budget["overrun"] - budget["overrun"])

(* At most one worker executes an item at a time (SKIP LOCKED and the      *)
(* lease, repository.py:78, 82).                                           *)
OneExecutor ==
  \A v, w \in Workers : v # w /\ held[v] = held[w] => held[v] = NULL

(* A finished item stays as it is, but for one case: where complete() took *)
(* effect and its acknowledgement was lost, the worker still has the item  *)
(* and reports an error through fail(), which looks neither at the state   *)
(* nor at the worker of the row (worker.py:46-51, repository.py:109-122).  *)
(* No other worker and no second attempt ever touches what is finished.    *)
TerminalIsFinal ==
  [][\A i \in Items : items[i].state \in Terminal =>
       \/ /\ items'[i].state = items[i].state
          /\ items'[i].result = items[i].result
       \/ /\ items[i].state = "succeeded"
          /\ \E w \in Workers : /\ held[w] = i /\ outcome[w] = "retryable"
                                /\ held'[w] = NULL]_vars

(* A success, once recorded, is not taken back: processing an item again   *)
(* is idempotent (FR-JOB-004, docs/webfetch-service-srs.md:170).           *)
SuccessIsFinal ==
  [][\A i \in Items : items[i].state = "succeeded" =>
        items'[i].state = "succeeded"]_vars

Ended(j, s) == Cardinality({i \in ItemsOf(j) : items[i].state = s})

AllEnded(j) == \A i \in ItemsOf(j) : items[i].state \in Terminal

(* When all its items are finished and no worker is at work on any of      *)
(* them, the job row says so: state and both counts (repository.py:126-134,*)
(* tests/test_repository.py:29-32).                                        *)
SummaryRight ==
  \A j \in Jobs :
    /\ jobs[j].state # "absent"
    /\ AllEnded(j)
    /\ \A w \in Workers : held[w] \notin ItemsOf(j)
    => /\ jobs[j].succeeded_count = Ended(j, "succeeded")
       /\ jobs[j].failed_count = Ended(j, "failed")
       /\ jobs[j].state = IF Ended(j, "failed") > 0 THEN "failed" ELSE "succeeded"

(* An item whose success was recorded and then taken back.                 *)
TakenBack(i) == items[i].result # NULL /\ items[i].state # "succeeded"

(* A job is never reported better than it is: its counts are those of      *)
(* items that did end that way, and it is only reported finished when it   *)
(* is, and succeeded when nothing failed.  A job is exempt while a success *)
(* of one of its items is taken back, for fail() re-queues the item and    *)
(* leaves a finished job finished, and another worker's summary may have   *)
(* counted the success (repository.py:109-134).                            *)
SummarySound ==
  \A j \in Jobs : (\A i \in ItemsOf(j) : ~TakenBack(i)) =>
    /\ jobs[j].succeeded_count <= Ended(j, "succeeded")
    /\ jobs[j].failed_count <= Ended(j, "failed")
    /\ jobs[j].state = "succeeded" => \A i \in ItemsOf(j) : items[i].state = "succeeded"
    /\ jobs[j].state = "failed" => AllEnded(j) /\ Ended(j, "failed") > 0

(* Every worker that serves the queue is inside a fetch.                   *)
Hung(q) == \A w \in Workers : WorkerQueue[w] = q => pc[w] = "fetch"

(* Every item ends for good: crashes, lost connections, expired leases and *)
(* retries only delay it (FR-JOB-004, FR-JOB-005).  Nothing else can stop  *)
(* an item than fetches that never return, in every worker of its queue.   *)
(* Stated for one worker process per queue: with three, an item can stay   *)
(* running under a NULL lease.                                             *)
ItemsEnd ==
  \A i \in Items :
    \/ items[i].state = "queued" ~> [](items[i].state \in Terminal)
    \/ <>[]Hung(QueueOf[i])

(* Every job is eventually reported finished for good, unless the workers  *)
(* of a queue it needs hang.                                               *)
JobsEnd ==
  \A j \in Jobs :
    \/ jobs[j].state = "queued" ~> [](jobs[j].state \in Terminal)
    \/ \E i \in ItemsOf(j) : <>[]Hung(QueueOf[i])

(* A cancelled item that no worker holds is out of the queue for good.     *)
CancelledIsOut ==
  [][\A i \in Items :
        items[i].state = "cancelled" /\ (\A w \in Workers : held[w] # i) =>
          items'[i].state = "cancelled"]_vars

(* While no worker overruns its lease and no client cancels, the queue is  *)
(* a pool of tasks: one worker per item, crashed workers' items picked up  *)
(* again, finished items never touched.  An item is taken as long as a     *)
(* worker is at work on it, whatever its row says: a completion whose      *)
(* acknowledgement is lost has not given it back.                          *)
RowStatus(row) == CASE row.state = "absent"  -> "absent"
                    [] row.state = "queued"  -> "waiting"
                    [] row.state = "running" -> "taken"
                    [] OTHER                 -> "done"

Status(i) == IF \E w \in Workers : held[w] = i THEN "taken" ELSE RowStatus(items[i])

Pool == INSTANCE TaskPool WITH Tasks <- Items, Agents <- Workers, NONE <- NULL,
                               status <- [i \in Items |-> Status(i)],
                               task <- held

PoolSpec == Pool!Spec
=============================================================================
