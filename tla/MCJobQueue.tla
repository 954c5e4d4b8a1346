----------------------------- MODULE MCJobQueue -----------------------------
(* Small instances of JobQueue for TLC.                                    *)
EXTENDS JobQueue, TLC

CONSTANTS j1, i1, i2, w1, w2

Limits(crash, error, lost, overrun, cancels) ==
  [crash |-> crash, error |-> error, lost |-> lost, overrun |-> overrun,
   cancel |-> cancels]

MCJobOf == [i \in Items |-> j1]

(* One worker process, or several that serve one queue.                    *)
AllHttpQueueOf     == [i \in Items |-> "http"]
AllHttpWorkerQueue == [w \in Workers |-> "http"]

(* The deployed pair of workers (deploy/systemd) on a mixed job.           *)
MixedQueueOf     == (i1 :> "http") @@ (i2 :> "browser")
MixedWorkerQueue == (w1 :> "http") @@ (w2 :> "browser")

CrashErrorBudget == Limits(1, 1, 1, 0, 0)
AloneBudget      == Limits(2, 1, 1, 1, 0)
ContendedBudget  == Limits(1, 1, 1, 2, 1)
QuietBudget      == Limits(0, 0, 0, 0, 0)
OverrunBudget    == Limits(0, 0, 0, 1, 0)
=============================================================================
