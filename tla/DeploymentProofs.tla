-------------------------- MODULE DeploymentProofs --------------------------
(***************************************************************************)
(* Theorems about Deployment, for any services, number of deployments,     *)
(* migrations, releases kept, crashes, aborts and reboots.                 *)
(***************************************************************************)
EXTENDS Deployment, TLAPS

USE DeploymentAssumption

-----------------------------------------------------------------------------
(* The inductive invariant.                                                *)

(* A release that is whole and whose migrations the database has.          *)
Ready(b) == dir[b] = "whole" /\ SchemaOf[b] <= schema

Prepared == {"stop", "restart", "check", "rollback"}
Switched == {"restart", "check", "rollback", "list", "cleanup"}
Passed   == {"list", "cleanup"}
Trying   == {"install", "migrate"} \cup Prepared
Serving  == {"idle", "install", "migrate"} \cup Passed

(* What is, was, or can again be current is ready.                         *)
ReadyInv ==
  /\ link \in Builds => Ready(link) /\ link <= build
  /\ usable \in Builds => Ready(usable) /\ usable <= build
  /\ step \in Trying /\ previous \in Builds => Ready(previous) /\ previous < build

(* How far the new release has come.                                       *)
BuildInv ==
  /\ step # "idle" => build \in Builds
  /\ step = "migrate" => dir[build] = "whole"
  /\ step \in Prepared \cup Passed => Ready(build)
  /\ step \in Switched => link = build
  /\ step \in Passed => usable = build /\ ~interrupted

(* Only the clean-up has releases to remove, and none that is needed.      *)
DoomedInv ==
  /\ step # "cleanup" => doomed = {}
  /\ link \notin doomed /\ usable \notin doomed

(* From the switch on nothing of the old release runs, but for what could  *)
(* not be stopped and only until the restart.                              *)
ServesInv ==
  /\ SchemaCovers
  /\ OneRelease
  /\ step \in {"install", "migrate"} => \A s \in Services : stops[s] = "due"
  /\ step \in {"stop", "restart"} => \A s \in Services : stops[s] = "done" => ~wanted[s]
  /\ step = "restart" =>
       \A s \in Services : serves[s] \in {NONE, link} \/ stops[s] = "failed"
  /\ step = "check" => \A s \in Services : serves[s] \in {NONE, link}

(* The last usable release is current, or what the script goes back to.    *)
UsableInv ==
  /\ step \in {"check"} \cup Passed => \A s \in Services : wanted[s]
  /\ ~interrupted /\ usable # NONE =>
       /\ step \in Serving => link = usable /\ \A s \in Services : wanted[s]
       /\ step \in Trying => previous = usable
       /\ step = "recover" => link = usable

IInv == TypeOK /\ ReadyInv /\ BuildInv /\ DoomedInv /\ ServesInv /\ UsableInv

-----------------------------------------------------------------------------
(* Every step of the script, of systemd and of what goes wrong keeps it.   *)

LEMMA BeginStep == ASSUME IInv, Begin PROVE IInv'
<1> USE DEF Begin, ReadLink, IInv, units, histories
<1>1. TypeOK'
  BY DEF TypeOK, Targets, Steps, Builds
<1>2. ReadyInv'
  BY DEF ReadyInv, TypeOK, Ready, Prepared, Builds
<1>3. BuildInv'
  BY DEF BuildInv, TypeOK, Prepared, Passed, Switched, Builds
<1>4. DoomedInv'
  BY DEF DoomedInv
<1>5. ServesInv'
  BY DEF ServesInv, SchemaCovers, OneRelease
<1>6. UsableInv'
  BY DEF UsableInv, TypeOK, Passed, Serving
<1> QED BY <1>1, <1>2, <1>3, <1>4, <1>5, <1>6

LEMMA InstallStep == ASSUME IInv, Install PROVE IInv'
<1> USE DEF Install, Then, IInv, units, histories
<1>1. TypeOK'
  BY DEF TypeOK, Steps
<1>2. ReadyInv'
  BY DEF ReadyInv, Ready, Trying
<1>3. BuildInv'
  BY DEF BuildInv, TypeOK, Prepared, Passed, Switched
<1>4. DoomedInv'
  BY DEF DoomedInv
<1>5. ServesInv'
  BY DEF ServesInv, SchemaCovers, OneRelease
<1>6. UsableInv'
  BY DEF UsableInv, Trying, Passed, Serving
<1> QED BY <1>1, <1>2, <1>3, <1>4, <1>5, <1>6

LEMMA MigrateStep == ASSUME IInv, Migrate PROVE IInv'
<1> USE DEF Migrate, Then, IInv, files, units, histories
<1>1. TypeOK'
  BY DEF TypeOK, BuildInv, Steps, Exposed
<1>2. ReadyInv'
  BY DEF ReadyInv, BuildInv, TypeOK, Ready, Trying
<1>3. BuildInv'
  BY DEF BuildInv, TypeOK, Ready, Passed, Switched
<1>4. DoomedInv'
  BY DEF DoomedInv
<1>5. ServesInv'
  BY DEF ServesInv, SchemaCovers, OneRelease, BuildInv, TypeOK
<1>6. UsableInv'
  BY DEF UsableInv, Trying, Passed, Serving
<1> QED BY <1>1, <1>2, <1>3, <1>4, <1>5, <1>6

LEMMA SwitchStep == ASSUME IInv, Switch PROVE IInv'
<1> USE DEF Switch, Then, AllAsked, IInv, units, histories
<1>1. TypeOK'
  BY DEF TypeOK, BuildInv, Targets, Steps, Exposed
<1>2. ReadyInv'
  BY DEF ReadyInv, BuildInv, TypeOK, Ready, Trying, Prepared
<1>3. BuildInv'
  BY DEF BuildInv, Ready, Prepared, Passed
<1>4. DoomedInv'
  BY DEF DoomedInv
<1>5. ServesInv'
  BY DEF ServesInv, SchemaCovers, OneRelease, TypeOK
<1>6. UsableInv'
  BY DEF UsableInv, Trying, Prepared, Passed, Serving
<1> QED BY <1>1, <1>2, <1>3, <1>4, <1>5, <1>6

LEMMA RestartAllStep == ASSUME IInv, RestartAll PROVE IInv'
<1> USE DEF RestartAll, Restart, Then, IInv, files, histories
<1>1. TypeOK'
  BY DEF TypeOK, Steps, Exposed
<1>2. ReadyInv'
  BY DEF ReadyInv, Ready, Trying, Prepared
<1>3. BuildInv'
  BY DEF BuildInv, ReadyInv, Ready, Passed, Switched
<1>4. DoomedInv'
  BY DEF DoomedInv
<1>5. ServesInv'
  BY DEF ServesInv, SchemaCovers, OneRelease
<1>6. UsableInv'
  BY DEF UsableInv, Trying, Prepared, Passed, Serving
<1> QED BY <1>1, <1>2, <1>3, <1>4, <1>5, <1>6

LEMMA HealthyStep == ASSUME IInv, Healthy PROVE IInv'
<1> USE DEF Healthy, Then, IInv, files, units
<1>1. TypeOK'
  BY DEF TypeOK, BuildInv, Steps
<1>2. ReadyInv'
  BY DEF ReadyInv, BuildInv, TypeOK, Ready, Trying, Prepared
<1>3. BuildInv'
  BY DEF BuildInv, ReadyInv, Ready, Switched
<1>4. DoomedInv'
  BY DEF DoomedInv
<1>5. ServesInv'
  BY DEF ServesInv, SchemaCovers, OneRelease
<1>6. UsableInv'
  BY DEF UsableInv, BuildInv, Switched, Trying, Prepared
<1> QED BY <1>1, <1>2, <1>3, <1>4, <1>5, <1>6

LEMMA UnhealthyStep == ASSUME IInv, Unhealthy PROVE IInv'
<1> USE DEF Unhealthy, IInv, files, units, histories
<1>1. TypeOK'
  BY DEF TypeOK, Steps, Exposed
<1>2. ReadyInv'
  BY DEF ReadyInv, Ready, Trying, Prepared
<1>3. BuildInv'
  BY DEF BuildInv, ReadyInv, Ready, Passed, Switched
<1>4. DoomedInv'
  BY DEF DoomedInv
<1>5. ServesInv'
  BY DEF ServesInv, SchemaCovers, OneRelease
<1>6. UsableInv'
  BY DEF UsableInv, Trying, Prepared, Passed, Serving
<1> QED BY <1>1, <1>2, <1>3, <1>4, <1>5, <1>6

LEMMA RollbackStep == ASSUME IInv, Rollback PROVE IInv'
<1> USE DEF Rollback, CanRollBack, IInv, units, histories
<1>1. TypeOK'
  BY DEF TypeOK, Steps, Exposed
<1>2. ReadyInv'
  BY DEF ReadyInv, BuildInv, Ready, Trying, Prepared, Builds
<1>3. BuildInv'
  BY DEF BuildInv, ReadyInv, Ready, Passed, Switched
<1>4. DoomedInv'
  BY DEF DoomedInv
<1>5. ServesInv'
  BY DEF ServesInv, SchemaCovers, OneRelease
<1>6. UsableInv'
  BY DEF UsableInv, ReadyInv, TypeOK, Ready, Trying, Prepared, Passed, Serving
<1> QED BY <1>1, <1>2, <1>3, <1>4, <1>5, <1>6

LEMMA RecoverStep == ASSUME IInv, Recover PROVE IInv'
<1> USE DEF Recover, Restart, IInv, files, histories
<1>1. TypeOK'
  BY DEF TypeOK, Steps
<1>2. ReadyInv'
  BY DEF ReadyInv, Ready, Trying, Prepared
<1>3. BuildInv'
  BY DEF BuildInv, Prepared, Passed, Switched
<1>4. DoomedInv'
  BY DEF DoomedInv
<1>5. ServesInv'
  BY DEF ServesInv, SchemaCovers, OneRelease
<1>6. UsableInv'
  BY DEF UsableInv, Trying, Prepared
<1> QED BY <1>1, <1>2, <1>3, <1>4, <1>5, <1>6

LEMMA ListStep == ASSUME IInv, List PROVE IInv'
<1> USE DEF List, Excess, Then, IInv, units, histories
<1>1. TypeOK'
  BY DEF TypeOK, Steps, Exist
<1>2. ReadyInv'
  BY DEF ReadyInv, Ready, Trying, Prepared
<1>3. BuildInv'
  BY DEF BuildInv, Ready, Passed, Switched
<1>4. DoomedInv'
  BY DEF DoomedInv, BuildInv, Passed, Switched
<1>5. ServesInv'
  BY DEF ServesInv, SchemaCovers, OneRelease
<1>6. UsableInv'
  BY DEF UsableInv, Trying, Prepared, Passed, Serving
<1> QED BY <1>1, <1>2, <1>3, <1>4, <1>5, <1>6

LEMMA CleanedUpStep == ASSUME IInv, CleanedUp PROVE IInv'
<1> USE DEF CleanedUp, Then, IInv, files, units, histories
<1>1. TypeOK'
  BY DEF TypeOK, Steps
<1>2. ReadyInv'
  BY DEF ReadyInv, Ready, Trying, Prepared
<1>3. BuildInv'
  BY DEF BuildInv, Ready, Passed, Switched
<1>4. DoomedInv'
  BY DEF DoomedInv
<1>5. ServesInv'
  BY DEF ServesInv, SchemaCovers, OneRelease
<1>6. UsableInv'
  BY DEF UsableInv, Trying, Prepared, Passed, Serving
<1> QED BY <1>1, <1>2, <1>3, <1>4, <1>5, <1>6

LEMMA StopStep == ASSUME IInv, NEW s \in Services, Stop(s) PROVE IInv'
<1> USE DEF Stop, Halt, IInv, files, histories
<1>1. TypeOK'
  BY DEF TypeOK
<1>2. ReadyInv'
  BY DEF ReadyInv, Ready
<1>3. BuildInv'
  BY DEF BuildInv, Ready
<1>4. DoomedInv'
  BY DEF DoomedInv
<1>5. ServesInv'
  BY DEF ServesInv, SchemaCovers, OneRelease, TypeOK
<1>6. UsableInv'
  BY DEF UsableInv, ReadyInv, BuildInv, TypeOK, Trying, Prepared, Serving
<1> QED BY <1>1, <1>2, <1>3, <1>4, <1>5, <1>6

LEMMA StopFailsStep == ASSUME IInv, NEW s \in Services, StopFails(s) PROVE IInv'
<1> USE DEF StopFails, IInv, files, units, histories
<1>1. TypeOK'
  BY DEF TypeOK
<1>2. ReadyInv'
  BY DEF ReadyInv, Ready
<1>3. BuildInv'
  BY DEF BuildInv, Ready
<1>4. DoomedInv'
  BY DEF DoomedInv
<1>5. ServesInv'
  BY DEF ServesInv, SchemaCovers, OneRelease, TypeOK
<1>6. UsableInv'
  BY DEF UsableInv
<1> QED BY <1>1, <1>2, <1>3, <1>4, <1>5, <1>6

LEMMA RemoveStep == ASSUME IInv, NEW b \in doomed, Remove(b) PROVE IInv'
<1> USE DEF Remove, IInv, units, histories
<1>1. TypeOK'
  BY DEF TypeOK
<1>2. ReadyInv'
  BY DEF ReadyInv, DoomedInv, Ready, Trying, Prepared
<1>3. BuildInv'
  BY DEF BuildInv, DoomedInv, Ready, Prepared
<1>4. DoomedInv'
  BY DEF DoomedInv
<1>5. ServesInv'
  BY DEF ServesInv, SchemaCovers, OneRelease
<1>6. UsableInv'
  BY DEF UsableInv
<1> QED BY <1>1, <1>2, <1>3, <1>4, <1>5, <1>6

LEMMA StartServiceStep == ASSUME IInv, NEW s \in Services, StartService(s) PROVE IInv'
<1> USE DEF StartService, IInv, files, histories
<1>1. TypeOK'
  BY DEF TypeOK
<1>2. ReadyInv'
  BY DEF ReadyInv, Ready
<1>3. BuildInv'
  BY DEF BuildInv, Ready
<1>4. DoomedInv'
  BY DEF DoomedInv
<1>5. ServesInv'
  BY DEF ServesInv, SchemaCovers, OneRelease, ReadyInv, Ready
<1>6. UsableInv'
  BY DEF UsableInv
<1> QED BY <1>1, <1>2, <1>3, <1>4, <1>5, <1>6

LEMMA CrashStep == ASSUME IInv, NEW s \in Services, Crash(s) PROVE IInv'
<1> USE DEF Crash, Trouble, IInv, files, histories
<1>1. TypeOK'
  BY DEF TypeOK
<1>2. ReadyInv'
  BY DEF ReadyInv, Ready
<1>3. BuildInv'
  BY DEF BuildInv, Ready
<1>4. DoomedInv'
  BY DEF DoomedInv
<1>5. ServesInv'
  BY DEF ServesInv, SchemaCovers, OneRelease
<1>6. UsableInv'
  BY DEF UsableInv
<1> QED BY <1>1, <1>2, <1>3, <1>4, <1>5, <1>6

LEMMA AbortStep == ASSUME IInv, Abort PROVE IInv'
<1> USE DEF Abort, Trouble, Break, IInv, units
<1>1. TypeOK'
  BY DEF TypeOK, Steps
<1>2. ReadyInv'
  BY DEF ReadyInv, Ready, Trying, Prepared
<1>3. BuildInv'
  BY DEF BuildInv, Prepared, Passed, Switched
<1>4. DoomedInv'
  BY DEF DoomedInv
<1>5. ServesInv'
  BY DEF ServesInv, SchemaCovers, OneRelease, Exposed
<1>6. UsableInv'
  BY DEF UsableInv, TypeOK, Steps, Trying, Prepared, Passed, Serving
<1> QED BY <1>1, <1>2, <1>3, <1>4, <1>5, <1>6

LEMMA RebootStep == ASSUME IInv, Reboot PROVE IInv'
<1> USE DEF Reboot, Trouble, Break, Restart, IInv
<1>1. TypeOK'
  BY DEF TypeOK, Steps
<1>2. ReadyInv'
  BY DEF ReadyInv, Ready, Trying, Prepared
<1>3. BuildInv'
  BY DEF BuildInv, Prepared, Passed, Switched
<1>4. DoomedInv'
  BY DEF DoomedInv
<1>5. ServesInv'
  BY DEF ServesInv, SchemaCovers, OneRelease
<1>6. UsableInv'
  BY DEF UsableInv, TypeOK, Steps, Trying, Prepared, Passed, Serving
<1> QED BY <1>1, <1>2, <1>3, <1>4, <1>5, <1>6

LEMMA StutterStep == ASSUME IInv, UNCHANGED vars PROVE IInv'
<1> USE DEF IInv, vars
<1>1. TypeOK'
  BY DEF TypeOK, Targets, Steps, Exposed
<1>2. ReadyInv'
  BY DEF ReadyInv, Ready
<1>3. BuildInv'
  BY DEF BuildInv, Ready
<1>4. DoomedInv'
  BY DEF DoomedInv
<1>5. ServesInv'
  BY DEF ServesInv, SchemaCovers, OneRelease
<1>6. UsableInv'
  BY DEF UsableInv
<1> QED BY <1>1, <1>2, <1>3, <1>4, <1>5, <1>6

LEMMA InvInit == Init => IInv
<1> SUFFICES ASSUME Init PROVE IInv
  OBVIOUS
<1> USE DEF Init
<1>1. TypeOK
  <2>1. sound \subseteq Services \X Builds
    OBVIOUS
  <2>2. wanted \in [Services -> BOOLEAN] /\ serves \in [Services -> Builds \cup {NONE}]
    OBVIOUS
  <2>3. /\ build \in 0..MaxBuilds /\ schema \in Nat /\ troubles \in Nat
        /\ dir \in [Builds -> {"none", "partial", "whole"}]
    OBVIOUS
  <2> QED BY <2>1, <2>2, <2>3 DEF TypeOK, Targets, Steps
<1>2. ReadyInv
  BY DEF ReadyInv, Trying, Prepared
<1>3. BuildInv
  BY DEF BuildInv, Prepared, Passed, Switched
<1>4. DoomedInv
  BY DEF DoomedInv
<1>5. ServesInv
  BY DEF ServesInv, SchemaCovers, OneRelease
<1>6. UsableInv
  BY DEF UsableInv, Passed
<1> QED BY <1>1, <1>2, <1>3, <1>4, <1>5, <1>6 DEF IInv

-----------------------------------------------------------------------------
(* The theorems.                                                           *)

(* The inductive invariant holds always.                                   *)
THEOREM Invariance == Spec => []IInv
<1>1. IInv /\ [Next]_vars => IInv'
  <2> SUFFICES ASSUME IInv, [Next]_vars PROVE IInv'
    OBVIOUS
  <2>1. ASSUME Script PROVE IInv'
    BY <2>1, InstallStep, MigrateStep, SwitchStep, RestartAllStep, HealthyStep,
       UnhealthyStep, RollbackStep, RecoverStep, ListStep, CleanedUpStep,
       StopStep, StopFailsStep, RemoveStep DEF Script
  <2>2. ASSUME NEW s \in Services, StartService(s) \/ Crash(s) PROVE IInv'
    BY <2>2, StartServiceStep, CrashStep
  <2> QED BY <2>1, <2>2, BeginStep, AbortStep, RebootStep, StutterStep DEF Next
<1> QED BY <1>1, InvInit, PTL DEF Spec

(* Script, directories and services keep their types, for any services and *)
(* number of deployments; only wanted services run.                        *)
THEOREM TypeCorrect == Spec => []TypeOK
<1>1. IInv => TypeOK
  BY DEF IInv
<1> QED BY <1>1, Invariance, PTL

(* No service runs a release whose migrations the database lacks, wherever *)
(* the script is aborted and whatever is rolled back.                      *)
THEOREM SchemaCoversHolds == Spec => []SchemaCovers
<1>1. IInv => SchemaCovers
  BY DEF IInv, SchemaCovers, ServesInv
<1> QED BY <1>1, Invariance, PTL

(* Services of two releases never run side by side, rollbacks, interrupted *)
(* deployments and services that could not be stopped aside, the last      *)
(* until the restart.                                                      *)
THEOREM OneReleaseHolds == Spec => []OneRelease
<1>1. IInv => OneRelease
  BY DEF IInv, OneRelease, ServesInv
<1> QED BY <1>1, Invariance, PTL

(* The current and the last usable release are never removed, however many *)
(* releases failed and however few are kept.                               *)
THEOREM UsableKeptHolds == Spec => []UsableKept
<1>1. IInv => UsableKept
  BY DEF IInv, UsableKept, ReadyInv, Ready
<1> QED BY <1>1, Invariance, PTL

(* A deployment that was not interrupted leaves the last usable release    *)
(* current and its services wanted.                                        *)
THEOREM RollsBackHolds == Spec => []RollsBack
<1>1. IInv => RollsBack
  BY DEF IInv, RollsBack, UsableInv, Serving
<1> QED BY <1>1, Invariance, PTL
=============================================================================
