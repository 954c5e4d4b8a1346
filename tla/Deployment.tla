----------------------------- MODULE Deployment -----------------------------
(***************************************************************************)
(* Deploying releases (deploy/webfetch-jenkins-deploy): install beside the *)
(* running release, migrate the database, stop the services, switch the    *)
(* link "current", start them again, check, and clean up or roll back.     *)
(* systemd starts a service from wherever "current" points                 *)
(* (deploy/webfetch-launch) and starts it again when it dies.              *)
(*                                                                         *)
(* Jenkins runs one deployment at a time (disableConcurrentBuilds), and    *)
(* each into a directory of its own, the newest of all.  ln -sfn replaces  *)
(* the link at once.  systemctl stop may fail, which the script ignores.   *)
(* The schema is the number of the last migration applied; there is no way *)
(* back.                                                                   *)
(***************************************************************************)
EXTENDS Integers, FiniteSets

CONSTANTS Services,     \* the units of the API and of the workers
          Api,          \* the one the health check asks
          MaxBuilds,    \* bound on the deployments
          SchemaOf,     \* the last migration a release knows
          Keep,         \* WEBFETCH_RELEASES_TO_KEEP
          MaxTroubles,  \* bound on crashes, aborts and reboots
          NONE,         \* no link, no release
          SELF          \* "current" as a target of itself

Builds == 1..MaxBuilds

ASSUME DeploymentAssumption ==
  /\ Api \in Services
  /\ MaxBuilds \in Nat
  /\ SchemaOf \in [Builds -> Nat]
  /\ Keep \in Nat /\ Keep >= 2
  /\ MaxTroubles \in Nat
  /\ NONE \notin Builds /\ SELF \notin Builds /\ NONE # SELF

VARIABLES
  step,         \* where the script is
  build,        \* the release it deploys, or deployed last
  previous,     \* what "current" was when it began
  stops,        \* what became of its systemctl stop of a service
  dir,          \* the directories under releases/
  doomed,       \* those the clean-up still has to remove
  link,         \* what "current" points to
  schema,       \* the last migration applied to the database
  wanted,       \* whether systemd is to keep a service running
  serves,       \* the release a service runs
  sound,        \* which services of which release start at all
  usable,       \* history: the last release that passed its check
  interrupted,  \* history: a deployment ended between stop and check
  troubles      \* crashes, aborts and reboots so far

vars == <<step, build, previous, stops, dir, doomed, link, schema, wanted,
          serves, sound, usable, interrupted, troubles>>

files    == <<dir, doomed, link>>
units    == <<wanted, serves>>
histories == <<usable, interrupted>>

Targets == Builds \cup {NONE, SELF}
Exposed == {"stop", "restart", "check", "rollback", "recover"}
Steps   == {"idle", "install", "migrate", "list", "cleanup"} \cup Exposed

Init ==
  /\ step = "idle"
  /\ build = 0
  /\ previous = NONE
  /\ stops = [s \in Services |-> "due"]
  /\ dir = [b \in Builds |-> "none"]
  /\ doomed = {}
  /\ link = NONE
  /\ schema = 0
  /\ wanted = [s \in Services |-> FALSE]
  /\ serves = [s \in Services |-> NONE]
  /\ sound \in SUBSET (Services \X Builds)
  /\ usable = NONE
  /\ interrupted = FALSE
  /\ troubles = 0

(* Mutation: install-native.sh switches the link before it migrates.       *)
ThenNative(s) ==
  CASE s = "install" -> "stop"
    [] s = "stop"    -> "migrate"
    [] s = "migrate" -> "restart"
    [] s = "restart" -> "check"
    [] s = "check"   -> "list"
    [] s = "list"    -> "cleanup"
    [] s = "cleanup" -> "idle"

(* Mutation: old releases are removed before the new one is checked.       *)
ThenCleanUp(s) ==
  CASE s = "install" -> "migrate"
    [] s = "migrate" -> "stop"
    [] s = "stop"    -> "restart"
    [] s = "restart" -> "list"
    [] s = "list"    -> "cleanup"
    [] s = "cleanup" -> "check"
    [] s = "check"   -> "idle"

(* The order of the script when nothing fails.                             *)
Then(s) ==
  CASE s = "install" -> "migrate"
    [] s = "migrate" -> "stop"
    [] s = "stop"    -> "restart"
    [] s = "restart" -> "check"
    [] s = "check"   -> "list"
    [] s = "list"    -> "cleanup"
    [] s = "cleanup" -> "idle"

-----------------------------------------------------------------------------
(* The services.                                                           *)

(* Mutation: systemctl does not wait for the service to stop.              *)
HaltNoWait(S) == wanted' = [s \in Services |-> wanted[s] /\ s \notin S] /\ UNCHANGED serves

(* systemctl stop                                                          *)
Halt(S) ==
  /\ wanted' = [s \in Services |-> wanted[s] /\ s \notin S]
  /\ serves' = [s \in Services |-> IF s \in S THEN NONE ELSE serves[s]]

(* Mutation: the services are not started again. *)
RestartNothing == UNCHANGED units

(* systemctl restart of all services, and what a boot does.                *)
Restart ==
  /\ wanted' = [s \in Services |-> TRUE]
  /\ serves' = [s \in Services |-> NONE]

(* systemd starts the service, again and again until it stays up.          *)
StartService(s) ==
  /\ wanted[s] /\ serves[s] = NONE
  /\ link \in Builds /\ dir[link] = "whole" /\ <<s, link>> \in sound
  /\ serves' = [serves EXCEPT ![s] = link]
  /\ UNCHANGED <<step, build, previous, stops, files, schema, wanted, sound, histories,
                 troubles>>

-----------------------------------------------------------------------------
(* The script.                                                             *)

(* readlink -f: where "current" is missing its own path, if it points to   *)
(* itself nothing.                                                         *)
ReadLink == CASE link = NONE -> SELF
              [] link = SELF -> NONE
              [] OTHER       -> link

Begin ==
  /\ step = "idle" /\ build < MaxBuilds
  /\ build' = build + 1
  /\ previous' = ReadLink
  /\ stops' = [s \in Services |-> "due"]
  /\ dir' = [dir EXCEPT ![build + 1] = "partial"]
  /\ step' = "install"
  /\ UNCHANGED <<doomed, link, schema, units, sound, histories, troubles>>

(* Code, dependencies and the browser.                                     *)
Install ==
  /\ step = "install"
  /\ dir' = [dir EXCEPT ![build] = "whole"]
  /\ step' = Then("install")
  /\ UNCHANGED <<build, previous, stops, doomed, link, schema, units, sound, histories,
                 troubles>>

(* alembic upgrade head, while the old release still serves.  A release    *)
(* that does not know the database's revision cannot upgrade it.           *)
Migrate ==
  /\ step = "migrate"
  /\ IF schema <= SchemaOf[build]
     THEN schema' = SchemaOf[build] /\ step' = Then("migrate")
     ELSE UNCHANGED schema /\ step' = "idle"
  /\ UNCHANGED <<build, previous, stops, files, units, sound, histories, troubles>>

Stop(s) ==
  /\ step = "stop" /\ stops[s] = "due"
  /\ stops' = [stops EXCEPT ![s] = "done"]
  /\ Halt({s})
  /\ UNCHANGED <<step, build, previous, files, schema, sound, histories, troubles>>

(* systemctl stop fails, and the service runs on: "|| true".               *)
StopFails(s) ==
  /\ step = "stop" /\ stops[s] = "due"
  /\ stops' = [stops EXCEPT ![s] = "failed"]
  /\ UNCHANGED <<step, build, previous, files, schema, units, sound, histories, troubles>>

(* Mutation: the link is switched before the services have been stopped.   *)
AllAskedOrNot == TRUE

AllAsked == \A s \in Services : stops[s] # "due"

Switch ==
  /\ step = "stop" /\ AllAsked
  /\ link' = build
  /\ step' = Then("stop")
  /\ UNCHANGED <<build, previous, stops, dir, doomed, schema, units, sound, histories,
                 troubles>>

RestartAll ==
  /\ step = "restart"
  /\ Restart
  /\ step' = Then("restart")
  /\ UNCHANGED <<build, previous, stops, files, schema, sound, histories, troubles>>

(* The API answers that it is ready.                                       *)
Healthy ==
  /\ step = "check" /\ serves[Api] # NONE
  /\ usable' = build
  /\ interrupted' = FALSE
  /\ step' = Then("check")
  /\ UNCHANGED <<build, previous, stops, files, schema, units, sound, troubles>>

(* Thirty tries have failed, a second or more apart.                       *)
Unhealthy ==
  /\ step = "check"
  /\ step' = "rollback"
  /\ UNCHANGED <<build, previous, stops, files, schema, units, sound, histories, troubles>>

(* Mutation: no rollback. *)
CanRollBackNever == FALSE

(* The previous target is a directory; at this point "current" is one.     *)
CanRollBack == IF previous \in Builds THEN dir[previous] # "none" ELSE previous = SELF

Rollback ==
  /\ step = "rollback"
  /\ IF CanRollBack
     THEN link' = previous /\ step' = "recover"
     ELSE UNCHANGED link /\ step' = "idle"
  /\ UNCHANGED <<build, previous, stops, dir, doomed, schema, units, sound, histories,
                 troubles>>

Recover ==
  /\ step = "recover"
  /\ Restart
  /\ step' = "idle"
  /\ UNCHANGED <<build, previous, stops, files, schema, sound, histories, troubles>>

(* The releases beyond the newest Keep, failed ones counted too; never     *)
(* the current one.                                                        *)
Exist  == {b \in Builds : dir[b] # "none"}
Excess == {b \in Exist \ {link} : Cardinality({d \in Exist : d > b}) >= Keep}

List ==
  /\ step = "list"
  /\ doomed' = Excess
  /\ step' = Then("list")
  /\ UNCHANGED <<build, previous, stops, dir, link, schema, units, sound, histories,
                 troubles>>

(* rm -rf of one directory after the other, the newest first.              *)
Remove(b) ==
  /\ step = "cleanup" /\ b \in doomed /\ \A d \in doomed : d <= b
  /\ dir' = [dir EXCEPT ![b] = IF @ = "whole" THEN "partial" ELSE "none"]
  /\ doomed' = IF dir[b] = "whole" THEN doomed ELSE doomed \ {b}
  /\ UNCHANGED <<step, build, previous, stops, link, schema, units, sound, histories,
                 troubles>>

CleanedUp ==
  /\ step = "cleanup" /\ doomed = {}
  /\ step' = Then("cleanup")
  /\ UNCHANGED <<build, previous, stops, files, schema, units, sound, histories, troubles>>

Script ==
  \/ Install \/ Migrate \/ Switch \/ RestartAll \/ Healthy \/ Unhealthy
  \/ Rollback \/ Recover \/ List \/ CleanedUp
  \/ \E s \in Services : Stop(s) \/ StopFails(s)
  \/ \E b \in doomed : Remove(b)

-----------------------------------------------------------------------------
(* What goes wrong around it.                                              *)

Trouble == troubles < MaxTroubles /\ troubles' = troubles + 1

Crash(s) ==
  /\ serves[s] # NONE /\ Trouble
  /\ serves' = [serves EXCEPT ![s] = NONE]
  /\ UNCHANGED <<step, build, previous, stops, files, schema, wanted, sound, histories>>

(* The script ends here: a command fails (set -e), or the job is aborted.  *)
Break ==
  /\ step' = "idle"
  /\ doomed' = {}
  /\ interrupted' = (interrupted \/ step \in Exposed)
  /\ UNCHANGED <<build, previous, stops, dir, link, schema, sound, usable>>

Abort ==
  /\ step # "idle" /\ Trouble
  /\ Break
  /\ UNCHANGED units

(* The host restarts; the units are enabled.                               *)
Reboot ==
  /\ Trouble
  /\ Break
  /\ Restart

Next ==
  \/ Begin \/ Script
  \/ \E s \in Services : StartService(s) \/ Crash(s)
  \/ Abort \/ Reboot

Spec == Init /\ [][Next]_vars

(* ln and systemctl end (TimeoutStopSec bounds a stop), and systemd starts *)
(* what it is to keep running.  pip, alembic, curl without --max-time and  *)
(* rm owe nothing.                                                         *)
Fairness ==
  /\ WF_vars(\/ \E s \in Services : Stop(s) \/ StopFails(s)
             \/ Switch \/ RestartAll \/ Rollback \/ Recover)
  /\ \A s \in Services : WF_vars(StartService(s))

FairSpec == Spec /\ Fairness

-----------------------------------------------------------------------------
(* Script, directories and services keep their types; only services that   *)
(* are wanted run.                                                         *)
TypeOK ==
  /\ step \in Steps
  /\ build \in 0..MaxBuilds
  /\ previous \in Targets
  /\ stops \in [Services -> {"due", "done", "failed"}]
  /\ dir \in [Builds -> {"none", "partial", "whole"}]
  /\ doomed \subseteq Builds
  /\ link \in Targets
  /\ schema \in Nat
  /\ wanted \in [Services -> BOOLEAN]
  /\ serves \in [Services -> Builds \cup {NONE}]
  /\ sound \subseteq Services \X Builds
  /\ usable \in Builds \cup {NONE}
  /\ interrupted \in BOOLEAN
  /\ troubles \in Nat
  /\ \A s \in Services : serves[s] # NONE => wanted[s]

(* No service ever runs a release on a database that lacks its migrations, *)
(* also when the script is aborted, the host restarts or a release is      *)
(* rolled back (docs/webfetch-service-design.md:419-420).                  *)
SchemaCovers == \A s \in Services : serves[s] # NONE => SchemaOf[serves[s]] <= schema

(* Services of different releases never run side by side, except while a   *)
(* rollback restarts them, after an interruption, and, for a service whose *)
(* stop failed, until the restart that follows the switch: all run what    *)
(* "current" names, also those systemd starts again while a release is     *)
(* deployed (deploy/webfetch-jenkins-deploy:87-91).                        *)
OneRelease ==
  step # "recover" /\ ~interrupted =>
    \A s \in Services : \/ serves[s] \in {NONE, link}
                        \/ step = "restart" /\ stops[s] = "failed"

(* What "current" names and the last release known to be usable are whole: *)
(* no clean-up takes them away, although failed releases count among those *)
(* it keeps (README.md:310, tests/test_deploy_script.py:8-25).             *)
UsableKept == \A b \in {link, usable} \cap Builds : dir[b] = "whole"

(* When the script has ended, and was not interrupted between stopping the *)
(* services and the outcome of its check, the last usable release is the   *)
(* current one and its services are to run, whatever the new release did   *)
(* (docs/webfetch-service-srs.md:622).                                     *)
RollsBack ==
  step = "idle" /\ ~interrupted /\ usable # NONE =>
    /\ link = usable
    /\ \A s \in Services : wanted[s]

(* In the end every service that can start runs the current release, also  *)
(* when the script hangs in a step nothing bounds; a deployment            *)
(* interrupted between stop and check is excepted, for nothing starts what *)
(* it stopped.                                                             *)
Settles ==
  <>[](interrupted \/ \A s \in Services : <<s, link>> \in sound => serves[s] = link)
=============================================================================
