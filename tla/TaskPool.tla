------------------------------ MODULE TaskPool ------------------------------
(***************************************************************************)
(* What a work queue promises: a task is with one agent at a time, an      *)
(* agent that disappears leaves its task for another, and a task that is   *)
(* done is done.  The abstract specification of the job queue.             *)
(***************************************************************************)
CONSTANTS Tasks, Agents, NONE

VARIABLES status,  \* status of a task
          task     \* the task an agent is working on

Init == /\ status = [t \in Tasks |-> "absent"]
        /\ task = [a \in Agents |-> NONE]

(* A client submits a batch of tasks. *)
Submit == \E S \in SUBSET {t \in Tasks : status[t] = "absent"} :
  /\ S # {}
  /\ status' = [t \in Tasks |-> IF t \in S THEN "waiting" ELSE status[t]]
  /\ UNCHANGED task

(* An idle agent takes a task that waits, or that an agent left behind. *)
Take(a, t) ==
  /\ task[a] = NONE
  /\ \/ status[t] = "waiting"
     \/ status[t] = "taken" /\ \A b \in Agents : task[b] # t
  /\ status' = [status EXCEPT ![t] = "taken"]
  /\ task' = [task EXCEPT ![a] = t]

(* The agent gives its task back, or brings it to its end. *)
Return(a, s) ==
  /\ task[a] # NONE
  /\ status' = [status EXCEPT ![task[a]] = s]
  /\ task' = [task EXCEPT ![a] = NONE]

(* The agent disappears; its task stays taken. *)
Disappear(a) ==
  /\ task[a] # NONE
  /\ task' = [task EXCEPT ![a] = NONE]
  /\ UNCHANGED status

Next ==
  \/ Submit
  \/ \E a \in Agents : \/ \E t \in Tasks : Take(a, t)
                       \/ \E s \in {"waiting", "done"} : Return(a, s)
                       \/ Disappear(a)

Spec == Init /\ [][Next]_<<status, task>>
=============================================================================
