----------------------------- MODULE TaskQueue -----------------------------
(***************************************************************************)
(* What the outbox promises to the code that enqueues work, without claims, *)
(* attempts, back-off or stale recovery: a task is open until it is either  *)
(* done or given up ("dead"), a done task is never reopened, and only an    *)
(* explicit retry turns a dead task into a done (superseded) one.           *)
(***************************************************************************)
EXTENDS Naturals, Sequences

CONSTANT MaxTasks  \* bound: tasks ever submitted

VARIABLE task

TaskTypeOK == task \in Seq({"open", "done", "dead"})

TaskInit == task = <<>>

Submit ==
    /\ Len(task) < MaxTasks
    /\ task' = Append(task, "open")

\* T open tasks end together: a finished task alone, or several cancelled ones.
Finish(T) ==
    /\ T # {}
    /\ \A t \in T : task[t] = "open"
    /\ task' = [t \in DOMAIN task |-> IF t \in T THEN "done" ELSE task[t]]

GiveUp(t) ==
    /\ task[t] = "open"
    /\ task' = [task EXCEPT ![t] = "dead"]

\* A retry closes the failed or dead tasks T it replaces and opens a new one.
Resubmit(T) ==
    /\ Len(task) < MaxTasks
    /\ \A t \in T : task[t] # "done"
    /\ task' = Append([t \in DOMAIN task |->
                          IF t \in T THEN "done" ELSE task[t]], "open")

TaskNext ==
    \/ Submit
    \/ \E T \in SUBSET DOMAIN task : Finish(T) \/ Resubmit(T)
    \/ \E t \in DOMAIN task : GiveUp(t)

TaskSpec == TaskInit /\ [][TaskNext]_task
=============================================================================
