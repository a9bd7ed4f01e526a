------------------------------- MODULE Tasks -------------------------------
(***************************************************************************)
(* The tasks of the REST API (src/embedding/api/routes/tasks.ts) and the    *)
(* table of TaskFSM (src/collaboration/task/task-fsm.ts), which is a        *)
(* StateMachine over it.  POST stores the task and then enqueues a message  *)
(* for it; cancel reads the task and writes it back as killed.  The worker  *)
(* that takes the message is the host's: it restores a TaskFSM from the     *)
(* stored task, makes a transition and stores the task (external).          *)
(***************************************************************************)
CONSTANTS
    TaskIds,        \* the tasks ever created
    Cancels         \* the calls of cancel, each once

VARIABLES
    taskRow,        \* the state of each stored task
    creating,       \* where the POST of each task is
    taskMsgs,       \* the tasks with a message on the queue "tasks"
    loaded,         \* the state of the task that its worker has loaded, or "none"
    cancel,         \* the calls of cancel, and the state they have read
    outdated        \* auxiliary: tasks written by a worker whose state was stale

taskvars == <<taskRow, creating, taskMsgs, loaded, cancel, outdated>>

TaskStates == {"pending", "queued", "running", "paused", "completed", "failed",
               "killed", "timeout"}

TaskTransitions ==
    {[from |-> t[1], event |-> t[2], to |-> t[3]] : t \in
        {<<"pending", "enqueue", "queued">>,      <<"pending", "kill", "killed">>,
         <<"queued", "start", "running">>,        <<"queued", "kill", "killed">>,
         <<"running", "complete", "completed">>,  <<"running", "fail", "failed">>,
         <<"running", "pause", "paused">>,        <<"running", "kill", "killed">>,
         <<"running", "timeout_trigger", "timeout">>,
         <<"paused", "resume", "running">>,       <<"paused", "kill", "killed">>,
         <<"failed", "retry", "queued">>,         <<"timeout", "retry", "queued">>}}

TaskTypeOK ==
    /\ taskRow \in [TaskIds -> TaskStates \cup {"none"}]
    /\ creating \in [TaskIds -> {"idle", "enqueue", "created", "threw"}]
    /\ taskMsgs \in SUBSET TaskIds /\ outdated \in SUBSET TaskIds
    /\ loaded \in [TaskIds -> TaskStates \cup {"none"}]
    /\ cancel \in [Cancels -> [id : TaskIds, read : TaskStates \cup {"none"},
                               at : {"idle", "read", "killed", "notFound"}]]
    /\ \A i \in TaskIds : taskRow[i] = "none" <=> creating[i] = "idle"

TaskInit ==
    /\ taskRow = [i \in TaskIds |-> "none"]
    /\ creating = [i \in TaskIds |-> "idle"]
    /\ taskMsgs = {} /\ outdated = {}
    /\ loaded = [i \in TaskIds |-> "none"]
    /\ cancel \in [Cancels -> {[id |-> i, read |-> "none", at |-> "idle"] : i \in TaskIds}]

----------------------------------------------------------------------------
PostTask(i) ==
    /\ creating[i] = "idle"
    /\ taskRow' = [taskRow EXCEPT ![i] = "pending"]
    /\ creating' = [creating EXCEPT ![i] = "enqueue"]
    /\ UNCHANGED <<taskMsgs, loaded, cancel, outdated>>

\* The second await of POST; when it throws, the stored task stays pending.
EnqueueTask(i) ==
    /\ creating[i] = "enqueue"
    /\ \/ creating' = [creating EXCEPT ![i] = "created"] /\ taskMsgs' = taskMsgs \cup {i}
       \/ creating' = [creating EXCEPT ![i] = "threw"] /\ UNCHANGED taskMsgs
    /\ UNCHANGED <<taskRow, loaded, cancel, outdated>>

\* The get of cancel, whatever the state of the task is.
FindTask(c) ==
    /\ cancel[c].at = "idle"
    /\ LET now == taskRow[cancel[c].id]
       IN  cancel' = [cancel EXCEPT ![c].read = now,
                                    ![c].at = IF now = "none" THEN "notFound" ELSE "read"]
    /\ UNCHANGED <<taskRow, creating, taskMsgs, loaded, outdated>>

\* Mutant: cancel makes a failed task of it, which may be retried.
KillTaskAsFailed(c) ==
    /\ cancel[c].at = "read"
    /\ taskRow' = [taskRow EXCEPT ![cancel[c].id] = "failed"]
    /\ cancel' = [cancel EXCEPT ![c].at = "killed"]
    /\ UNCHANGED <<creating, taskMsgs, loaded, outdated>>

\* The set of cancel: the task that get returned, as killed.
KillTask(c) ==
    /\ cancel[c].at = "read"
    /\ taskRow' = [taskRow EXCEPT ![cancel[c].id] = "killed"]
    /\ cancel' = [cancel EXCEPT ![c].at = "killed"]
    /\ UNCHANGED <<creating, taskMsgs, loaded, outdated>>

\* External: a worker has the message of the task and loads the task.
LoadTask(i) ==
    /\ i \in taskMsgs /\ loaded[i] = "none"
    /\ loaded' = [loaded EXCEPT ![i] = taskRow[i]]
    /\ UNCHANGED <<taskRow, creating, taskMsgs, cancel, outdated>>

\* External: it makes a transition that TaskFSM allows from there, and saves.
SaveTask(i) ==
    /\ \E t \in TaskTransitions :
          /\ loaded[i] = t.from
          /\ taskRow' = [taskRow EXCEPT ![i] = t.to]
    /\ outdated' = outdated \cup (IF taskRow[i] = loaded[i] THEN {} ELSE {i})
    /\ loaded' = [loaded EXCEPT ![i] = "none"]
    /\ UNCHANGED <<creating, taskMsgs, cancel>>

\* External: TaskFSM throws on a terminal state; the message is done with.
GiveUpTask(i) ==
    /\ loaded[i] \in {"completed", "killed"}
    /\ loaded' = [loaded EXCEPT ![i] = "none"]
    /\ taskMsgs' = taskMsgs \ {i}
    /\ UNCHANGED <<taskRow, creating, cancel, outdated>>

TaskStep(i) == PostTask(i) \/ EnqueueTask(i) \/ LoadTask(i) \/ SaveTask(i) \/ GiveUpTask(i)
TaskNext ==
    \/ \E i \in TaskIds : TaskStep(i)
    \/ \E c \in Cancels : FindTask(c) \/ KillTask(c)

TaskSpec == TaskInit /\ [][TaskNext]_taskvars

----------------------------------------------------------------------------
\* A task that has ended stays as it is, with two exceptions: a worker saves over a
\* kill which came after it had loaded, and cancel kills a completed task
\* (routes/tasks.ts:54), although task-fsm.ts:2 and :11 make completed terminal.
EndedTaskChanges ==
    [][\A i \in TaskIds : taskRow[i] \in {"completed", "killed"} /\ taskRow'[i] # taskRow[i] =>
          \/ taskRow'[i] = "killed" /\ \E c \in Cancels : cancel[c].at = "read" /\ cancel[c].id = i
          \/ i \in outdated']_taskvars

\* Created tasks do not get stuck: one that is pending or queued has a message
\* for a worker, unless its POST is still running or has failed.
WaitingHasMessage ==
    \A i \in TaskIds : taskRow[i] \in {"pending", "queued"} =>
        i \in taskMsgs \/ creating[i] \in {"enqueue", "threw"}

\* Tasks neither get lost before their end nor come back from it.
TasksKept == []WaitingHasMessage /\ EndedTaskChanges
=============================================================================
