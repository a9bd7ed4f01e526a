--------------------------- MODULE WorkflowEngine ---------------------------
(***************************************************************************)
(* SimpleWorkflowEngine                                                     *)
(* (src/collaboration/workflow/impl/simple-workflow.ts) with the in-process *)
(* event bus (src/kernel-impl/memory/event-bus.ts): one process executes    *)
(* the steps of its instances in order, saves an instance after every       *)
(* change, and lets human_review and wait_signal steps wait for the event   *)
(* that signal publishes.                                                   *)
(*                                                                          *)
(* executeStep is suspended at every await: at storage.set, whose write is  *)
(* visible to others before the engine goes on, or at eventBus.once.  The   *)
(* stored instance is a copy, as in Postgres.  A set may throw without      *)
(* writing.  When the process crashes, executions are gone and instances    *)
(* stay in storage as they are: nothing resumes them.                       *)
(***************************************************************************)
EXTENDS Naturals, Sequences, FiniteSets

CONSTANTS
    Instances,
    Definition,     \* the steps of each instance's workflow
    Signals,        \* the signals ever sent, each once
    Target,         \* the instance each signal is sent to
    None            \* storage's null

ASSUME WorkflowAssumption ==
    /\ Definition \in [Instances -> Seq({"task", "wait"})]
    /\ Target \in [Signals -> Instances]

VARIABLES
    store,      \* the saved instance, or None
    mem,        \* the instance object of its execution
    task,       \* where the execution is suspended
    sig,        \* signal calls
    seen        \* the state that signal's get found

vars == <<store, mem, task, sig, seen>>

States == {"running", "waiting_signal", "completed", "failed"}

\* "task" stands for agent_task, condition and parallel steps, which push a
\* result that depends on nothing.
Instance == [state : States, step : Nat, results : Seq(Signals \cup {"task"})]

\* storage's null and the result of a step that is no signal's are told apart
\* from the rest.
ASSUME NoneAssumption == None \notin Instance /\ "task" \notin Signals

Saving == {"created", "entered", "paused", "advanced", "finished", "failing"}
Awaits == [at : Saving, set : {"sent", "ok", "error"}]
          \cup [at : {"new", "once", "ended", "rejected", "gone"}, set : {"ok"}]

TypeOK ==
    /\ store \in [Instances -> Instance \cup {None}]
    /\ mem \in [Instances -> Instance]
    /\ task \in [Instances -> Awaits]
    /\ sig \in [Signals -> {"unsent", "found", "captured", "lost"}]
    /\ seen \in [Signals -> States \cup {None}]

Fresh == [state |-> "running", step |-> 0, results |-> <<>>]

Init ==
    /\ store = [i \in Instances |-> None]
    /\ mem = [i \in Instances |-> Fresh]
    /\ task = [i \in Instances |-> [at |-> "new", set |-> "ok"]]
    /\ sig = [s \in Signals |-> "unsent"]
    /\ seen = [s \in Signals |-> None]

----------------------------------------------------------------------------
\* The execution calls storage.set with object m and is suspended there.
Save(i, m, at) ==
    /\ mem' = [mem EXCEPT ![i] = m]
    /\ task' = [task EXCEPT ![i] = [at |-> at, set |-> "sent"]]
    /\ UNCHANGED <<store, sig, seen>>

Suspend(i, at) ==
    /\ task' = [task EXCEPT ![i] = [at |-> at, set |-> "ok"]]
    /\ UNCHANGED <<store, mem, sig, seen>>

Saved(i, places) == task[i].at \in places /\ task[i].set = "ok"

\* Storage has written the instance; the engine does not know yet.
Written(i) ==
    /\ task[i].set = "sent"
    /\ store' = [store EXCEPT ![i] = mem[i]]
    /\ task' = [task EXCEPT ![i].set = "ok"]
    /\ UNCHANGED <<mem, sig, seen>>

SetThrows(i) ==
    /\ task[i].set = "sent"
    /\ task' = [task EXCEPT ![i].set = "error"]
    /\ UNCHANGED <<store, mem, sig, seen>>

----------------------------------------------------------------------------
Start(i) ==
    /\ task[i].at = "new"
    /\ Save(i, Fresh, "created")

\* Mutant: the last step is entered as completed.
BeginStepCompleting(i) ==
    /\ Saved(i, {"created", "advanced"})
    /\ IF mem[i].step + 1 >= Len(Definition[i])
       THEN Save(i, [mem[i] EXCEPT !.state = "completed"],
                 IF mem[i].step < Len(Definition[i]) THEN "entered" ELSE "finished")
       ELSE Save(i, mem[i], "entered")

\* executeStep: complete the instance, or save that the step begins.
BeginStep(i) ==
    /\ Saved(i, {"created", "advanced"})
    /\ IF mem[i].step >= Len(Definition[i])
       THEN Save(i, [mem[i] EXCEPT !.state = "completed"], "finished")
       ELSE Save(i, mem[i], "entered")

\* The step is over: its result is pushed and the next one is due.
Advanced(m, result) ==
    [state |-> "running", step |-> m.step + 1, results |-> Append(m.results, result)]

\* Mutant: a waiting step pushes a result and goes on like any other.
RunStepNoWait(i) ==
    /\ Saved(i, {"entered"})
    /\ Save(i, Advanced(mem[i], "task"), "advanced")

\* executeStep: the switch on the type of the step.
RunStep(i) ==
    /\ Saved(i, {"entered"})
    /\ IF Definition[i][mem[i].step + 1] = "task"
       THEN Save(i, Advanced(mem[i], "task"), "advanced")
       ELSE Save(i, [mem[i] EXCEPT !.state = "waiting_signal"], "paused")

\* once subscribes and starts its timer, after the instance has been saved.
Once(i) ==
    /\ Saved(i, {"paused"})
    /\ Suspend(i, "once")

\* Mutant: a state nobody else knows.
FailInstanceUnknown(i) == Save(i, [mem[i] EXCEPT !.state = "error"], "failing")

\* executeStep rejects and failInstance saves the failure.
FailInstance(i) == Save(i, [mem[i] EXCEPT !.state = "failed"], "failing")

\* Mutant: once never rejects.
TimeoutNever(i) ==
    /\ task[i].at = "once"
    /\ Suspend(i, "once")

Timeout(i) ==
    /\ task[i].at = "once"
    /\ FailInstance(i)

\* A set of executeStep threw.
StepThrows(i) ==
    /\ task[i].at \in Saving \ {"created", "failing"} /\ task[i].set = "error"
    /\ FailInstance(i)

\* The set of startWorkflow or of failInstance threw: nobody goes on.
Rejects(i) ==
    /\ task[i].at \in {"created", "failing"} /\ task[i].set = "error"
    /\ Suspend(i, "rejected")

\* workflow.completed is published, and the execution ends; or a subscriber
\* throws in its handler, and a completed instance is failed.
Announce(i) ==
    /\ Saved(i, {"finished"})
    /\ Suspend(i, "ended") \/ FailInstance(i)

FailureSaved(i) ==
    /\ Saved(i, {"failing"})
    /\ Suspend(i, "ended")

----------------------------------------------------------------------------
\* signal: the get that finds the instance, or throws without one.
Signal(s) ==
    /\ sig[s] = "unsent" /\ store[Target[s]] # None
    /\ sig' = [sig EXCEPT ![s] = "found"]
    /\ seen' = [seen EXCEPT ![s] = store[Target[s]].state]
    /\ UNCHANGED <<store, mem, task>>

\* signal: publish calls the handlers subscribed now; once's handler clears the
\* timer, unsubscribes and lets the step go on.
Captured(s) ==
    /\ sig[s] = "found" /\ task[Target[s]].at = "once"
    /\ sig' = [sig EXCEPT ![s] = "captured"]
    /\ LET i == Target[s]
       IN  /\ mem' = [mem EXCEPT ![i] = Advanced(mem[i], s)]
           /\ task' = [task EXCEPT ![i] = [at |-> "advanced", set |-> "sent"]]
    /\ UNCHANGED <<store, seen>>

Lost(s) ==
    /\ sig[s] = "found" /\ task[Target[s]].at # "once"
    /\ sig' = [sig EXCEPT ![s] = "lost"]
    /\ UNCHANGED <<store, mem, task, seen>>

Publish(s) == Captured(s) \/ Lost(s)

\* The process crashes with its executions and restarts.
Crash ==
    /\ task' = [i \in Instances |->
                  IF task[i].at \in {"new", "ended", "rejected"} THEN task[i]
                  ELSE [at |-> "gone", set |-> "ok"]]
    /\ UNCHANGED <<store, mem, sig, seen>>

----------------------------------------------------------------------------
Engine(i) ==
    \/ Written(i) \/ BeginStep(i) \/ RunStep(i) \/ Once(i) \/ Timeout(i)
    \/ StepThrows(i) \/ Rejects(i) \/ Announce(i) \/ FailureSaved(i)

Next ==
    \/ \E i \in Instances : Start(i) \/ SetThrows(i) \/ Engine(i)
    \/ \E s \in Signals : Signal(s) \/ Publish(s)
    \/ Crash

Spec == Init /\ [][Next]_vars

\* The event loop goes on with an execution whose await is over: storage
\* answers and once's timer fires.
LiveSpec == Spec /\ \A i \in Instances : WF_vars(Engine(i))

----------------------------------------------------------------------------
\* An instance saved as completed has run all its steps in order, and every
\* waiting step has been ended by a signal of this instance, no signal two.
CompletedInFull ==
    \A i \in Instances : store[i] # None /\ store[i].state = "completed" =>
        LET r == store[i].results
        IN  /\ Len(r) = Len(Definition[i])
            /\ \A k \in DOMAIN r :
                  IF Definition[i][k] = "task" THEN r[k] = "task"
                  ELSE r[k] \in Signals /\ Target[r[k]] = i /\ sig[r[k]] = "captured"
            /\ \A k, l \in DOMAIN r : r[k] = r[l] /\ r[k] \in Signals => k = l

\* What has been saved of an instance's progress is never taken back, failed
\* saves and late timeouts included, and a result comes with its step.
ProgressKept ==
    [][\A i \in Instances : store[i] # None =>
          /\ store'[i] # None /\ store'[i].step = Len(store'[i].results)
          /\ store'[i].step \in {store[i].step, store[i].step + 1}
          /\ SubSeq(store'[i].results, 1, store[i].step) = store[i].results]_vars

\* A saved end is final, except that a completed instance is failed when the
\* announcement of its completion throws.
EndIsFinal ==
    [][\A i \in Instances :
          store[i] # None /\ store[i].state \in {"completed", "failed"} =>
              \/ store'[i] = store[i]
              \/ store[i].state = "completed" /\ store'[i].state = "failed"
                 /\ task[i].at = "failing"]_vars

\* Progress and ends are kept.
ProgressStands == ProgressKept /\ EndIsFinal

\* While the process runs, an instance that has started is saved as completed
\* or failed in the end, signals or no signals, or the save itself failed.  One
\* whose process ended is "gone" for good: initialize resumes none of them, although
\* PRD-openclaw-enterprise-architecture.md:1085 has the saved ones resumed.
Settles ==
    \A i \in Instances :
        []<>(\/ task[i].at = "ended" /\ store[i].state \in {"completed", "failed"}
             \/ task[i].at \in {"new", "rejected", "gone"})

\* tech-desigh.md:2590: the waiting step's once captures the signal's event.
WaitingCaptures == \A s \in Signals : sig[s] = "lost" => seen[s] # "waiting_signal"
=============================================================================
