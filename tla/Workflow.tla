------------------------------- MODULE Workflow -------------------------------
(***************************************************************************)
(* The workflow engine, pkg/workflow: Launch runs the tasks of a workflow  *)
(* one after the other, hands the output of each to the next, and records  *)
(* what happens in a row per session and a row per task.  Launches of the  *)
(* same workflow run at the same time, the workflow is updated under them, *)
(* their context is cancelled, and any command to the database may fail.   *)
(*                                                                         *)
(* The data that flows through the tasks is a number: 0 the input of       *)
(* Launch, k what the k-th task returned, -1 a nil map.                    *)
(***************************************************************************)
EXTENDS Integers, Sequences

CONSTANTS
    Sessions,       \* calls of Launch; the session of a call has its name
    Names,          \* the names of tasks
    KindOf,         \* what RegisterTaskFactory registered for a name:
                    \* "plain", "retry", "parallel", or "unknown"
    Flows,          \* the task lists a workflow may be given
    MaxRetries,     \* RetryableTask.MaxRetries
    Parts,          \* the number of tasks of a ParallelTask
    MaxFaults,      \* bound: commands that fail
    Cancellable     \* bound: the sessions whose context may be cancelled

ASSUME WorkflowAssumption ==
    /\ KindOf \in [Names -> {"plain", "retry", "parallel", "unknown"}]
    /\ Flows \subseteq Seq(Names)
    /\ MaxRetries \in Nat /\ Parts \in Nat /\ MaxFaults \in Nat

VARIABLES
    flow,       \* database: TaskNames of the workflow
    sess,       \* database: the row of each session
    rows,       \* database: the task rows of each session, in order
    run,        \* the goroutine of each Launch
    cancelled,  \* the contexts that were cancelled
    faults,     \* bound: commands that failed so far
    disturbed   \* history: the sessions one of whose commands failed

vars == <<flow, sess, rows, run, cancelled, faults, disturbed>>

NoRow == [status |-> "none", names |-> <<>>, index |-> 0, output |-> 0]

Init ==
    /\ flow \in Flows
    /\ sess = [s \in Sessions |-> NoRow]
    /\ rows = [s \in Sessions |-> <<>>]
    /\ run = [s \in Sessions |->
                [at |-> "idle", names |-> <<>>, i |-> 0, data |-> 0, err |-> FALSE,
                 tries |-> 0, left |-> 0]]
    /\ cancelled = {}
    /\ faults = 0
    /\ disturbed = {}

-----------------------------------------------------------------------------
(* The environment.                                                         *)

(* External: what a command to the database answers and whether it is       *)
(* carried out; one whose answer is an error may have been.                 *)
Answers(s) ==
    IF s \in cancelled THEN {[ok |-> FALSE, done |-> FALSE]}
    ELSE {[ok |-> TRUE, done |-> TRUE]}
         \cup {a \in [ok : {FALSE}, done : BOOLEAN] : faults < MaxFaults}

Disturb(s, a) ==
    /\ faults' = IF a.ok \/ s \in cancelled THEN faults ELSE faults + 1
    /\ disturbed' = IF a.ok THEN disturbed ELSE disturbed \cup {s}

Cancel(s) ==
    /\ run[s].at \notin {"idle", "returned", "panicked"}
    /\ s \in Cancellable \ cancelled
    /\ cancelled' = cancelled \cup {s}
    /\ UNCHANGED <<flow, sess, rows, run, faults, disturbed>>

Update ==
    /\ \E f \in Flows \ {flow} : flow' = f
    /\ UNCHANGED <<sess, rows, run, cancelled, faults, disturbed>>

-----------------------------------------------------------------------------
(* Launch.                                                                  *)

At(s, at) == run[s].at = at

(* A break out of the loop of run, with or without an error.                *)
Finishing(s, err) == [run[s] EXCEPT !.at = "finish", !.err = err]

Launch(s) ==
    /\ At(s, "idle")
    /\ \E a \in Answers(s) :
       /\ run' = [run EXCEPT ![s].at = IF a.ok THEN "session" ELSE "returned",
                             ![s].names = IF a.ok THEN flow ELSE <<>>]
       /\ Disturb(s, a)
    /\ UNCHANGED <<flow, sess, rows, cancelled>>

startSession(s) ==
    /\ At(s, "session")
    /\ \E a \in Answers(s) :
       /\ sess' = IF a.done
                  THEN [sess EXCEPT ![s].status = "running", ![s].names = run[s].names]
                  ELSE sess
       /\ run' = [run EXCEPT ![s].at = IF a.ok THEN "loop" ELSE "returned"]
       /\ Disturb(s, a)
    /\ UNCHANGED <<flow, rows, cancelled>>

(* The head of the loop: past the last task, or ctx.Err().                  *)
LoopEnds(s) ==
    /\ At(s, "loop")
    /\ \/ run[s].i = Len(run[s].names)
       \/ s \in cancelled
    /\ run' = [run EXCEPT ![s] = Finishing(s, run[s].i < Len(run[s].names))]
    /\ UNCHANGED <<flow, sess, rows, cancelled, faults, disturbed>>

(* A context cancelled after the command and before the join with ctx.Err() *)
(* is seen by the command that follows, with the same effect.               *)
stepForword(s) ==
    /\ At(s, "loop")
    /\ run[s].i < Len(run[s].names)
    /\ s \notin cancelled
    /\ \E a \in Answers(s) :
       /\ sess' = IF a.done THEN [sess EXCEPT ![s].index = run[s].i] ELSE sess
       /\ run' = [run EXCEPT ![s] = IF a.ok THEN [@ EXCEPT !.at = "task"]
                                            ELSE Finishing(s, TRUE)]
       /\ Disturb(s, a)
    /\ UNCHANGED <<flow, rows, cancelled>>

(* Mutant: every task is given the input of Launch.                         *)
NewTaskRowOfInput(s, name) ==
    [name |-> name, input |-> 0, output |-> 0, status |-> "running"]

NewTaskRow(s, name) ==
    [name |-> name, input |-> run[s].data, output |-> 0, status |-> "running"]

(* Mutant: the task's name is looked up in the workflow as it is now.       *)
startTaskOfFlow(s) ==
    /\ At(s, "task")
    /\ \E a \in Answers(s) :
       LET i == run[s].i + 1
           name == IF i <= Len(flow) THEN flow[i] ELSE run[s].names[i]
       IN  /\ rows' = IF a.done THEN [rows EXCEPT ![s] = Append(@, NewTaskRow(s, name))]
                                ELSE rows
           /\ run' = [run EXCEPT ![s] = IF a.ok THEN [@ EXCEPT !.at = "created"]
                                                ELSE Finishing(s, TRUE)]
           /\ Disturb(s, a)
    /\ UNCHANGED <<flow, sess, cancelled>>

startTask(s) ==
    /\ At(s, "task")
    /\ \E a \in Answers(s) :
       /\ rows' = IF a.done
                  THEN [rows EXCEPT ![s] =
                            Append(@, NewTaskRow(s, run[s].names[run[s].i + 1]))]
                  ELSE rows
       /\ run' = [run EXCEPT ![s] = IF a.ok THEN [@ EXCEPT !.at = "created"]
                                            ELSE Finishing(s, TRUE)]
       /\ Disturb(s, a)
    /\ UNCHANGED <<flow, sess, cancelled>>

-----------------------------------------------------------------------------
(* execute.                                                                 *)

taskRow(s) == rows[s][Len(rows[s])]

Kind(s) == KindOf[taskRow(s).name]

(* The check of ctx.Err() after startTask, then NewTask, which panics when  *)
(* no factory has the name.                                                 *)
NewTask(s) ==
    /\ At(s, "created")
    /\ run' = [run EXCEPT ![s] =
                IF s \in cancelled THEN Finishing(s, TRUE)
                ELSE [@ EXCEPT !.at = CASE Kind(s) = "unknown" -> "panicked"
                                        [] Kind(s) = "parallel" -> "parts"
                                        [] OTHER -> "attempt",
                               !.tries = 0, !.left = Parts, !.err = FALSE]]
    /\ UNCHANGED <<flow, sess, rows, cancelled, faults, disturbed>>

(* The task returned: run keeps what it returned, execute still knows       *)
(* whether that was an error.  With an error the output is up to the task.  *)
Returned(s, ok) ==
    {[run[s] EXCEPT !.at = "save", !.err = ~ok, !.data = d] :
        d \in IF ok THEN {run[s].i + 1} ELSE {-1, run[s].i + 1}}

(* Mutant: the retries are not counted.                                     *)
AttemptForever(s) ==
    /\ At(s, "attempt")
    /\ \E ok \in BOOLEAN :
       \/ run' \in {[run EXCEPT ![s] = r] : r \in Returned(s, ok)}
       \/ ~ok /\ Kind(s) = "retry" /\ run' = [run EXCEPT ![s].tries = 1 - @]
    /\ UNCHANGED <<flow, sess, rows, cancelled, faults, disturbed>>

(* One call of Task.Execute.  Whether the first error is retryable is up to *)
(* Retryable; the retries ask neither it nor the context.                   *)
Attempt(s) ==
    /\ At(s, "attempt")
    /\ \E ok, retryable \in BOOLEAN :
       IF /\ ~ok
          /\ Kind(s) = "retry"
          /\ IF run[s].tries = 0 THEN retryable ELSE TRUE
          /\ run[s].tries < MaxRetries
       THEN run' = [run EXCEPT ![s].tries = @ + 1]
       ELSE \E r \in Returned(s, ok) : run' = [run EXCEPT ![s] = r]
    /\ UNCHANGED <<flow, sess, rows, cancelled, faults, disturbed>>

(* A goroutine of the errgroup ends, and its output fits the channel.       *)
PartEnds(s) ==
    /\ At(s, "parts")
    /\ run[s].left > 0
    /\ \E ok \in BOOLEAN :
       run' = [run EXCEPT ![s].left = @ - 1, ![s].err = @ \/ ~ok]
    /\ UNCHANGED <<flow, sess, rows, cancelled, faults, disturbed>>

(* g.Wait().  Without an error the outputs are read from a channel that     *)
(* only the deferred call closes: "merge" is left by nothing.               *)
Wait(s) ==
    /\ At(s, "parts")
    /\ run[s].left = 0
    /\ run' = [run EXCEPT ![s] = IF @.err THEN [@ EXCEPT !.at = "save", !.data = -1]
                                          ELSE [@ EXCEPT !.at = "merge"]]
    /\ UNCHANGED <<flow, sess, rows, cancelled, faults, disturbed>>

Saved(s) ==
    [rows EXCEPT ![s][Len(rows[s])] =
        IF run[s].err THEN [@ EXCEPT !.status = "fail"]
        ELSE [@ EXCEPT !.status = "success", !.output = run[s].data]]

(* Mutant: the error of a task ends Launch at once.                         *)
SaveTaskReturns(s) ==
    /\ At(s, "save")
    /\ \E a \in Answers(s) :
       /\ rows' = IF a.done THEN Saved(s) ELSE rows
       /\ run' = [run EXCEPT ![s] =
                    IF @.err THEN [@ EXCEPT !.at = "returned"]
                    ELSE IF a.ok THEN [@ EXCEPT !.at = "loop", !.i = @ + 1]
                    ELSE Finishing(s, TRUE)]
       /\ Disturb(s, a)
    /\ UNCHANGED <<flow, sess, cancelled>>

(* The end of execute: its result is the error of the update alone, that of *)
(* the task is overwritten.                                                 *)
SaveTask(s) ==
    /\ At(s, "save")
    /\ \E a \in Answers(s) :
       /\ rows' = IF a.done THEN Saved(s) ELSE rows
       /\ run' = [run EXCEPT ![s] =
                    IF a.ok THEN [@ EXCEPT !.at = "loop", !.i = run[s].i + 1, !.err = FALSE]
                    ELSE Finishing(s, TRUE)]
       /\ Disturb(s, a)
    /\ UNCHANGED <<flow, sess, cancelled>>

finish(s) ==
    /\ At(s, "finish")
    /\ \E a \in Answers(s) :
       /\ sess' = IF ~a.done THEN sess
                  ELSE IF run[s].err THEN [sess EXCEPT ![s].status = "fail"]
                  ELSE [sess EXCEPT ![s].status = "success", ![s].output = run[s].data]
       /\ run' = [run EXCEPT ![s].at = "returned"]
       /\ Disturb(s, a)
    /\ UNCHANGED <<flow, rows, cancelled>>

-----------------------------------------------------------------------------
Work(s) ==
    \/ startSession(s) \/ LoopEnds(s) \/ stepForword(s) \/ startTask(s)
    \/ NewTask(s) \/ Attempt(s) \/ PartEnds(s) \/ Wait(s)
    \/ SaveTask(s) \/ finish(s)

Next ==
    \/ Update
    \/ \E s \in Sessions : Launch(s) \/ Cancel(s) \/ Work(s)

Spec == Init /\ [][Next]_vars

(* The runtime schedules every goroutine; a task that is run returns.       *)
FairSpec == Spec /\ \A s \in Sessions : WF_vars(Work(s))

-----------------------------------------------------------------------------
SessionRows == [status : {"none", "running", "success", "fail"},
                names : Flows \cup {<<>>}, index : Nat, output : Int]

TaskRows == [name : Names, input : Int, output : Int,
             status : {"running", "success", "fail"}]

RunStates == [at : {"idle", "session", "loop", "task", "created", "attempt",
                    "parts", "merge", "save", "finish", "returned", "panicked"},
              names : Flows \cup {<<>>}, i : Nat, data : Int, err : BOOLEAN,
              tries : 0 .. MaxRetries, left : 0 .. Parts]

TypeOK ==
    /\ flow \in Flows
    /\ sess \in [Sessions -> SessionRows]
    /\ rows \in [Sessions -> Seq(TaskRows)]
    /\ run \in [Sessions -> RunStates]
    /\ cancelled \subseteq Sessions
    /\ disturbed \subseteq Sessions

(* What whoever lists the tasks of a session sees of them.                  *)
Listed(q) == [k \in DOMAIN q |-> [name |-> q[k].name, status |-> q[k].status]]

Life == INSTANCE WorkflowLife WITH
    Plans <- Flows,
    status <- [s \in Sessions |-> sess[s].status],
    plan <- [s \in Sessions |-> sess[s].names],
    tasks <- [s \in Sessions |-> Listed(rows[s])]

(* The rows that Launch writes keep the promise of WorkflowLife, whatever   *)
(* is updated, cancelled or fails meanwhile: one task at a time in the      *)
(* order of the copy of the task list (the field TaskNames of a session),   *)
(* no task without the result of the one before, no session that succeeds   *)
(* short of a result or changes after its end.                              *)
ImplementsLife == Life!LifeInit /\ [][Life!LifeNext]_(Life!lifeVars)

(* A task is given what the task before it returned, and the first one the  *)
(* input of Launch; where the rows record an output, the next input and the *)
(* output of the session equal it.                                          *)
DataFlows ==
    \A s \in Sessions :
        LET n == Len(rows[s]) IN
        /\ n > 0 => rows[s][1].input = 0
        /\ \A k \in 1 .. n - 1 :
              rows[s][k].status = "success" => rows[s][k + 1].input = rows[s][k].output
        /\ n > 0 /\ sess[s].status = "success" /\ rows[s][n].status = "success"
              => sess[s].output = rows[s][n].output

(* A Launch that returned leaves its session in the state "running" only if *)
(* one of its own commands failed or its context was cancelled; failing     *)
(* tasks and other launches do not do that.                                 *)
FinalUnlessDisturbed ==
    \A s \in Sessions :
        /\ run[s].at = "returned"
        /\ s \notin disturbed \cup cancelled
        => sess[s].status \in {"success", "fail"}

Pending(s) == run[s].at \notin {"idle", "returned", "panicked", "merge"}

(* Launch comes to an end, retries included, unless a task panics or all    *)
(* tasks of a ParallelTask succeed.                                         *)
LaunchReturns == \A s \in Sessions : Pending(s) ~> ~Pending(s)

(* A ParallelTask ends and hands on the outputs of its tasks, as the        *)
(* comment on the type has it (task.go:65).                                 *)
ParallelTaskReturns == \A s \in Sessions : At(s, "parts") ~> At(s, "save")
=============================================================================
