----------------------------- MODULE WorkflowLife -----------------------------
(***************************************************************************)
(* What the tables workflow_sessions and workflow_session_tasks promise to *)
(* whoever lists them: a session is opened with a copy of the task list,   *)
(* its tasks are begun one after the other in that order, none before the  *)
(* previous one has its result, a session succeeds only when every task    *)
(* has a result, and a session that ended does not change any more.        *)
(***************************************************************************)
EXTENDS Naturals, Sequences

CONSTANTS Sessions, Plans    \* the task lists a workflow may have

VARIABLES
    status,     \* of each session
    plan,       \* the task list a session was opened with
    tasks       \* the tasks begun: name and status

lifeVars == <<status, plan, tasks>>

LifeInit ==
    /\ status = [s \in Sessions |-> "none"]
    /\ plan = [s \in Sessions |-> <<>>]
    /\ tasks = [s \in Sessions |-> <<>>]

Open(s) ==
    /\ status[s] = "none"
    /\ \E p \in Plans : plan' = [plan EXCEPT ![s] = p]
    /\ status' = [status EXCEPT ![s] = "running"]
    /\ UNCHANGED tasks

HaveResults(s) == \A k \in DOMAIN tasks[s] : tasks[s][k].status # "running"

Begin(s) ==
    /\ status[s] = "running"
    /\ HaveResults(s)
    /\ Len(tasks[s]) < Len(plan[s])
    /\ tasks' = [tasks EXCEPT ![s] =
                    Append(@, [name |-> plan[s][Len(@) + 1], status |-> "running"])]
    /\ UNCHANGED <<status, plan>>

End(s) ==
    /\ status[s] = "running"
    /\ tasks[s] # <<>>
    /\ LET k == Len(tasks[s]) IN
       /\ tasks[s][k].status = "running"
       /\ \E r \in {"success", "fail"} : tasks' = [tasks EXCEPT ![s][k].status = r]
    /\ UNCHANGED <<status, plan>>

Close(s) ==
    /\ status[s] = "running"
    /\ \/ status' = [status EXCEPT ![s] = "fail"]
       \/ /\ Len(tasks[s]) = Len(plan[s])
          /\ HaveResults(s)
          /\ status' = [status EXCEPT ![s] = "success"]
    /\ UNCHANGED <<plan, tasks>>

LifeNext == \E s \in Sessions : Open(s) \/ Begin(s) \/ End(s) \/ Close(s)

LifeSpec == LifeInit /\ [][LifeNext]_lifeVars
=============================================================================
