------------------------------ MODULE PartsProofs ------------------------------
(***************************************************************************)
(* Proofs about the parts that stand alone.  First the workflow engine:    *)
(* Workflow implements WorkflowLife, and what it records of the data and   *)
(* of the end of a session is right, for any number of launches, task      *)
(* lists, retries, failing commands and cancelled contexts.  Then the      *)
(* parts of MCParts, with theorems about PartsSpec, in which a behaviour   *)
(* belongs to one of them.                                                 *)
(***************************************************************************)
EXTENDS Workflow, MCParts, FiniteSetTheorems, TLAPS

-----------------------------------------------------------------------------
(* Listed.                                                                  *)

ListedTasks == [name : Names, status : {"running", "success", "fail"}]

LEMMA ListedSeq ==
    ASSUME NEW q \in Seq(TaskRows)
    PROVE  /\ Listed(q) \in Seq(ListedTasks)
           /\ Len(Listed(q)) = Len(q)
           /\ \A k \in 1 .. Len(q) :
                 Listed(q)[k] = [name |-> q[k].name, status |-> q[k].status]
<1>1. DOMAIN q = 1 .. Len(q) /\ Len(q) \in Nat
  OBVIOUS
<1>2. \A k \in 1 .. Len(q) : q[k] \in TaskRows
  OBVIOUS
<1>3. \A k \in 1 .. Len(q) :
          [name |-> q[k].name, status |-> q[k].status] \in ListedTasks
  BY <1>2 DEF TaskRows, ListedTasks
<1> QED
  BY <1>1, <1>3 DEF Listed

LEMMA ListedStatus ==
    ASSUME NEW q \in Seq(TaskRows)
    PROVE  /\ Len(Listed(q)) = Len(q) /\ DOMAIN Listed(q) = 1 .. Len(q)
           /\ \A k \in 1 .. Len(q) : Listed(q)[k].status = q[k].status
<1>1. ASSUME NEW k \in 1 .. Len(q) PROVE Listed(q)[k].status = q[k].status
  <2>1. Listed(q)[k] = [name |-> q[k].name, status |-> q[k].status]
    BY ListedSeq
  <2> QED
    BY <2>1
<1>2. Len(Listed(q)) = Len(q)
  BY ListedSeq
<1>3. DOMAIN q = 1 .. Len(q)
  OBVIOUS
<1>4. DOMAIN Listed(q) = 1 .. Len(q)
  BY <1>3 DEF Listed
<1> QED
  BY <1>1, <1>2, <1>4

LEMMA ListedAppend ==
    ASSUME NEW q \in Seq(TaskRows), NEW r \in TaskRows
    PROVE  Listed(Append(q, r)) = Append(Listed(q), [name |-> r.name, status |-> r.status])
<1> DEFINE t == [name |-> r.name, status |-> r.status]
<1>1. Append(q, r) \in Seq(TaskRows) /\ Len(Append(q, r)) = Len(q) + 1
  OBVIOUS
<1>2. t \in ListedTasks
  BY DEF TaskRows, ListedTasks
<1> HIDE DEF t
<1>3. /\ Append(Listed(q), t) \in Seq(ListedTasks)
      /\ Len(Append(Listed(q), t)) = Len(q) + 1
  BY <1>2, ListedSeq
<1>4. /\ Listed(Append(q, r)) \in Seq(ListedTasks)
      /\ Len(Listed(Append(q, r))) = Len(q) + 1
  BY <1>1, ListedSeq
<1>5. ASSUME NEW k \in 1 .. Len(q) + 1
      PROVE  Listed(Append(q, r))[k] = Append(Listed(q), t)[k]
  <2>1. CASE k = Len(q) + 1
    <3>1. Append(q, r)[k] = r
      BY <2>1
    <3>2. Append(Listed(q), t)[k] = t
      BY <2>1, ListedSeq
    <3>3. Listed(Append(q, r))[k] = [name |-> Append(q, r)[k].name, status |-> Append(q, r)[k].status]
      BY <1>1, ListedSeq
    <3> QED
      BY <3>1, <3>2, <3>3 DEF t
  <2>2. CASE k # Len(q) + 1
    <3>0. k \in 1 .. Len(q)
      BY <2>2
    <3>1. Append(q, r)[k] = q[k]
      BY <3>0
    <3>2. Append(Listed(q), t)[k] = Listed(q)[k]
      BY <3>0, ListedSeq
    <3>3. Listed(Append(q, r))[k] = [name |-> Append(q, r)[k].name, status |-> Append(q, r)[k].status]
      BY <1>1, ListedSeq
    <3>4. Listed(q)[k] = [name |-> q[k].name, status |-> q[k].status]
      BY <3>0, ListedSeq
    <3> QED
      BY <3>1, <3>2, <3>3, <3>4
  <2> QED
    BY <2>1, <2>2
<1>6. Listed(Append(q, r)) = Append(Listed(q), t)
  BY <1>3, <1>4, <1>5
<1> QED
  BY <1>6 DEF t

(* A new last row with the name of the old one.                             *)
LEMMA ListedExcept ==
    ASSUME NEW q \in Seq(TaskRows), Len(q) > 0, NEW r \in TaskRows, r.name = q[Len(q)].name
    PROVE  Listed([q EXCEPT ![Len(q)] = r]) = [Listed(q) EXCEPT ![Len(q)].status = r.status]
<1> DEFINE n == Len(q)
           q1 == [q EXCEPT ![n] = r]
           v1 == [Listed(q) EXCEPT ![n].status = r.status]
<1>1. n \in Nat /\ n \in 1 .. n /\ q1 \in Seq(TaskRows) /\ Len(q1) = n
  OBVIOUS
<1>2. \A k \in 1 .. n : q1[k] = IF k = n THEN r ELSE q[k]
  OBVIOUS
<1>3. DOMAIN Listed(q) = 1 .. n /\ DOMAIN Listed(q1) = 1 .. n
  <2>1. DOMAIN q = 1 .. n /\ DOMAIN q1 = 1 .. n
    BY <1>1
  <2> QED
    BY <2>1 DEF Listed
<1>4. \A k \in 1 .. n : v1[k] = IF k = n THEN [Listed(q)[n] EXCEPT !.status = r.status]
                                ELSE Listed(q)[k]
  BY <1>1, <1>3
<1>5. \A k \in 1 .. n : Listed(q1)[k] = [name |-> q1[k].name, status |-> q1[k].status]
  BY <1>1, ListedSeq
<1>6. \A k \in 1 .. n : Listed(q)[k] = [name |-> q[k].name, status |-> q[k].status]
  BY <1>1, ListedSeq
<1>7. [Listed(q)[n] EXCEPT !.status = r.status] = [name |-> r.name, status |-> r.status]
  <2>1. Listed(q)[n] = [name |-> q[n].name, status |-> q[n].status]
    BY <1>1, <1>6
  <2> QED
    BY <2>1
<1> HIDE DEF v1, q1
<1>8. ASSUME NEW k \in 1 .. n PROVE Listed(q1)[k] = v1[k]
  <2>1. Listed(q1)[k] = [name |-> q1[k].name, status |-> q1[k].status]
    BY <1>5
  <2>2. CASE k = n
    <3>1. q1[k] = r
      BY <1>2, <2>2
    <3>2. v1[k] = [name |-> r.name, status |-> r.status]
      BY <1>4, <1>7, <2>2
    <3> QED
      BY <2>1, <3>1, <3>2
  <2>3. CASE k # n
    <3>1. q1[k] = q[k]
      BY <1>2, <2>3
    <3>2. v1[k] = [name |-> q[k].name, status |-> q[k].status]
      BY <1>4, <1>6, <2>3
    <3> QED
      BY <2>1, <3>1, <3>2
  <2> QED
    BY <2>2, <2>3
<1>9. Listed(q1) = [k \in 1 .. n |-> Listed(q1)[k]]
  BY <1>3 DEF Listed
<1>10. v1 = [k \in 1 .. n |-> v1[k]]
  BY <1>3 DEF v1
<1>11. Listed(q1) = v1
  BY <1>8, <1>9, <1>10
<1> QED
  BY <1>11 DEF q1, v1
-----------------------------------------------------------------------------
(* The inductive invariant.                                                 *)

Underway == {"loop", "task", "created", "attempt", "parts", "merge", "save", "finish",
             "panicked"}
Executing == {"created", "attempt", "parts", "merge", "save", "panicked"}

(* The first n tasks have a result.                                         *)
Results(s, n) == \A k \in 1 .. n : rows[s][k].status # "running"

(* What Launch will hand to the next task is what the last row records.     *)
DataKnown(s) ==
    /\ Len(rows[s]) = 0 => run[s].data = 0
    /\ Len(rows[s]) > 0 /\ rows[s][Len(rows[s])].status = "success"
          => run[s].data = rows[s][Len(rows[s])].output

(* How the rows follow the goroutine.                                       *)
Phase(s) ==
    /\ run[s].at \in {"idle", "session"} =>
          sess[s].status = "none" /\ rows[s] = <<>> /\ run[s].i = 0 /\ run[s].data = 0
    /\ run[s].at = "session" => run[s].names \in Flows
    /\ run[s].at \in Underway =>
          /\ sess[s].status = "running"
          /\ sess[s].names = run[s].names /\ run[s].names \in Flows
    /\ run[s].at \in {"loop", "task"} =>
          /\ Len(rows[s]) = run[s].i /\ run[s].i <= Len(run[s].names)
          /\ Results(s, run[s].i) /\ DataKnown(s)
    /\ run[s].at = "task" => run[s].i < Len(run[s].names)
    /\ run[s].at \in Executing =>
          /\ Len(rows[s]) = run[s].i + 1 /\ run[s].i < Len(run[s].names)
          /\ Results(s, run[s].i) /\ rows[s][run[s].i + 1].status = "running"
    /\ run[s].at = "finish" /\ ~run[s].err =>
          /\ Len(rows[s]) = Len(run[s].names)
          /\ Results(s, Len(rows[s])) /\ DataKnown(s)

(* The input of each task, and the output of the session.                   *)
Inputs(s) ==
    /\ Len(rows[s]) > 0 => rows[s][1].input = 0
    /\ \A k \in 1 .. Len(rows[s]) - 1 :
          rows[s][k].status = "success" => rows[s][k + 1].input = rows[s][k].output

Ended(s) ==
    /\ run[s].at = "returned" /\ s \notin disturbed \cup cancelled
          => sess[s].status \in {"success", "fail"}
    /\ sess[s].status = "success" /\ Len(rows[s]) > 0
       /\ rows[s][Len(rows[s])].status = "success"
          => sess[s].output = rows[s][Len(rows[s])].output

Inv == TypeOK /\ \A s \in Sessions : Phase(s) /\ Inputs(s) /\ Ended(s)

(* One step of Workflow is one of WorkflowLife, or none.                    *)
LifeStep == [Life!LifeNext]_(Life!lifeVars)

LEMMA Typed ==
    ASSUME TypeOK, NEW s \in Sessions
    PROVE  /\ run[s] \in RunStates /\ sess[s] \in SessionRows
           /\ rows[s] \in Seq(TaskRows) /\ Len(rows[s]) \in Nat
BY DEF TypeOK

LEMMA InitInv == Init => Inv /\ Life!LifeInit
<1> SUFFICES ASSUME Init PROVE Inv /\ Life!LifeInit
  OBVIOUS
<1>1. TypeOK
  <2>1. NoRow \in SessionRows
    BY DEF NoRow, SessionRows
  <2>2. [at |-> "idle", names |-> <<>>, i |-> 0, data |-> 0, err |-> FALSE,
         tries |-> 0, left |-> 0] \in RunStates
    BY WorkflowAssumption DEF RunStates
  <2> QED
    BY <2>1, <2>2 DEF Init, TypeOK
<1>2. ASSUME NEW s \in Sessions PROVE Phase(s) /\ Inputs(s) /\ Ended(s)
  BY DEF Init, NoRow, Phase, Inputs, Ended, Underway, Executing
<1>3. \A s \in Sessions : sess[s].status = "none" /\ sess[s].names = <<>>
  BY DEF Init, NoRow
<1>4. \A s \in Sessions : Listed(rows[s]) = <<>>
  <2>1. <<>> \in Seq(TaskRows) /\ Len(<<>>) = 0
    OBVIOUS
  <2>2. Listed(<<>>) \in Seq(ListedTasks) /\ Len(Listed(<<>>)) = 0
    BY <2>1, ListedSeq
  <2>3. Listed(<<>>) = <<>>
    BY <2>2
  <2> QED
    BY <2>3 DEF Init
<1>5. Life!LifeInit
  BY <1>3, <1>4 DEF Life!LifeInit
<1> QED
  BY <1>1, <1>2, <1>5 DEF Inv

(* A step of one session leaves the others alone.                           *)
LEMMA OneSession ==
    ASSUME Inv, TypeOK', NEW s \in Sessions, UNCHANGED cancelled,
           \A d \in Sessions \ {s} :
               /\ run'[d] = run[d] /\ sess'[d] = sess[d] /\ rows'[d] = rows[d]
               /\ d \in disturbed' <=> d \in disturbed,
           Phase(s)', Inputs(s)', Ended(s)'
    PROVE  Inv'
<1>1. ASSUME NEW d \in Sessions, d # s PROVE Phase(d)' /\ Inputs(d)' /\ Ended(d)'
  <2>1. Phase(d) /\ Inputs(d) /\ Ended(d)
    BY DEF Inv
  <2>2. /\ run'[d] = run[d] /\ sess'[d] = sess[d] /\ rows'[d] = rows[d]
        /\ d \in disturbed' <=> d \in disturbed
    BY <1>1
  <2>3. Phase(d)'
    BY <2>1, <2>2 DEF Phase, Results, DataKnown
  <2>4. Inputs(d)' /\ Ended(d)'
    BY <2>1, <2>2 DEF Inputs, Ended
  <2> QED
    BY <2>3, <2>4
<1> QED
  BY <1>1 DEF Inv

LEMMA Stutters ==
    ASSUME UNCHANGED rows,
           \A s \in Sessions : sess'[s].status = sess[s].status /\ sess'[s].names = sess[s].names
    PROVE  LifeStep
BY DEF LifeStep, Life!lifeVars

LEMMA Disturbs ==
    ASSUME TypeOK, NEW s \in Sessions, NEW a \in Answers(s), Disturb(s, a)
    PROVE  /\ disturbed' \subseteq Sessions
           /\ \A d \in Sessions \ {s} : d \in disturbed' <=> d \in disturbed
           /\ ~a.ok => s \in disturbed'
           /\ a.ok => a.done
<1>1. a = [ok |-> TRUE, done |-> TRUE] \/ a.ok = FALSE
  <2>1. \/ a = [ok |-> TRUE, done |-> TRUE] \/ a = [ok |-> FALSE, done |-> FALSE]
        \/ a \in [ok : {FALSE}, done : BOOLEAN]
    BY Zenon DEF Answers
  <2>2. CASE a = [ok |-> FALSE, done |-> FALSE]
    BY <2>2
  <2>3. CASE a \in [ok : {FALSE}, done : BOOLEAN]
    BY <2>3
  <2> QED
    BY <2>1, <2>2, <2>3
<1>2. disturbed' = IF a.ok THEN disturbed ELSE disturbed \cup {s}
  BY DEF Disturb
<1>3. disturbed \subseteq Sessions
  BY DEF TypeOK
<1> QED
  BY <1>1, <1>2, <1>3

LEMMA Finished ==
    ASSUME NEW s \in Sessions, run[s] \in RunStates, NEW e \in BOOLEAN
    PROVE  /\ Finishing(s, e) \in RunStates
           /\ Finishing(s, e).at = "finish" /\ Finishing(s, e).err = e
           /\ Finishing(s, e).i = run[s].i /\ Finishing(s, e).data = run[s].data
           /\ Finishing(s, e).names = run[s].names
BY DEF Finishing, RunStates

(* A step that neither begins nor ends a task, and does not end the session. *)
LEMMA Quiet ==
    ASSUME Inv, NEW s \in Sessions, NEW r \in RunStates,
           run' = [run EXCEPT ![s] = r],
           UNCHANGED <<flow, rows, cancelled>>,
           sess' = sess \/ \E n \in Nat : sess' = [sess EXCEPT ![s].index = n],
           disturbed' \subseteq Sessions,
           \A d \in Sessions \ {s} : d \in disturbed' <=> d \in disturbed,
           run[s].at \in Underway, r.names = run[s].names, r.i = run[s].i,
           \/ run[s].at \in Executing /\ r.at \in Executing
           \/ /\ run[s].at = "loop" /\ r.at = "task"
              /\ r.i < Len(r.names) /\ r.data = run[s].data
           \/ r.at = "finish" /\ r.err
           \/ /\ run[s].at = "loop" /\ r.at = "finish"
              /\ r.i = Len(r.names) /\ r.data = run[s].data
    PROVE  Inv' /\ LifeStep
<1>1. /\ run' \in [Sessions -> RunStates] /\ run'[s] = r
      /\ \A d \in Sessions \ {s} : run'[d] = run[d]
  BY DEF Inv, TypeOK
<1>2. /\ sess' \in [Sessions -> SessionRows]
      /\ sess'[s].status = sess[s].status /\ sess'[s].names = sess[s].names
      /\ sess'[s].output = sess[s].output
      /\ \A d \in Sessions \ {s} : sess'[d] = sess[d]
  <2>1. CASE sess' = sess
    BY <2>1 DEF Inv, TypeOK
  <2>2. ASSUME NEW n \in Nat, sess' = [sess EXCEPT ![s].index = n]
        PROVE  /\ sess' \in [Sessions -> SessionRows]
               /\ sess'[s].status = sess[s].status /\ sess'[s].names = sess[s].names
               /\ sess'[s].output = sess[s].output
               /\ \A d \in Sessions \ {s} : sess'[d] = sess[d]
    <3>1. sess[s] \in SessionRows /\ sess \in [Sessions -> SessionRows]
      BY DEF Inv, TypeOK
    <3>2. [sess[s] EXCEPT !.index = n] \in SessionRows
      BY <3>1 DEF SessionRows
    <3>3. sess' \in [Sessions -> SessionRows]
      BY <2>2, <3>1, <3>2
    <3> QED
      BY <2>2, <3>1, <3>3 DEF SessionRows
  <2> QED
    BY <2>1, <2>2
<1>3. TypeOK'
  BY <1>1, <1>2 DEF Inv, TypeOK
<1>4. Phase(s) /\ Inputs(s) /\ Ended(s)
  BY DEF Inv
<1>5. Phase(s)'
  <2>1. rows'[s] = rows[s]
    OBVIOUS
  <2>2. sess[s].status = "running" /\ sess[s].names = run[s].names /\ run[s].names \in Flows
    BY <1>4 DEF Phase
  <2>3. CASE run[s].at \in Executing /\ r.at \in Executing
    BY <1>1, <1>2, <1>4, <2>1, <2>2, <2>3 DEF Phase, Underway, Executing, Results
  <2>4. CASE /\ run[s].at = "loop" /\ r.at = "task"
             /\ r.i < Len(r.names) /\ r.data = run[s].data
    BY <1>1, <1>2, <1>4, <2>1, <2>2, <2>4 DEF Phase, Underway, Executing, Results, DataKnown
  <2>5. CASE r.at = "finish" /\ r.err
    BY <1>1, <1>2, <1>4, <2>1, <2>2, <2>5 DEF Phase, Underway, Executing
  <2>6. CASE /\ run[s].at = "loop" /\ r.at = "finish"
             /\ r.i = Len(r.names) /\ r.data = run[s].data
    BY <1>1, <1>2, <1>4, <2>1, <2>2, <2>6 DEF Phase, Underway, Executing, Results, DataKnown
  <2> QED
    BY <2>3, <2>4, <2>5, <2>6
<1>6. Inputs(s)'
  BY <1>4 DEF Inputs
<1>7. Ended(s)'
  BY <1>1, <1>2, <1>4 DEF Ended, Executing
<1>8. Inv'
  BY <1>1, <1>2, <1>3, <1>5, <1>6, <1>7, OneSession
<1>9. LifeStep
  BY <1>2, Stutters
<1> QED
  BY <1>8, <1>9
(* The head of the loop, and the steps of execute before it saves the row.  *)
LEMMA LoopInv ==
    ASSUME Inv, NEW s \in Sessions, LoopEnds(s) \/ stepForword(s)
    PROVE  Inv' /\ LifeStep
<1>0. run[s] \in RunStates /\ TypeOK
  BY DEF Inv, TypeOK
<1>1. run[s].at = "loop" /\ run[s].i <= Len(run[s].names) /\ run[s].at \in Underway
  BY DEF LoopEnds, stepForword, At, Inv, Phase, Underway
<1>2. \A e \in BOOLEAN :
          /\ Finishing(s, e) \in RunStates
          /\ Finishing(s, e).at = "finish" /\ Finishing(s, e).err = e
          /\ Finishing(s, e).i = run[s].i /\ Finishing(s, e).data = run[s].data
          /\ Finishing(s, e).names = run[s].names
  BY <1>0, Finished
<1>3. CASE LoopEnds(s)
  <2> DEFINE e == run[s].i < Len(run[s].names)
  <2>1. /\ run' = [run EXCEPT ![s] = Finishing(s, e)]
        /\ UNCHANGED <<flow, sess, rows, cancelled, disturbed>>
    BY <1>3 DEF LoopEnds
  <2>2. e \in BOOLEAN /\ (e \/ run[s].i = Len(run[s].names))
    <3>1. run[s].i \in Nat /\ Len(run[s].names) \in Nat
      BY <1>0, <1>1, WorkflowAssumption DEF RunStates, Inv, Phase
    <3> QED
      BY <1>1, <3>1
  <2>3. disturbed' \subseteq Sessions
    BY <2>1, <1>0 DEF TypeOK
  <2> HIDE DEF e
  <2> QED
    BY <1>1, <1>2, <2>1, <2>2, <2>3, Quiet
<1>4. CASE stepForword(s)
  <2>1. PICK a \in Answers(s) :
            /\ sess' = IF a.done THEN [sess EXCEPT ![s].index = run[s].i] ELSE sess
            /\ run' = [run EXCEPT ![s] = IF a.ok THEN [run[s] EXCEPT !.at = "task"]
                                                 ELSE Finishing(s, TRUE)]
            /\ Disturb(s, a)
    BY <1>4 DEF stepForword
  <2>2. UNCHANGED <<flow, rows, cancelled>> /\ run[s].i < Len(run[s].names)
    BY <1>4 DEF stepForword
  <2>3. /\ disturbed' \subseteq Sessions
        /\ \A d \in Sessions \ {s} : d \in disturbed' <=> d \in disturbed
    BY <1>0, <2>1, Disturbs
  <2>4. sess' = sess \/ \E n \in Nat : sess' = [sess EXCEPT ![s].index = n]
    BY <1>0, <2>1 DEF RunStates
  <2> DEFINE t == [run[s] EXCEPT !.at = "task"]
  <2>5. /\ t \in RunStates /\ t.at = "task" /\ t.i = run[s].i
        /\ t.data = run[s].data /\ t.names = run[s].names
    BY <1>0 DEF RunStates
  <2>6. run' = [run EXCEPT ![s] = t] \/ run' = [run EXCEPT ![s] = Finishing(s, TRUE)]
    BY <2>1
  <2> HIDE DEF t
  <2>7. CASE run' = [run EXCEPT ![s] = t]
    BY <1>1, <2>2, <2>3, <2>4, <2>5, <2>7, Quiet
  <2>8. CASE run' = [run EXCEPT ![s] = Finishing(s, TRUE)]
    BY <1>1, <1>2, <2>2, <2>3, <2>4, <2>8, Quiet
  <2> QED
    BY <2>6, <2>7, <2>8
<1> QED
  BY <1>3, <1>4

LEMMA ExecuteInv ==
    ASSUME Inv, NEW s \in Sessions,
           NewTask(s) \/ Attempt(s) \/ PartEnds(s) \/ Wait(s)
    PROVE  Inv' /\ LifeStep
<1>0. run[s] \in RunStates /\ TypeOK /\ disturbed \subseteq Sessions
  BY DEF Inv, TypeOK
<1>1. /\ UNCHANGED <<flow, sess, rows, cancelled, disturbed>>
      /\ run[s].at \in Underway /\ run[s].at \in Executing
  BY DEF NewTask, Attempt, PartEnds, Wait, At, Underway, Executing
<1>2. ASSUME NEW r \in RunStates, run' = [run EXCEPT ![s] = r],
             r.names = run[s].names, r.i = run[s].i,
             r.at \in Executing \/ (r.at = "finish" /\ r.err)
      PROVE  Inv' /\ LifeStep
  BY <1>0, <1>1, <1>2, Quiet
<1>3. CASE NewTask(s)
  <2>1. CASE s \in cancelled
    <3>1. run' = [run EXCEPT ![s] = Finishing(s, TRUE)]
      BY <1>3, <2>1 DEF NewTask
    <3> QED
      BY <1>0, <1>2, <3>1, Finished
  <2>2. CASE s \notin cancelled
    <3> DEFINE p == CASE Kind(s) = "unknown" -> "panicked"
                      [] Kind(s) = "parallel" -> "parts"
                      [] OTHER -> "attempt"
               r == [run[s] EXCEPT !.at = p, !.tries = 0, !.left = Parts, !.err = FALSE]
    <3>1. run' = [run EXCEPT ![s] = r]
      BY <1>3, <2>2 DEF NewTask
    <3>2. p \in {"panicked", "parts", "attempt"}
      OBVIOUS
    <3> HIDE DEF p
    <3>3. r \in RunStates /\ r.names = run[s].names /\ r.i = run[s].i /\ r.at = p
      <4>1. 0 \in 0 .. MaxRetries /\ Parts \in 0 .. Parts
        BY WorkflowAssumption
      <4> QED
        BY <1>0, <3>2, <4>1 DEF RunStates
    <3> HIDE DEF r
    <3> QED
      BY <1>2, <3>1, <3>2, <3>3 DEF Executing
  <2> QED
    BY <2>1, <2>2
<1>4. CASE Attempt(s)
  <2>0. run[s].at = "attempt"
    BY <1>4 DEF Attempt, At
  <2>1. CASE run' = [run EXCEPT ![s].tries = @ + 1] /\ run[s].tries < MaxRetries
    <3> DEFINE r == [run[s] EXCEPT !.tries = @ + 1]
    <3>1. run' = [run EXCEPT ![s] = r]
      BY <2>1, <1>0
    <3>2. r \in RunStates /\ r.names = run[s].names /\ r.i = run[s].i /\ r.at = "attempt"
      <4>1. run[s].tries + 1 \in 0 .. MaxRetries
        BY <1>0, <2>1, WorkflowAssumption DEF RunStates
      <4> QED
        BY <1>0, <2>0, <4>1 DEF RunStates
    <3> HIDE DEF r
    <3> QED
      BY <1>2, <3>1, <3>2 DEF Executing
  <2>2. ASSUME NEW e \in BOOLEAN, NEW d \in {-1, run[s].i + 1},
               run' = [run EXCEPT ![s] = [run[s] EXCEPT !.at = "save", !.err = e, !.data = d]]
        PROVE  Inv' /\ LifeStep
    <3> DEFINE r == [run[s] EXCEPT !.at = "save", !.err = e, !.data = d]
    <3>1. d \in Int
      BY <1>0 DEF RunStates
    <3>2. r \in RunStates /\ r.names = run[s].names /\ r.i = run[s].i /\ r.at = "save"
      BY <1>0, <3>1 DEF RunStates
    <3>3. run' = [run EXCEPT ![s] = r]
      BY <2>2
    <3> HIDE DEF r
    <3> QED
      BY <1>2, <3>2, <3>3 DEF Executing
  <2>3. \/ run' = [run EXCEPT ![s].tries = @ + 1] /\ run[s].tries < MaxRetries
        \/ \E ok \in BOOLEAN : \E r \in Returned(s, ok) : run' = [run EXCEPT ![s] = r]
    BY <1>4 DEF Attempt
  <2>4. ASSUME NEW ok \in BOOLEAN, NEW r \in Returned(s, ok), run' = [run EXCEPT ![s] = r]
        PROVE  Inv' /\ LifeStep
    <3>1. PICK d \in {-1, run[s].i + 1} :
              r = [run[s] EXCEPT !.at = "save", !.err = ~ok, !.data = d]
      BY <2>4 DEF Returned
    <3>2. (~ok) \in BOOLEAN
      OBVIOUS
    <3>3. run' = [run EXCEPT ![s] = [run[s] EXCEPT !.at = "save", !.err = ~ok, !.data = d]]
      BY <2>4, <3>1
    <3> QED
      BY <2>2, <3>2, <3>3
  <2> QED
    BY <2>1, <2>3, <2>4
<1>5. CASE PartEnds(s)
  <2>1. PICK ok \in BOOLEAN : run' = [run EXCEPT ![s].left = @ - 1, ![s].err = @ \/ ~ok]
    BY <1>5 DEF PartEnds
  <2>2. run[s].at = "parts" /\ run[s].left > 0
    BY <1>5 DEF PartEnds, At
  <2> DEFINE e == run[s].err \/ ~ok
             r == [run[s] EXCEPT !.left = @ - 1, !.err = e]
  <2>3. e \in BOOLEAN
    OBVIOUS
  <2>4. run' = [run EXCEPT ![s] = r]
    BY <2>1, <1>0
  <2> HIDE DEF e
  <2>5. r \in RunStates /\ r.names = run[s].names /\ r.i = run[s].i /\ r.at = "parts"
    <3>1. run[s].left - 1 \in 0 .. Parts
      BY <1>0, <2>2, WorkflowAssumption DEF RunStates
    <3> QED
      BY <1>0, <2>2, <2>3, <3>1 DEF RunStates
  <2> HIDE DEF r
  <2> QED
    BY <1>2, <2>4, <2>5 DEF Executing
<1>6. CASE Wait(s)
  <2> DEFINE r == [run[s] EXCEPT !.at = "save", !.data = -1]
             m == [run[s] EXCEPT !.at = "merge"]
  <2>1. run' = [run EXCEPT ![s] = r] \/ run' = [run EXCEPT ![s] = m]
    BY <1>6 DEF Wait
  <2>2. /\ r \in RunStates /\ r.names = run[s].names /\ r.i = run[s].i /\ r.at = "save"
        /\ m \in RunStates /\ m.names = run[s].names /\ m.i = run[s].i /\ m.at = "merge"
    <3>1. -1 \in Int
      OBVIOUS
    <3> QED
      BY <1>0, <3>1 DEF RunStates
  <2> HIDE DEF r, m
  <2> QED
    BY <1>2, <2>1, <2>2 DEF Executing
<1> QED
  BY <1>3, <1>4, <1>5, <1>6

(* Launch before it has a session.                                          *)
LEMMA LaunchInv ==
    ASSUME Inv, NEW s \in Sessions, Launch(s)
    PROVE  Inv' /\ LifeStep
<1>0. run[s] \in RunStates /\ TypeOK
  BY DEF Inv, TypeOK
<1>1. PICK a \in Answers(s) :
          /\ run' = [run EXCEPT ![s].at = IF a.ok THEN "session" ELSE "returned",
                                ![s].names = IF a.ok THEN flow ELSE <<>>]
          /\ Disturb(s, a)
  BY DEF Launch
<1>2. /\ disturbed' \subseteq Sessions
      /\ \A d \in Sessions \ {s} : d \in disturbed' <=> d \in disturbed
      /\ ~a.ok => s \in disturbed'
  BY <1>0, <1>1, Disturbs
<1>3. /\ run' \in [Sessions -> RunStates]
      /\ run'[s].at = IF a.ok THEN "session" ELSE "returned"
      /\ a.ok => run'[s].names \in Flows
      /\ run'[s].i = run[s].i /\ run'[s].data = run[s].data
      /\ \A d \in Sessions \ {s} : run'[d] = run[d]
  <2> DEFINE at == IF a.ok THEN "session" ELSE "returned"
             names == IF a.ok THEN flow ELSE <<>>
             r == [run[s] EXCEPT !.at = at, !.names = names]
  <2>1. /\ at \in {"session", "returned"} /\ names \in Flows \cup {<<>>}
        /\ a.ok => names \in Flows
    BY <1>0 DEF TypeOK
  <2>2. run' = [run EXCEPT ![s] = r]
    BY <1>0, <1>1 DEF TypeOK
  <2> HIDE DEF at, names
  <2>3. /\ r \in RunStates /\ r.at = at /\ r.names = names
        /\ r.i = run[s].i /\ r.data = run[s].data
    BY <1>0, <2>1 DEF RunStates
  <2> HIDE DEF r
  <2>4. run' \in [Sessions -> RunStates] /\ run'[s] = r
    BY <1>0, <2>2, <2>3 DEF TypeOK
  <2>5. \A d \in Sessions \ {s} : run'[d] = run[d]
    BY <1>0, <2>2 DEF TypeOK
  <2> QED
    BY <2>1, <2>3, <2>4, <2>5 DEF at
<1>4. UNCHANGED <<flow, sess, rows, cancelled>> /\ run[s].at = "idle"
  BY DEF Launch, At
<1>5. TypeOK'
  BY <1>0, <1>2, <1>3, <1>4 DEF TypeOK
<1>6. Phase(s) /\ Inputs(s) /\ Ended(s)
  BY DEF Inv
<1>7. Phase(s)'
  BY <1>3, <1>4, <1>6 DEF Phase, Underway, Executing
<1>8. Inputs(s)' /\ Ended(s)'
  BY <1>2, <1>3, <1>4, <1>6 DEF Inputs, Ended
<1>9. Inv'
  BY <1>2, <1>3, <1>4, <1>5, <1>7, <1>8, OneSession
<1> QED
  BY <1>4, <1>9, Stutters
(* startSession: the row of the session is created.                         *)
LEMMA StartSessionInv ==
    ASSUME Inv, NEW s \in Sessions, startSession(s)
    PROVE  Inv' /\ LifeStep
<1>0. run[s] \in RunStates /\ sess[s] \in SessionRows /\ TypeOK
  BY DEF Inv, TypeOK
<1>1. PICK a \in Answers(s) :
          /\ sess' = IF a.done
                     THEN [sess EXCEPT ![s].status = "running", ![s].names = run[s].names]
                     ELSE sess
          /\ run' = [run EXCEPT ![s].at = IF a.ok THEN "loop" ELSE "returned"]
          /\ Disturb(s, a)
  BY DEF startSession
<1>2. /\ disturbed' \subseteq Sessions
      /\ \A d \in Sessions \ {s} : d \in disturbed' <=> d \in disturbed
      /\ ~a.ok => s \in disturbed'
      /\ a.ok => a.done
  BY <1>0, <1>1, Disturbs
<1>3. Phase(s) /\ Inputs(s) /\ Ended(s)
  BY DEF Inv
<1>4. /\ UNCHANGED <<flow, rows, cancelled>> /\ run[s].at = "session"
      /\ sess[s].status = "none" /\ rows[s] = <<>> /\ run[s].i = 0 /\ run[s].data = 0
      /\ run[s].names \in Flows
  BY <1>3 DEF startSession, At, Phase
<1>5. /\ run' \in [Sessions -> RunStates]
      /\ run'[s].at = IF a.ok THEN "loop" ELSE "returned"
      /\ run'[s].i = run[s].i /\ run'[s].data = run[s].data /\ run'[s].names = run[s].names
      /\ \A d \in Sessions \ {s} : run'[d] = run[d]
  <2> DEFINE at == IF a.ok THEN "loop" ELSE "returned"
  <2>1. at \in {"loop", "returned"}
    OBVIOUS
  <2>2. run' = [run EXCEPT ![s].at = at]
    BY <1>1
  <2> HIDE DEF at
  <2>3. run' \in [Sessions -> RunStates]
    BY <1>0, <2>1, <2>2 DEF TypeOK, RunStates
  <2>4. /\ run'[s].at = at
        /\ run'[s].i = run[s].i /\ run'[s].data = run[s].data /\ run'[s].names = run[s].names
    BY <1>0, <2>2 DEF TypeOK, RunStates
  <2>5. \A d \in Sessions \ {s} : run'[d] = run[d]
    BY <1>0, <2>2 DEF TypeOK
  <2> QED
    BY <2>3, <2>4, <2>5 DEF at
<1>6. CASE a.done
  <2>1. sess' = [sess EXCEPT ![s].status = "running", ![s].names = run[s].names]
    BY <1>1, <1>6
  <2>2. sess' \in [Sessions -> SessionRows]
    BY <1>0, <1>4, <2>1 DEF TypeOK, SessionRows
  <2>3. /\ sess'[s].status = "running" /\ sess'[s].names = run[s].names
        /\ \A d \in Sessions \ {s} : sess'[d] = sess[d]
    BY <1>0, <2>1 DEF TypeOK, SessionRows
  <2>4. TypeOK'
    BY <1>0, <1>2, <1>4, <1>5, <2>2 DEF TypeOK
  <2>5. Phase(s)'
    <3>1. rows'[s] = <<>> /\ Len(rows'[s]) = 0
      BY <1>4
    <3>2. Len(run[s].names) \in Nat
      BY <1>4, WorkflowAssumption
    <3> QED
      BY <1>4, <1>5, <2>3, <3>1, <3>2 DEF Phase, Underway, Executing, Results, DataKnown
  <2>6. Inputs(s)' /\ Ended(s)'
    BY <1>2, <1>3, <1>4, <1>5, <2>3 DEF Inputs, Ended
  <2>7. Inv'
    BY <1>2, <1>4, <1>5, <2>3, <2>4, <2>5, <2>6, OneSession
  <2>8. /\ [d \in Sessions |-> sess'[d].status]
            = [[d \in Sessions |-> sess[d].status] EXCEPT ![s] = "running"]
        /\ [d \in Sessions |-> sess'[d].names]
            = [[d \in Sessions |-> sess[d].names] EXCEPT ![s] = run[s].names]
    BY <2>3
  <2>9. Life!Open(s)
    BY <1>4, <2>8 DEF Life!Open
  <2> QED
    BY <2>7, <2>9 DEF LifeStep, Life!LifeNext
<1>7. CASE ~a.done
  <2>1. sess' = sess
    BY <1>1, <1>7
  <2>2. ~a.ok /\ s \in disturbed' /\ run'[s].at = "returned"
    BY <1>2, <1>5, <1>7
  <2>3. TypeOK'
    BY <1>0, <1>2, <1>4, <1>5, <2>1 DEF TypeOK
  <2>4. Phase(s)' /\ Inputs(s)' /\ Ended(s)'
    BY <1>3, <1>4, <2>1, <2>2 DEF Phase, Inputs, Ended, Underway, Executing
  <2>5. Inv'
    BY <1>2, <1>4, <1>5, <2>1, <2>3, <2>4, OneSession
  <2> QED
    BY <1>4, <2>1, <2>5, Stutters
<1> QED
  BY <1>6, <1>7

(* finish: the row of the session gets its result.                          *)
LEMMA FinishInv ==
    ASSUME Inv, NEW s \in Sessions, finish(s)
    PROVE  Inv' /\ LifeStep
<1>0. run[s] \in RunStates /\ sess[s] \in SessionRows /\ TypeOK /\ rows[s] \in Seq(TaskRows)
  BY DEF Inv, TypeOK
<1>1. PICK a \in Answers(s) :
          /\ sess' = IF ~a.done THEN sess
                     ELSE IF run[s].err THEN [sess EXCEPT ![s].status = "fail"]
                     ELSE [sess EXCEPT ![s].status = "success", ![s].output = run[s].data]
          /\ run' = [run EXCEPT ![s].at = "returned"]
          /\ Disturb(s, a)
  BY DEF finish
<1>2. /\ disturbed' \subseteq Sessions
      /\ \A d \in Sessions \ {s} : d \in disturbed' <=> d \in disturbed
      /\ ~a.ok => s \in disturbed'
      /\ a.ok => a.done
  BY <1>0, <1>1, Disturbs
<1>3. Phase(s) /\ Inputs(s) /\ Ended(s)
  BY DEF Inv
<1>4. /\ UNCHANGED <<flow, rows, cancelled>> /\ run[s].at = "finish"
      /\ sess[s].status = "running" /\ sess[s].names = run[s].names
  BY <1>3 DEF finish, At, Phase, Underway
<1>5. /\ run' \in [Sessions -> RunStates]
      /\ run'[s].at = "returned"
      /\ \A d \in Sessions \ {s} : run'[d] = run[d]
  BY <1>0, <1>1 DEF TypeOK, RunStates
<1>6. Phase(s)'
  BY <1>5 DEF Phase, Underway, Executing
<1>7. Inputs(s)'
  BY <1>3, <1>4 DEF Inputs
<1>8. CASE ~a.done
  <2>1. sess' = sess
    BY <1>1, <1>8
  <2>2. s \in disturbed'
    BY <1>2, <1>8
  <2>3. TypeOK' /\ Ended(s)'
    BY <1>0, <1>2, <1>3, <1>4, <1>5, <2>1, <2>2 DEF TypeOK, Ended
  <2>4. Inv'
    BY <1>2, <1>4, <1>5, <1>6, <1>7, <2>1, <2>3, OneSession
  <2> QED
    BY <1>4, <2>1, <2>4, Stutters
<1>9. ASSUME NEW st \in {"success", "fail"}, NEW out \in Int,
             sess' = [sess EXCEPT ![s] = [sess[s] EXCEPT !.status = st, !.output = out]],
             st = "success" => ~run[s].err /\ out = run[s].data
      PROVE  Inv' /\ LifeStep
  <2>1. [sess[s] EXCEPT !.status = st, !.output = out] \in SessionRows
    BY <1>0 DEF SessionRows
  <2>2. /\ sess' \in [Sessions -> SessionRows]
        /\ \A d \in Sessions \ {s} : sess'[d] = sess[d]
    BY <1>0, <1>9, <2>1 DEF TypeOK
  <2>3. sess'[s].status = st /\ sess'[s].output = out /\ sess'[s].names = sess[s].names
    BY <1>0, <1>9 DEF TypeOK, SessionRows
  <2>4. TypeOK'
    BY <1>0, <1>2, <1>4, <1>5, <2>2 DEF TypeOK
  <2>5. st = "success" =>
            Len(rows[s]) = Len(sess[s].names) /\ Results(s, Len(rows[s])) /\ DataKnown(s)
    BY <1>3, <1>4, <1>9 DEF Phase
  <2>6. Ended(s)'
    BY <1>4, <1>9, <2>3, <2>5 DEF Ended, DataKnown
  <2>7. Inv'
    BY <1>2, <1>4, <1>5, <1>6, <1>7, <2>2, <2>4, <2>6, OneSession
  <2>8. /\ [d \in Sessions |-> sess'[d].status]
            = [[d \in Sessions |-> sess[d].status] EXCEPT ![s] = st]
        /\ [d \in Sessions |-> sess'[d].names] = [d \in Sessions |-> sess[d].names]
    BY <2>2, <2>3
  <2>9. /\ Len(Listed(rows[s])) = Len(rows[s])
        /\ DOMAIN Listed(rows[s]) = 1 .. Len(rows[s])
        /\ \A k \in 1 .. Len(rows[s]) : Listed(rows[s])[k].status = rows[s][k].status
    BY <1>0, ListedStatus
  <2>10. st = "success" => Life!HaveResults(s) /\ Len(Listed(rows[s])) = Len(sess[s].names)
    BY <2>5, <2>9 DEF Life!HaveResults, Results
  <2>11. Life!Close(s)
    BY <1>4, <2>8, <2>10 DEF Life!Close
  <2> QED
    BY <2>7, <2>11 DEF LifeStep, Life!LifeNext
<1>10. CASE a.done /\ run[s].err
  <2>1. sess' = [sess EXCEPT ![s] = [sess[s] EXCEPT !.status = "fail", !.output = sess[s].output]]
    BY <1>0, <1>1, <1>10 DEF TypeOK, SessionRows
  <2>2. sess[s].output \in Int
    BY <1>0 DEF SessionRows
  <2> QED
    BY <1>9, <2>1, <2>2
<1>11. CASE a.done /\ ~run[s].err
  <2>1. sess' = [sess EXCEPT ![s] = [sess[s] EXCEPT !.status = "success", !.output = run[s].data]]
    BY <1>0, <1>1, <1>11 DEF TypeOK, SessionRows
  <2>2. run[s].data \in Int
    BY <1>0 DEF RunStates
  <2> QED
    BY <1>9, <1>11, <2>1, <2>2
<1> QED
  BY <1>8, <1>10, <1>11
(* startTask: a row for the next task, which is given the data at hand.     *)
LEMMA StartTaskInv ==
    ASSUME Inv, NEW s \in Sessions, startTask(s)
    PROVE  Inv' /\ LifeStep
<1> DEFINE name == run[s].names[run[s].i + 1]
           row == NewTaskRow(s, name)
           q == rows[s]
<1>0. run[s] \in RunStates /\ TypeOK /\ q \in Seq(TaskRows) /\ Len(q) \in Nat
  BY DEF Inv, TypeOK
<1>1. PICK a \in Answers(s) :
          /\ rows' = IF a.done THEN [rows EXCEPT ![s] = Append(q, row)] ELSE rows
          /\ run' = [run EXCEPT ![s] = IF a.ok THEN [run[s] EXCEPT !.at = "created"]
                                               ELSE Finishing(s, TRUE)]
          /\ Disturb(s, a)
  BY DEF startTask
<1>2. /\ disturbed' \subseteq Sessions
      /\ \A d \in Sessions \ {s} : d \in disturbed' <=> d \in disturbed
      /\ a.ok => a.done
  BY <1>0, <1>1, Disturbs
<1>3. Phase(s) /\ Inputs(s) /\ Ended(s)
  BY DEF Inv
<1>4. /\ UNCHANGED <<flow, sess, cancelled>> /\ run[s].at = "task" /\ run[s].at \in Underway
      /\ sess[s].status = "running" /\ sess[s].names = run[s].names /\ run[s].names \in Flows
      /\ run[s].i = Len(q) /\ run[s].i < Len(run[s].names)
      /\ Results(s, Len(q)) /\ DataKnown(s)
  BY <1>3 DEF startTask, At, Phase, Underway
<1>5. name \in Names
  <2>1. run[s].names \in Seq(Names)
    BY <1>4, WorkflowAssumption
  <2>2. run[s].i + 1 \in 1 .. Len(run[s].names)
    BY <1>0, <1>4, <2>1
  <2> QED
    BY <2>1, <2>2
<1>6. /\ row \in TaskRows /\ row.name = name /\ row.status = "running"
      /\ row.input = run[s].data
  BY <1>0, <1>5 DEF NewTaskRow, TaskRows, RunStates
<1>7. /\ Finishing(s, TRUE) \in RunStates /\ Finishing(s, TRUE).at = "finish"
      /\ Finishing(s, TRUE).err /\ Finishing(s, TRUE).i = run[s].i
      /\ Finishing(s, TRUE).names = run[s].names
  BY <1>0, Finished
<1>8. CASE ~a.done
  <2>1. /\ rows' = rows /\ ~a.ok
        /\ run' = [run EXCEPT ![s] = Finishing(s, TRUE)]
    BY <1>1, <1>2, <1>8
  <2> QED
    BY <1>2, <1>4, <1>7, <2>1, Quiet
<1>9. CASE a.done
  <2> HIDE DEF row
  <2>1. rows' = [rows EXCEPT ![s] = Append(q, row)]
    BY <1>1, <1>9
  <2> DEFINE n == Len(q)
  <2>2. /\ Append(q, row) \in Seq(TaskRows) /\ Len(Append(q, row)) = n + 1
        /\ Append(q, row)[n + 1] = row
        /\ \A k \in 1 .. n : Append(q, row)[k] = q[k]
    BY <1>0, <1>6
  <2>3. /\ rows' \in [Sessions -> Seq(TaskRows)] /\ rows'[s] = Append(q, row)
        /\ \A d \in Sessions \ {s} : rows'[d] = rows[d]
    BY <1>0, <2>1, <2>2 DEF TypeOK
  <2>4. PICK r \in RunStates :
            /\ run' = [run EXCEPT ![s] = r]
            /\ r.names = run[s].names /\ r.i = run[s].i
            /\ r.at = "created" \/ (r.at = "finish" /\ r.err)
    <3>1. /\ [run[s] EXCEPT !.at = "created"] \in RunStates
          /\ [run[s] EXCEPT !.at = "created"].names = run[s].names
          /\ [run[s] EXCEPT !.at = "created"].i = run[s].i
          /\ [run[s] EXCEPT !.at = "created"].at = "created"
      BY <1>0 DEF RunStates
    <3>2. CASE a.ok
      BY <1>1, <3>1, <3>2
    <3>3. CASE ~a.ok
      BY <1>1, <1>7, <3>3
    <3> QED
      BY <3>2, <3>3
  <2>5. /\ run' \in [Sessions -> RunStates] /\ run'[s] = r
        /\ \A d \in Sessions \ {s} : run'[d] = run[d]
    BY <1>0, <2>4 DEF TypeOK
  <2>6. TypeOK'
    BY <1>0, <1>2, <1>4, <2>3, <2>5 DEF TypeOK
  <2>7. Phase(s)'
    <3>1. CASE r.at = "created"
      <4>1. /\ Len(rows'[s]) = run'[s].i + 1 /\ run'[s].i < Len(run'[s].names)
            /\ rows'[s][run'[s].i + 1].status = "running"
        BY <1>4, <1>6, <2>2, <2>3, <2>4, <2>5
      <4>2. \A k \in 1 .. run'[s].i : rows'[s][k].status # "running"
        BY <1>4, <2>2, <2>3, <2>4, <2>5 DEF Results
      <4> QED
        BY <1>4, <2>4, <2>5, <3>1, <4>1, <4>2 DEF Phase, Results, Underway, Executing
    <3>2. CASE r.at = "finish" /\ r.err
      BY <1>4, <2>4, <2>5, <3>2 DEF Phase, Underway, Executing
    <3> QED
      BY <2>4, <3>1, <3>2
  <2>8. Inputs(s)'
    <3>1. rows'[s][1].input = 0
      <4>1. CASE n = 0
        BY <1>4, <1>6, <2>2, <2>3, <4>1 DEF DataKnown
      <4>2. CASE n # 0
        BY <1>0, <1>3, <2>2, <2>3, <4>2 DEF Inputs
      <4> QED
        BY <4>1, <4>2
    <3>2. ASSUME NEW k \in 1 .. n, rows'[s][k].status = "success"
          PROVE  rows'[s][k + 1].input = rows'[s][k].output
      <4>0. rows'[s][k] = q[k] /\ q[k].status = "success"
        BY <2>2, <2>3, <3>2
      <4>1. CASE k = n
        BY <1>0, <1>4, <1>6, <2>2, <2>3, <4>0, <4>1 DEF DataKnown
      <4>2. CASE k # n
        <5>1. k \in 1 .. n - 1 /\ k + 1 \in 1 .. n
          BY <1>0, <4>2
        <5> QED
          BY <1>3, <2>2, <2>3, <4>0, <5>1 DEF Inputs
      <4> QED
        BY <4>1, <4>2
    <3>3. Len(rows'[s]) - 1 = n
      BY <1>0, <2>2, <2>3
    <3> HIDE DEF n
    <3> QED
      BY <3>1, <3>2, <3>3 DEF Inputs
  <2>9. Ended(s)'
    BY <1>4, <2>4, <2>5 DEF Ended
  <2>10. Inv'
    BY <1>2, <1>4, <2>3, <2>5, <2>6, <2>7, <2>8, <2>9, OneSession
  <2>11. [d \in Sessions |-> Listed(rows'[d])]
            = [[d \in Sessions |-> Listed(rows[d])] EXCEPT
                  ![s] = Append(Listed(q), [name |-> name, status |-> "running"])]
    <3>1. Listed(rows'[s]) = Append(Listed(q), [name |-> name, status |-> "running"])
      BY <1>0, <1>6, <2>3, ListedAppend
    <3> HIDE DEF name
    <3> QED
      BY <2>3, <3>1
  <2>12. /\ Len(Listed(q)) = n /\ DOMAIN Listed(q) = 1 .. n
         /\ \A k \in 1 .. n : Listed(q)[k].status # "running"
    BY <1>0, <1>4, ListedStatus DEF Results
  <2>13. Life!HaveResults(s)
    BY <2>12 DEF Life!HaveResults
  <2>14. Life!Begin(s)
    BY <1>4, <2>11, <2>12, <2>13 DEF Life!Begin
  <2> QED
    BY <2>10, <2>14 DEF LifeStep, Life!LifeNext
<1> QED
  BY <1>8, <1>9

(* The end of execute: the row of the task gets its result.                 *)
LEMMA SaveTaskInv ==
    ASSUME Inv, NEW s \in Sessions, SaveTask(s)
    PROVE  Inv' /\ LifeStep
<1> DEFINE q == rows[s]
           n == Len(rows[s])
<1>0. run[s] \in RunStates /\ TypeOK /\ q \in Seq(TaskRows) /\ n \in Nat
  BY DEF Inv, TypeOK
<1>1. PICK a \in Answers(s) :
          /\ rows' = IF a.done THEN Saved(s) ELSE rows
          /\ run' = [run EXCEPT ![s] =
                       IF a.ok THEN [run[s] EXCEPT !.at = "loop", !.i = run[s].i + 1, !.err = FALSE]
                       ELSE Finishing(s, TRUE)]
          /\ Disturb(s, a)
  BY DEF SaveTask
<1>2. /\ disturbed' \subseteq Sessions
      /\ \A d \in Sessions \ {s} : d \in disturbed' <=> d \in disturbed
      /\ a.ok => a.done
  BY <1>0, <1>1, Disturbs
<1>3. Phase(s) /\ Inputs(s) /\ Ended(s)
  BY DEF Inv
<1>4. /\ UNCHANGED <<flow, sess, cancelled>> /\ run[s].at = "save" /\ run[s].at \in Underway
      /\ sess[s].status = "running" /\ sess[s].names = run[s].names /\ run[s].names \in Flows
      /\ n = run[s].i + 1 /\ run[s].i < Len(run[s].names)
      /\ Results(s, run[s].i) /\ q[n].status = "running"
  BY <1>3 DEF SaveTask, At, Phase, Underway, Executing
<1>5. run[s].i \in Nat /\ n \in 1 .. n /\ n > 0 /\ Len(run[s].names) \in Nat
  BY <1>0, <1>4, WorkflowAssumption DEF RunStates
<1>6. /\ Finishing(s, TRUE) \in RunStates /\ Finishing(s, TRUE).at = "finish"
      /\ Finishing(s, TRUE).err /\ Finishing(s, TRUE).i = run[s].i
      /\ Finishing(s, TRUE).names = run[s].names
  BY <1>0, Finished
<1>7. CASE ~a.done
  <2>1. /\ rows' = rows /\ ~a.ok
        /\ run' = [run EXCEPT ![s] = Finishing(s, TRUE)]
    BY <1>1, <1>2, <1>7
  <2> QED
    BY <1>2, <1>4, <1>6, <2>1, Quiet
<1>8. CASE a.done
  <2>1. PICK row \in TaskRows :
            /\ rows' = [rows EXCEPT ![s] = [q EXCEPT ![n] = row]]
            /\ row.name = q[n].name /\ row.input = q[n].input
            /\ row.status \in {"success", "fail"}
            /\ row.status = "success" => row.output = run[s].data
    <3>1. q[n] \in TaskRows /\ run[s].data \in Int
      BY <1>0, <1>5 DEF RunStates
    <3> DEFINE f == [q[n] EXCEPT !.status = "fail"]
               g == [q[n] EXCEPT !.status = "success", !.output = run[s].data]
    <3>2. /\ f \in TaskRows /\ f.name = q[n].name /\ f.input = q[n].input /\ f.status = "fail"
      BY <3>1 DEF TaskRows
    <3>3. /\ g \in TaskRows /\ g.name = q[n].name /\ g.input = q[n].input
          /\ g.status = "success" /\ g.output = run[s].data
      BY <3>1 DEF TaskRows
    <3>4. \/ rows' = [rows EXCEPT ![s] = [q EXCEPT ![n] = f]]
          \/ rows' = [rows EXCEPT ![s] = [q EXCEPT ![n] = g]]
      BY <1>0, <1>1, <1>8 DEF Saved, TypeOK
    <3> HIDE DEF f, g
    <3> QED
      BY <3>2, <3>3, <3>4
  <2> DEFINE q1 == [q EXCEPT ![n] = row]
  <2>2. /\ q1 \in Seq(TaskRows) /\ Len(q1) = n /\ q1[n] = row
        /\ \A k \in 1 .. n - 1 : q1[k] = q[k]
    BY <1>0, <1>5
  <2>3. /\ rows' \in [Sessions -> Seq(TaskRows)] /\ rows'[s] = q1
        /\ \A d \in Sessions \ {s} : rows'[d] = rows[d]
    BY <1>0, <2>1, <2>2 DEF TypeOK
  <2>4. PICK r \in RunStates :
            /\ run' = [run EXCEPT ![s] = r]
            /\ r.names = run[s].names
            /\ \/ r.at = "loop" /\ r.i = run[s].i + 1 /\ r.data = run[s].data
               \/ r.at = "finish" /\ r.err
    <3> DEFINE l == [run[s] EXCEPT !.at = "loop", !.i = run[s].i + 1, !.err = FALSE]
    <3>1. /\ l \in RunStates /\ l.names = run[s].names
          /\ l.i = run[s].i + 1 /\ l.at = "loop" /\ l.data = run[s].data
      <4>1. run[s].i + 1 \in Nat
        BY <1>5
      <4> QED
        BY <1>0, <4>1 DEF RunStates
    <3>2. run' = [run EXCEPT ![s] = l] \/ run' = [run EXCEPT ![s] = Finishing(s, TRUE)]
      BY <1>1
    <3> HIDE DEF l
    <3> QED
      BY <1>6, <3>1, <3>2
  <2>5. /\ run' \in [Sessions -> RunStates] /\ run'[s] = r
        /\ \A d \in Sessions \ {s} : run'[d] = run[d]
    BY <1>0, <2>4 DEF TypeOK
  <2>6. TypeOK'
    BY <1>0, <1>2, <1>4, <2>3, <2>5 DEF TypeOK
  <2> HIDE DEF q1
  <2>7. Phase(s)'
    <3>1. CASE r.at = "loop" /\ r.i = run[s].i + 1 /\ r.data = run[s].data
      <4>1. Len(rows'[s]) = run'[s].i /\ run'[s].i <= Len(run'[s].names)
        BY <1>4, <1>5, <2>2, <2>3, <2>4, <2>5, <3>1
      <4>2. \A k \in 1 .. run'[s].i : rows'[s][k].status # "running"
        <5> SUFFICES ASSUME NEW k \in 1 .. n PROVE q1[k].status # "running"
          BY <1>4, <2>3, <2>5, <3>1
        <5>1. CASE k = n
          BY <2>1, <2>2, <5>1
        <5>2. CASE k # n
          <6>1. k \in 1 .. n - 1 /\ k \in 1 .. run[s].i
            BY <1>4, <1>5, <5>2
          <6> QED
            BY <1>4, <2>2, <6>1 DEF Results
        <5> QED
          BY <5>1, <5>2
      <4>3. DataKnown(s)'
        BY <1>5, <2>1, <2>2, <2>3, <2>5, <3>1 DEF DataKnown
      <4> QED
        BY <1>4, <2>4, <2>5, <3>1, <4>1, <4>2, <4>3 DEF Phase, Results, Underway, Executing
    <3>2. CASE r.at = "finish" /\ r.err
      BY <1>4, <2>4, <2>5, <3>2 DEF Phase, Underway, Executing
    <3> QED
      BY <2>4, <3>1, <3>2
  <2>8. Inputs(s)'
    <3>1. \A k \in 1 .. n : q1[k].input = q[k].input
      BY <1>0, <2>1, <2>2
    <3>2. \A k \in 1 .. n - 1 : k \in 1 .. n /\ k + 1 \in 1 .. n
      BY <1>0
    <3>3. 1 \in 1 .. n
      BY <1>5
    <3> HIDE DEF n
    <3> QED
      BY <1>3, <1>5, <2>2, <2>3, <3>1, <3>2, <3>3 DEF Inputs, n
  <2>9. Ended(s)'
    BY <1>4, <2>4, <2>5 DEF Ended
  <2>10. Inv'
    BY <1>2, <1>4, <2>3, <2>5, <2>6, <2>7, <2>8, <2>9, OneSession
  <2>11. [d \in Sessions |-> Listed(rows'[d])]
            = [[d \in Sessions |-> Listed(rows[d])] EXCEPT ![s][n].status = row.status]
    <3>1. Listed(rows'[s]) = [Listed(q) EXCEPT ![n].status = row.status]
      BY <1>0, <1>5, <2>1, <2>3, ListedExcept DEF q1
    <3>2. \A d \in Sessions \ {s} : Listed(rows'[d]) = Listed(rows[d])
      BY <2>3
    <3> HIDE DEF n
    <3> QED
      BY <3>1, <3>2
  <2>12. /\ Len(Listed(q)) = n /\ Listed(q) # <<>>
         /\ Listed(q)[n].status = "running"
    <3>1. Listed(q) \in Seq(ListedTasks) /\ Len(Listed(q)) = n
      BY <1>0, ListedSeq
    <3>2. Listed(q)[n] = [name |-> q[n].name, status |-> q[n].status]
      BY <1>0, <1>5, ListedSeq
    <3> QED
      BY <1>4, <1>5, <3>1, <3>2
  <2>13. Life!End(s)
    BY <1>4, <2>1, <2>11, <2>12 DEF Life!End
  <2> QED
    BY <2>10, <2>13 DEF LifeStep, Life!LifeNext
<1> QED
  BY <1>7, <1>8

(* The environment.                                                         *)
LEMMA EnvironmentInv ==
    ASSUME Inv, Update \/ (\E s \in Sessions : Cancel(s)) \/ UNCHANGED vars
    PROVE  Inv' /\ LifeStep
<1>1. UNCHANGED <<sess, rows, run, disturbed>>
  BY DEF Update, Cancel, vars
<1>2. flow' \in Flows /\ cancelled' \subseteq Sessions /\ cancelled \subseteq cancelled'
  BY DEF Inv, TypeOK, Update, Cancel, vars
<1>3. TypeOK'
  BY <1>1, <1>2 DEF Inv, TypeOK
<1>4. ASSUME NEW s \in Sessions PROVE Phase(s)' /\ Inputs(s)' /\ Ended(s)'
  <2>1. Phase(s) /\ Inputs(s) /\ Ended(s)
    BY DEF Inv
  <2> QED
    BY <1>1, <1>2, <2>1 DEF Phase, Results, DataKnown, Inputs, Ended
<1> QED
  BY <1>1, <1>3, <1>4, Stutters DEF Inv

LEMMA NextInv == Inv /\ [Next]_vars => Inv' /\ LifeStep
<1> SUFFICES ASSUME Inv, [Next]_vars PROVE Inv' /\ LifeStep
  OBVIOUS
<1>1. ASSUME NEW s \in Sessions, Launch(s) \/ Work(s) PROVE Inv' /\ LifeStep
  BY <1>1, LaunchInv, StartSessionInv, LoopInv, StartTaskInv, ExecuteInv, SaveTaskInv, FinishInv
     DEF Work
<1> QED
  BY <1>1, EnvironmentInv DEF Next

LEMMA Invariance == Spec => []Inv
BY InitInv, NextInv, PTL DEF Spec

(* The rows that Launch writes keep the promise of WorkflowLife: one task   *)
(* at a time in the order of the copied list, none before the previous one  *)
(* has its result, no success short of a result, no change after the end.   *)
THEOREM LaunchKeepsLife == Spec => ImplementsLife
<1>1. Inv /\ [Next]_vars => [Life!LifeNext]_(Life!lifeVars)
  BY NextInv DEF LifeStep
<1> QED
  BY <1>1, InitInv, Invariance, PTL DEF Spec, ImplementsLife

(* Each task is given what the rows say the task before it returned, and    *)
(* the output of the session is that of its last task.                      *)
THEOREM OutputsFlow == Spec => []DataFlows
<1>1. Inv => DataFlows
  <2> SUFFICES ASSUME Inv, NEW s \in Sessions
               PROVE  LET n == Len(rows[s]) IN
                      /\ n > 0 => rows[s][1].input = 0
                      /\ \A k \in 1 .. n - 1 : rows[s][k].status = "success"
                            => rows[s][k + 1].input = rows[s][k].output
                      /\ n > 0 /\ sess[s].status = "success" /\ rows[s][n].status = "success"
                            => sess[s].output = rows[s][n].output
    BY DEF DataFlows
  <2> QED
    BY DEF Inv, Inputs, Ended
<1> QED
  BY <1>1, Invariance, PTL

(* A Launch that returns leaves its session without a result only if one of *)
(* its own commands failed or its own context was cancelled.                *)
THEOREM ResultUnlessDisturbed == Spec => []FinalUnlessDisturbed
<1>1. Inv => FinalUnlessDisturbed
  BY DEF Inv, Ended, FinalUnlessDisturbed
<1> QED
  BY <1>1, Invariance, PTL
-----------------------------------------------------------------------------
(* UserCache.                                                               *)
LoginStates == {"idle", "read", "delUser", "delUser2", "upsertIP", "delIP", "pause"}
ReaderStates == {"idle", "user", "setUser", "ip", "select", "setIP"}
IpValues == Ips \cup {Absent}

UserTyped ==
    /\ lastId \in 0 .. MaxUsers
    /\ userRow \in SUBSET (1 .. lastId)
    /\ ipRow \in [Ids -> IpValues]
    /\ ipKey \in [Ids -> IpValues]
    /\ reader \in [Readers -> [at : ReaderStates, id : 0 .. MaxUsers, ip : IpValues]]
    /\ login \in [Logins -> [at : LoginStates, id : 0 .. MaxUsers, ip : IpValues]]
    /\ racing \in [Logins -> SUBSET Readers]

(* The id is set where it is used.                                          *)
UserIdsSet ==
    /\ \A r \in Readers : reader[r].at # "idle" => reader[r].id \in Ids
    /\ \A w \in Logins : login[w].at \notin {"idle", "read"} => login[w].id \in Ids

(* Login w has written the row of user i, and will delete the key.          *)
WillDelete(w, i) == login[w].id = i /\ login[w].at \in {"delIP", "pause"}

(* Login w will delete the key of user i after reader r has set it.         *)
WillUndo(w, i, r) ==
    /\ login[w].id = i
    /\ login[w].at = "delIP" \/ (login[w].at = "pause" /\ r \in racing[w])

(* What a reader is about to store is in the database, or will be undone.   *)
ReadersFresh ==
    \A i \in Ids \ unsettled : \A r \in Readers :
        reader[r].at = "setIP" /\ reader[r].id = i =>
            reader[r].ip = ipRow[i] \/ \E w \in Logins : WillUndo(w, i, r)

KeysFresh ==
    \A i \in Ids \ unsettled :
        ipKey[i] \in {Absent, ipRow[i]} \/ \E w \in Logins : WillDelete(w, i)

UserInv == UserTyped /\ UserIdsSet /\ ReadersFresh /\ KeysFresh

LEMMA UserInitInv == UserInit => UserInv
<1> SUFFICES ASSUME UserInit PROVE UserInv
  OBVIOUS
<1>1. UserTyped
  BY UserCacheAssumption DEF UserInit, UserTyped, IpValues, ReaderStates, LoginStates, Ids
<1>2. UserIdsSet /\ ReadersFresh /\ KeysFresh
  BY DEF UserInit, UserIdsSet, ReadersFresh, KeysFresh, Ids
<1> QED
  BY <1>1, <1>2 DEF UserInv

(* A step of a reader before it stores an IP.                               *)
LEMMA ReaderKeeps ==
    ASSUME UserInv, NEW r \in Readers,
           \/ GetByID(r) \/ SelectUser(r) \/ SetUser(r) \/ GetLatestIP(r) \/ SelectIP(r)
    PROVE  UserInv'
<1> USE DEF UserInv
<1>1. UNCHANGED <<lastId, userRow, ipRow, ipKey, login, racing, unsettled>>
  BY DEF GetByID, SelectUser, SetUser, GetLatestIP, SelectIP, database, others, writers
<1>2. /\ reader' = [reader EXCEPT ![r] = reader'[r]]
      /\ reader'[r] \in [at : ReaderStates, id : 0 .. MaxUsers, ip : IpValues]
      /\ reader'[r].at # "idle" => reader'[r].id \in Ids
      /\ reader'[r].at = "setIP" => reader'[r].ip = ipRow[reader'[r].id]
  <2>1. CASE GetByID(r)
    <3>1. PICK i \in 1 .. lastId :
            reader' = [reader EXCEPT ![r].id = i,
                            ![r].at = IF i \in userKey THEN "ip" ELSE "user"]
      BY <2>1 DEF GetByID
    <3>2. i \in 0 .. MaxUsers /\ i \in Ids
      BY UserCacheAssumption DEF UserTyped, Ids
    <3>3. /\ reader'[r].id = i /\ reader'[r].at \in {"ip", "user"}
          /\ reader'[r].ip = reader[r].ip
          /\ reader'[r] = [at |-> reader'[r].at, id |-> i, ip |-> reader[r].ip]
          /\ reader' = [reader EXCEPT ![r] = reader'[r]]
      BY <3>1 DEF UserTyped
    <3> QED
      BY <3>2, <3>3 DEF UserTyped, ReaderStates
  <2>2. CASE SelectUser(r)
    BY <2>2 DEF SelectUser, ReaderAt, UserTyped, UserIdsSet, ReaderStates, Ids
  <2>3. CASE SetUser(r)
    BY <2>3 DEF SetUser, ReaderAt, UserTyped, UserIdsSet, ReaderStates, Ids
  <2>4. CASE GetLatestIP(r)
    BY <2>4 DEF GetLatestIP, ReaderAt, UserTyped, UserIdsSet, ReaderStates, Ids
  <2>5. CASE SelectIP(r)
    BY <2>5 DEF SelectIP, UserTyped, UserIdsSet, ReaderStates, Ids
  <2> QED
    BY <2>1, <2>2, <2>3, <2>4, <2>5
<1>3. UserTyped'
  BY <1>1, <1>2 DEF UserTyped
<1>4. UserIdsSet'
  BY <1>1, <1>2 DEF UserTyped, UserIdsSet
<1>5. \A q \in Readers : q # r => reader'[q] = reader[q]
  BY <1>2 DEF UserTyped
<1>6. ReadersFresh'
  BY <1>1, <1>2, <1>5 DEF ReadersFresh, WillUndo
<1>7. KeysFresh'
  BY <1>1 DEF KeysFresh, WillDelete
<1> QED
  BY <1>3, <1>4, <1>6, <1>7

(* What a reader stores replaces the key.                                   *)
LEMMA SetIPKeeps ==
    ASSUME UserInv, NEW r \in Readers, SetIP(r)
    PROVE  UserInv'
<1> USE DEF UserInv
<1>1. /\ UNCHANGED <<lastId, userRow, ipRow, login, unsettled>>
      /\ reader[r].at = "setIP" /\ reader[r].id \in Ids
      /\ ipKey' = [ipKey EXCEPT ![reader[r].id] = reader[r].ip]
      /\ reader' = [reader EXCEPT ![r] = [at |-> "idle", id |-> 0, ip |-> Absent]]
      /\ racing' = [w \in Logins |-> racing[w] \ {r}]
  BY DEF SetIP, database, writers, UserIdsSet
<1>2. UserTyped'
  BY <1>1, UserCacheAssumption DEF UserTyped, IpValues, ReaderStates
<1>3. UserIdsSet'
  BY <1>1 DEF UserTyped, UserIdsSet
<1>4. ReadersFresh'
  BY <1>1 DEF UserTyped, ReadersFresh, WillUndo
<1>5. KeysFresh'
  BY <1>1 DEF UserTyped, ReadersFresh, KeysFresh, WillUndo, WillDelete
<1> QED
  BY <1>2, <1>3, <1>4, <1>5

(* A step of a login before it writes the row of the IP.                    *)
LEMMA LoginKeeps ==
    ASSUME UserInv, NEW w \in Logins, Insert(w) \/ ReadBack(w) \/ DelUser(w)
    PROVE  UserInv'
<1> USE DEF UserInv
<1>1. UNCHANGED <<ipRow, ipKey, reader, racing, unsettled>>
  BY DEF Insert, ReadBack, DelUser, database, cached
<1>2. /\ login' = [login EXCEPT ![w] = login'[w]]
      /\ login'[w] \in [at : LoginStates, id : 0 .. MaxUsers, ip : IpValues]
      /\ login'[w].at \notin {"idle", "read"} => login'[w].id \in Ids
      /\ login[w].at \notin {"delIP", "pause"}
      /\ lastId' \in 0 .. MaxUsers
      /\ userRow' \in SUBSET (1 .. lastId')
  <2>1. CASE Insert(w)
    <3>1. lastId' \in 0 .. MaxUsers /\ userRow' \in SUBSET (1 .. lastId')
      <4>1. CASE UNCHANGED <<lastId, userRow>>
        BY <4>1 DEF UserTyped
      <4>2. CASE lastId < MaxUsers /\ lastId' = lastId + 1 /\ userRow' = {lastId'}
        BY <4>2, UserCacheAssumption DEF UserTyped
      <4> QED
        BY <2>1, <4>1, <4>2 DEF Insert
    <3>2. PICK ip \in Ips : login' = [login EXCEPT ![w] = [at |-> "read", id |-> 0, ip |-> ip]]
      BY <2>1 DEF Insert
    <3>3. login[w].at = "idle" /\ 0 \in 0 .. MaxUsers
      BY <2>1, UserCacheAssumption DEF Insert
    <3>4. login'[w] = [at |-> "read", id |-> 0, ip |-> ip] /\ ip \in IpValues
      BY <3>2 DEF UserTyped, IpValues
    <3>5. login'[w] \in [at : LoginStates, id : 0 .. MaxUsers, ip : IpValues]
      BY <3>3, <3>4 DEF LoginStates
    <3>6. login' = [login EXCEPT ![w] = login'[w]]
      BY <3>2, <3>4
    <3> QED
      BY <3>1, <3>3, <3>4, <3>5, <3>6
  <2>2. CASE ReadBack(w)
    BY <2>2, UserCacheAssumption DEF ReadBack, LoginAt, database, UserTyped, LoginStates, Ids
  <2>3. CASE DelUser(w)
    <3>1. /\ login[w].at \in {"delUser", "delUser2"} /\ UNCHANGED <<lastId, userRow>>
          /\ \E at \in {"delUser2", "upsertIP"} : login' = [login EXCEPT ![w].at = at]
      BY <2>3 DEF DelUser, LoginAt, DelFails, database
    <3> QED
      BY <3>1 DEF UserTyped, UserIdsSet, LoginStates, Ids
  <2> QED
    BY <2>1, <2>2, <2>3
<1>3. UserTyped'
  BY <1>1, <1>2 DEF UserTyped
<1>4. UserIdsSet'
  BY <1>1, <1>2 DEF UserTyped, UserIdsSet
<1>5. \A v \in Logins : v # w => login'[v] = login[v]
  BY <1>2 DEF UserTyped
<1>6. ReadersFresh'
  BY <1>1, <1>2, <1>5 DEF ReadersFresh, WillUndo
<1>7. KeysFresh'
  BY <1>1, <1>2, <1>5 DEF KeysFresh, WillDelete
<1> QED
  BY <1>3, <1>4, <1>6, <1>7

(* From the write on, the login covers what readers have read before it.    *)
LEMMA UpsertKeeps ==
    ASSUME UserInv, NEW w \in Logins, UpsertLatestIP(w)
    PROVE  UserInv'
<1> USE DEF UserInv
<1>1. /\ UNCHANGED <<lastId, userRow, ipKey, reader, racing, unsettled>>
      /\ login[w].at = "upsertIP" /\ login[w].id \in Ids
      /\ ipRow' = [ipRow EXCEPT ![login[w].id] = login[w].ip]
      /\ login' = [login EXCEPT ![w].at = "delIP"]
  BY DEF UpsertLatestIP, LoginAt, cached, UserIdsSet
<1>2. UserTyped'
  BY <1>1 DEF UserTyped, LoginStates
<1>3. UserIdsSet'
  BY <1>1 DEF UserTyped, UserIdsSet
<1>4. /\ login'[w].at = "delIP" /\ login'[w].id = login[w].id
      /\ \A v \in Logins : v # w => login'[v] = login[v]
      /\ \A i \in Ids : i # login[w].id => ipRow'[i] = ipRow[i]
  BY <1>1 DEF UserTyped
<1>5. ReadersFresh'
  BY <1>1, <1>4 DEF ReadersFresh, WillUndo
<1>6. KeysFresh'
  BY <1>1, <1>4 DEF KeysFresh, WillDelete
<1> QED
  BY <1>2, <1>3, <1>5, <1>6

(* The two deletions.  The second one finds none of the readers that had    *)
(* read before the first.                                                   *)
LEMMA DeletesKeep ==
    ASSUME UserInv, NEW w \in Logins, DelIP(w) \/ DelIP2(w)
    PROVE  UserInv'
<1> USE DEF UserInv
<1>1. /\ UNCHANGED <<lastId, userRow, ipRow, reader>>
      /\ login[w].at \in {"delIP", "pause"} /\ login[w].id \in Ids
  BY DEF DelIP, DelIP2, database, UserIdsSet
<1>2. /\ login' = [login EXCEPT ![w].at = login'[w].at]
      /\ login'[w].at \in {"pause", "idle"}
      /\ login'[w].id = login[w].id
      /\ \A v \in Logins : v # w => login'[v] = login[v]
  BY DEF DelIP, DelIP2, LoginAt, UserTyped
<1>3. /\ ipKey' \in [Ids -> IpValues]
      /\ racing' \in [Logins -> SUBSET Readers]
      /\ \A v \in Logins : v # w => racing'[v] = racing[v]
      /\ \A i \in Ids : i # login[w].id => ipKey'[i] = ipKey[i]
      /\ unsettled \subseteq unsettled'
      /\ login[w].id \in unsettled' \/ ipKey'[login[w].id] = Absent
  BY <1>1 DEF DelIP, DelIP2, UserTyped, IpValues
<1>4. UserTyped'
  <2>1. PICK at \in {"pause", "idle"} : login' = [login EXCEPT ![w].at = at]
    BY <1>2
  <2>2. login' \in [Logins -> [at : LoginStates, id : 0 .. MaxUsers, ip : IpValues]]
    BY <2>1 DEF UserTyped, LoginStates
  <2> QED
    BY <1>1, <1>3, <2>2 DEF UserTyped
<1>5. UserIdsSet'
  BY <1>1, <1>2 DEF UserTyped, UserIdsSet
<1>6. ReadersFresh'
  <2>1. CASE login[w].id \in unsettled'
    BY <1>1, <1>2, <1>3, <2>1 DEF ReadersFresh, WillUndo
  <2>2. CASE DelIP(w) /\ login[w].id \notin unsettled'
    <3>1. /\ login'[w].at = "pause"
          /\ \A r \in Readers : reader[r].at = "setIP" => r \in racing'[w]
      BY <2>2, <1>3 DEF DelIP, LoginAt, UserTyped
    <3> QED
      BY <1>1, <1>2, <1>3, <3>1 DEF ReadersFresh, WillUndo
  <2>3. CASE DelIP2(w) /\ login[w].id \notin unsettled'
    <3>1. racing[w] = {} /\ login[w].at = "pause" /\ racing' = racing
      BY <2>3 DEF DelIP2
    <3> QED
      BY <1>1, <1>2, <1>3, <3>1 DEF ReadersFresh, WillUndo
  <2> QED
    BY <2>1, <2>2, <2>3
<1>7. KeysFresh'
  BY <1>1, <1>2, <1>3 DEF KeysFresh, WillDelete
<1> QED
  BY <1>4, <1>5, <1>6, <1>7

(* A deletion of the user and an expiry can only remove a key.              *)
LEMMA RemovalsKeep ==
    ASSUME UserInv, NEW i \in Ids, DeleteByID(i) \/ KeyDel(i) \/ CacheExpires(i)
    PROVE  UserInv'
<1> USE DEF UserInv
<1>1. UNCHANGED <<lastId, ipRow, reader, login, racing, unsettled>>
  BY DEF DeleteByID, KeyDel, CacheExpires, cached, database, others, writers
<1>2. /\ ipKey' \in [Ids -> IpValues]
      /\ userRow' \in SUBSET (1 .. lastId)
      /\ \A j \in Ids : ipKey'[j] \in {Absent, ipKey[j]}
  BY DEF DeleteByID, KeyDel, CacheExpires, DelFails, cached, database, UserTyped, IpValues
<1>3. UserTyped' /\ UserIdsSet'
  BY <1>1, <1>2 DEF UserTyped, UserIdsSet
<1>4. ReadersFresh' /\ KeysFresh'
  BY <1>1, <1>2 DEF ReadersFresh, KeysFresh, WillUndo, WillDelete
<1> QED
  BY <1>3, <1>4

LEMMA UserStep == UserInv /\ UserNext => UserInv'
  BY ReaderKeeps, SetIPKeeps, LoginKeeps, UpsertKeeps, DeletesKeep, RemovalsKeep DEF UserNext

LEMMA UserStutter == UserInv /\ UNCHANGED userVars => UserInv'
  BY DEF userVars, UserInv, UserTyped, UserIdsSet, ReadersFresh, KeysFresh, WillUndo, WillDelete

LEMMA UserInvFresh == UserInv => FreshIP
  BY DEF UserInv, KeysFresh, FreshIP, WillDelete

(* users.UserStore: when no login of a user is between its write of the IP  *)
(* and its second deletion of the key, the cached IP is absent or is that   *)
(* of the database, however many readers, logins and deletions raced.       *)
THEOREM CachedIPsAreFresh == PartsSpec => []FreshIP
<1>1. PartsInit => UserInv
  BY UserInitInv DEF PartsInit
<1>2. UserInv /\ [PartsNext]_all => UserInv'
  BY UserStep, UserStutter
     DEF PartsNext, Users, Rankings, LogWriters, Collecting, Coding, all
<1> QED
  BY <1>1, <1>2, UserInvFresh, PTL DEF PartsSpec

-----------------------------------------------------------------------------
(* The writer of logs: where each log is on its way from posted to handed.  *)

Entries == Nat

(* Of the sequence p, h was handed on, then the first n of b are buffered,   *)
(* then comes c; what else is in b came out of a closed channel.             *)
Placed(p, h, b, c, n) ==
    /\ Len(p) = Len(h) + n + Len(c)
    /\ \A k \in 1 .. Len(h) : p[k] = h[k]
    /\ \A k \in 1 .. n : p[Len(h) + k] = b[k]
    /\ \A k \in 1 .. Len(c) : p[Len(h) + n + k] = c[k]
    /\ \A k \in n + 1 .. Len(b) : b[k] = NilLog

LEMMA PlacedPost ==
    ASSUME NEW p \in Seq(Entries), NEW h \in Seq(Entries), NEW b \in Seq(Entries),
           NEW c \in Seq(Entries), NEW n \in 0 .. Len(b), Placed(p, h, b, c, n),
           NEW log \in Entries
    PROVE  Placed(Append(p, log), h, b, Append(c, log), n)
<1>1. Len(Append(p, log)) = Len(p) + 1 /\ Len(Append(c, log)) = Len(c) + 1
  OBVIOUS
<1>2. \A k \in 1 .. Len(p) : Append(p, log)[k] = p[k]
  OBVIOUS
<1>3. Append(p, log)[Len(p) + 1] = log
  OBVIOUS
<1>4. \A k \in 1 .. Len(c) : Append(c, log)[k] = c[k]
  OBVIOUS
<1>5. Append(c, log)[Len(c) + 1] = log
  OBVIOUS
<1>6. /\ Len(p) \in Nat /\ Len(c) \in Nat /\ Len(h) \in Nat /\ Len(b) \in Nat /\ n \in Nat
      /\ Len(p) = Len(h) + n + Len(c)
  BY DEF Placed
<1> DEFINE p1 == Append(p, log)
           c1 == Append(c, log)
<1> HIDE DEF p1, c1
<1>7. \A k \in 1 .. Len(c) + 1 : p1[Len(h) + n + k] = c1[k]
  <2> TAKE k \in 1 .. Len(c) + 1
  <2>1. CASE k = Len(c) + 1
    BY <1>3, <1>5, <1>6, <2>1 DEF Placed, p1, c1
  <2>2. CASE k # Len(c) + 1
    <3>1. k \in 1 .. Len(c) /\ Len(h) + n + k \in 1 .. Len(p)
      BY <1>6, <2>2
    <3>2. p[Len(h) + n + k] = c[k]
      BY <3>1 DEF Placed
    <3>3. p1[Len(h) + n + k] = p[Len(h) + n + k]
      BY <1>2, <3>1 DEF p1
    <3>4. c1[k] = c[k]
      BY <1>4, <3>1 DEF c1
    <3> QED
      BY <3>2, <3>3, <3>4
  <2> QED
    BY <2>1, <2>2
<1>8. \A k \in 1 .. Len(h) : p1[k] = h[k]
  BY <1>2, <1>6 DEF Placed, p1
<1>9. \A k \in 1 .. n : p1[Len(h) + k] = b[k]
  BY <1>2, <1>6 DEF Placed, p1
<1>10. Len(p1) = Len(h) + n + Len(c1)
  BY <1>1, <1>6 DEF Placed, p1, c1
<1> QED
  BY <1>1, <1>7, <1>8, <1>9, <1>10 DEF Placed, p1, c1

LEMMA PlacedTake ==
    ASSUME NEW p \in Seq(Entries), NEW h \in Seq(Entries), NEW b \in Seq(Entries),
           NEW c \in Seq(Entries), Placed(p, h, b, c, Len(b)), c # <<>>
    PROVE  Placed(p, h, Append(b, Head(c)), Tail(c), Len(b) + 1)
<1> DEFINE b1 == Append(b, Head(c))
           c1 == Tail(c)
<1>1. Len(b) \in Nat /\ Len(h) \in Nat /\ Len(c) \in Nat \ {0} /\ Head(c) = c[1]
  OBVIOUS
<1>2. Len(c1) = Len(c) - 1 /\ \A k \in 1 .. Len(c) - 1 : c1[k] = c[k + 1]
  OBVIOUS
<1>3. Head(c) \in Entries
  OBVIOUS
<1>4. Len(b1) = Len(b) + 1 /\ b1[Len(b) + 1] = Head(c)
  BY <1>3
<1>5. \A k \in 1 .. Len(b) : b1[k] = b[k]
  BY <1>3
<1> HIDE DEF b1, c1
<1>6. \A k \in 1 .. Len(b) + 1 : p[Len(h) + k] = b1[k]
  <2> TAKE k \in 1 .. Len(b) + 1
  <2>1. CASE k = Len(b) + 1
    BY <1>1, <1>4, <2>1 DEF Placed
  <2>2. CASE k # Len(b) + 1
    BY <1>1, <1>5, <2>2 DEF Placed
  <2> QED
    BY <2>1, <2>2
<1>7. \A k \in 1 .. Len(c1) : p[Len(h) + (Len(b) + 1) + k] = c1[k]
  <2> TAKE k \in 1 .. Len(c1)
  <2>1. k + 1 \in 1 .. Len(c) /\ c1[k] = c[k + 1]
    BY <1>1, <1>2
  <2>2. Len(h) + (Len(b) + 1) + k = Len(h) + Len(b) + (k + 1)
    BY <1>1, <1>2
  <2> QED
    BY <2>1, <2>2 DEF Placed
<1>8. \A k \in Len(b) + 1 + 1 .. Len(b1) : b1[k] = NilLog
  BY <1>1, <1>4
<1>9. Len(p) = Len(h) + (Len(b) + 1) + Len(c1)
  BY <1>1, <1>2 DEF Placed
<1> QED
  BY <1>6, <1>7, <1>8, <1>9 DEF Placed, b1, c1

LEMMA PlacedNil ==
    ASSUME NEW p \in Seq(Entries), NEW h \in Seq(Entries), NEW b \in Seq(Entries),
           NEW c \in Seq(Entries), NEW n \in 0 .. Len(b), Placed(p, h, b, c, n)
    PROVE  Placed(p, h, Append(b, NilLog), c, n)
<1>1. NilLog \in Entries
  BY DEF NilLog, Entries
<1>2. Len(b) \in Nat /\ Len(Append(b, NilLog)) = Len(b) + 1 /\ Append(b, NilLog)[Len(b) + 1] = NilLog
  BY <1>1
<1>3. \A k \in 1 .. Len(b) : Append(b, NilLog)[k] = b[k]
  BY <1>1
<1> DEFINE b1 == Append(b, NilLog)
<1> HIDE DEF b1
<1>4. \A k \in 1 .. n : b1[k] = b[k]
  BY <1>2, <1>3 DEF b1
<1>5. \A k \in n + 1 .. Len(b1) : b1[k] = NilLog
  BY <1>2, <1>3 DEF b1, Placed
<1>6. \A k \in 1 .. n : p[Len(h) + k] = b1[k]
  BY <1>4 DEF Placed
<1> QED
  BY <1>5, <1>6 DEF Placed, b1

LEMMA PlacedFlush ==
    ASSUME NEW p \in Seq(Entries), NEW h \in Seq(Entries), NEW b \in Seq(Entries),
           NEW c \in Seq(Entries), Placed(p, h, b, c, Len(b))
    PROVE  Placed(p, h \o b, <<>>, c, 0)
<1> DEFINE h1 == h \o b
<1>1. Len(b) \in Nat /\ Len(h) \in Nat /\ Len(c) \in Nat
  OBVIOUS
<1>2. Len(h1) = Len(h) + Len(b)
  OBVIOUS
<1>3. \A k \in 1 .. Len(h) + Len(b) : h1[k] = IF k <= Len(h) THEN h[k] ELSE b[k - Len(h)]
  OBVIOUS
<1> HIDE DEF h1
<1>4. \A k \in 1 .. Len(h1) : p[k] = h1[k]
  <2> TAKE k \in 1 .. Len(h1)
  <2>1. CASE k <= Len(h)
    <3>1. k \in 1 .. Len(h) /\ k \in 1 .. Len(h) + Len(b)
      BY <1>1, <1>2, <2>1
    <3>2. p[k] = h[k]
      BY <3>1 DEF Placed
    <3> QED
      BY <1>3, <2>1, <3>1, <3>2
  <2>2. CASE ~(k <= Len(h))
    <3>1. k - Len(h) \in 1 .. Len(b) /\ Len(h) + (k - Len(h)) = k
      BY <1>1, <1>2, <2>2
    <3>2. p[Len(h) + (k - Len(h))] = b[k - Len(h)]
      BY <3>1 DEF Placed
    <3>3. h1[k] = b[k - Len(h)]
      BY <1>1, <1>2, <1>3, <2>2
    <3> QED
      BY <3>1, <3>2, <3>3
  <2> QED
    BY <2>1, <2>2
<1>5. \A k \in 1 .. Len(c) : p[Len(h1) + 0 + k] = c[k]
  <2> TAKE k \in 1 .. Len(c)
  <2>1. Len(h1) + 0 + k = Len(h) + Len(b) + k
    BY <1>1, <1>2
  <2> QED
    BY <2>1 DEF Placed
<1>6. Len(p) = Len(h1) + 0 + Len(c)
  BY <1>1, <1>2 DEF Placed
<1>7. Len(<<>>) = 0
  OBVIOUS
<1> QED
  BY <1>4, <1>5, <1>6, <1>7 DEF Placed, h1

LEMMA PlacedWhole ==
    ASSUME NEW p \in Seq(Entries), NEW h \in Seq(Entries), NEW b \in Seq(Entries),
           NEW c \in Seq(Entries), NEW n \in 0 .. Len(b), Placed(p, h, b, c, n)
    PROVE  p = h \o SubSeq(b, 1, n) \o c
<1> DEFINE s == SubSeq(b, 1, n)
           t == h \o s
           u == t \o c
<1>1. Len(b) \in Nat /\ Len(h) \in Nat /\ Len(c) \in Nat /\ n \in Nat
  OBVIOUS
<1>2. s \in Seq(Entries) /\ Len(s) = n /\ \A k \in 1 .. n : s[k] = b[k]
  OBVIOUS
<1> HIDE DEF s
<1>3. /\ t \in Seq(Entries) /\ Len(t) = Len(h) + n
      /\ \A k \in 1 .. Len(h) + n : t[k] = IF k <= Len(h) THEN h[k] ELSE s[k - Len(h)]
  <2>0. s \in Seq(Entries)
    BY <1>2
  <2>1. t \in Seq(Entries) /\ Len(t) = Len(h) + Len(s)
    BY <2>0
  <2>2. \A k \in 1 .. Len(h) + Len(s) : t[k] = IF k <= Len(h) THEN h[k] ELSE s[k - Len(h)]
    BY <2>0
  <2> QED
    BY <1>2, <2>1, <2>2
<1> HIDE DEF t
<1>4. /\ u \in Seq(Entries) /\ Len(u) = Len(h) + n + Len(c)
      /\ \A k \in 1 .. Len(h) + n + Len(c) :
            u[k] = IF k <= Len(h) + n THEN t[k] ELSE c[k - (Len(h) + n)]
  <2>0. t \in Seq(Entries)
    BY <1>3
  <2>1. u \in Seq(Entries) /\ Len(u) = Len(t) + Len(c)
    BY <2>0
  <2>2. \A k \in 1 .. Len(t) + Len(c) : u[k] = IF k <= Len(t) THEN t[k] ELSE c[k - Len(t)]
    BY <2>0
  <2>3. Len(t) = Len(h) + n
    BY <1>3
  <2> QED
    BY <2>1, <2>2, <2>3
<1> HIDE DEF u
<1>5. Len(p) = Len(u)
  BY <1>4 DEF Placed
<1>6. ASSUME NEW k \in 1 .. Len(p) PROVE p[k] = u[k]
  <2>0. k \in Nat /\ k \in 1 .. Len(h) + n + Len(c)
    BY <1>1 DEF Placed
  <2>1. CASE k <= Len(h)
    <3>1. k \in 1 .. Len(h) /\ k \in 1 .. Len(h) + n
      BY <1>1, <2>0, <2>1
    <3>2. p[k] = h[k]
      BY <3>1 DEF Placed
    <3>3. t[k] = h[k]
      BY <1>3, <2>1, <3>1
    <3>4. u[k] = t[k]
      BY <1>1, <1>4, <2>0, <2>1
    <3> QED
      BY <3>2, <3>3, <3>4
  <2>2. CASE k > Len(h) /\ k <= Len(h) + n
    <3>1. k - Len(h) \in 1 .. n /\ Len(h) + (k - Len(h)) = k
      BY <1>1, <2>0, <2>2
    <3>2. p[Len(h) + (k - Len(h))] = b[k - Len(h)]
      BY <3>1 DEF Placed
    <3>3. u[k] = t[k]
      BY <1>4, <2>0, <2>2
    <3>4. t[k] = s[k - Len(h)]
      BY <1>1, <1>3, <2>0, <2>2
    <3> QED
      BY <1>2, <3>1, <3>2, <3>3, <3>4
  <2>3. CASE k > Len(h) + n
    <3>1. k - (Len(h) + n) \in 1 .. Len(c) /\ Len(h) + n + (k - (Len(h) + n)) = k
      BY <1>1, <2>0, <2>3
    <3>2. p[Len(h) + n + (k - (Len(h) + n))] = c[k - (Len(h) + n)]
      BY <3>1 DEF Placed
    <3>3. u[k] = c[k - (Len(h) + n)]
      BY <1>1, <1>4, <2>0, <2>3
    <3> QED
      BY <3>1, <3>2, <3>3
  <2> QED
    BY <1>1, <2>0, <2>1, <2>2, <2>3
<1>7. p = u
  BY <1>4, <1>5, <1>6
<1> QED
  BY <1>7 DEF s, t, u

WriterFields ==
    [ch : Seq(Entries), closed : BOOLEAN, chNil : BOOLEAN,
     timer : {"armed", "stopped", "fired"}, timerNil : BOOLEAN, cancel : BOOLEAN,
     done : BOOLEAN, buffered : Seq(Entries),
     listen : {"none", "begin", "loop", "select", "ended", "panic"}, open : BOOLEAN]

LogTyped ==
    /\ current \in {0} \cup Writers
    /\ started \in Nat
    /\ wr \in [Writers -> WriterFields]
    /\ logger \in [Loggers -> [at : {"idle", "send", "blocked", "panic"}, g : {0} \cup Writers]]
    /\ \A l \in Loggers : logger[l].at = "send" => logger[l].g \in Writers
    /\ posted \in [Writers -> Seq(Entries)]
    /\ handed \in [Writers -> Seq(Entries)]

(* A writer with these fields, whose logs are p, has handed on h: only the  *)
(* closed and empty channel has put something else into the buffer.         *)
KeptBy(r, p, h) ==
    \E n \in 0 .. Len(r.buffered) :
        /\ Placed(p, h, r.buffered, r.ch, n)
        /\ n < Len(r.buffered) => r.closed /\ r.ch = <<>>

AllKept == \A g \in Writers : KeptBy(wr[g], posted[g], handed[g])

BuffersShort == crashed = {} => \A g \in Writers : Len(wr[g].buffered) < MaxCount

LogInv == LogTyped /\ AllKept /\ BuffersShort

LEMMA LogInitInv == LogInit => LogInv
<1> SUFFICES ASSUME LogInit PROVE LogInv
  OBVIOUS
<1>1. NoWriter \in WriterFields
  BY DEF NoWriter, WriterFields
<1>2. LogTyped
  BY <1>1 DEF LogInit, LogTyped
<1>3. KeptBy(NoWriter, <<>>, <<>>)
  <2>1. Len(NoWriter.buffered) = 0 /\ NoWriter.buffered = <<>> /\ NoWriter.ch = <<>> /\ Len(<<>>) = 0
    BY DEF NoWriter
  <2>2. Placed(<<>>, <<>>, <<>>, <<>>, 0)
    BY DEF Placed
  <2> QED
    BY <2>1, <2>2 DEF KeptBy
<1>4. AllKept
  BY <1>3 DEF LogInit, AllKept
<1>5. BuffersShort
  BY LogWriterAssumption DEF LogInit, BuffersShort, NoWriter
<1> QED
  BY <1>2, <1>4, <1>5 DEF LogInv

(* What moves no log: the fields of writers change, but none that KeptBy    *)
(* reads, except that a channel is closed.                                  *)
LEMMA SameLogs ==
    ASSUME LogInv, crashed = {}, LogTyped', UNCHANGED <<posted, handed>>,
           \A g \in Writers : /\ wr'[g].ch = wr[g].ch
                              /\ wr'[g].buffered = wr[g].buffered
                              /\ wr[g].closed => wr'[g].closed
    PROVE  LogInv'
<1>1. AllKept'
  BY DEF LogInv, AllKept, KeptBy
<1>2. BuffersShort'
  BY DEF LogInv, BuffersShort
<1> QED
  BY <1>1, <1>2 DEF LogInv

(* One writer moves its logs.                                               *)
LEMMA OneMoves ==
    ASSUME LogInv, LogTyped', NEW g \in Writers, NEW r \in WriterFields,
           NEW p \in Seq(Entries), NEW h \in Seq(Entries), crashed = {}, KeptBy(r, p, h),
           wr' = [wr EXCEPT ![g] = r],
           posted' = [posted EXCEPT ![g] = p],
           handed' = [handed EXCEPT ![g] = h],
           crashed' = {} => Len(r.buffered) < MaxCount
    PROVE  LogInv'
<1>1. ASSUME NEW j \in Writers PROVE KeptBy(wr'[j], posted'[j], handed'[j])
  <2>1. CASE j = g
    BY <2>1 DEF LogInv, LogTyped
  <2>2. CASE j # g
    <3>1. wr'[j] = wr[j] /\ posted'[j] = posted[j] /\ handed'[j] = handed[j]
      BY <2>2 DEF LogInv, LogTyped
    <3> QED
      BY <3>1 DEF LogInv, AllKept
  <2> QED
    BY <2>1, <2>2
<1>2. BuffersShort'
  BY DEF LogInv, LogTyped, BuffersShort
<1> QED
  BY <1>1, <1>2 DEF LogInv, AllKept

(* What the administration of writers does to them.                         *)
AdminChange ==
    /\ current' \in {0} \cup Writers /\ started' \in Nat
    /\ wr' \in [Writers -> WriterFields]
    /\ \A g \in Writers : /\ wr'[g].ch = wr[g].ch
                          /\ wr'[g].buffered = wr[g].buffered
                          /\ wr[g].closed => wr'[g].closed

LEMMA OneChanges ==
    ASSUME LogTyped, NEW g \in Writers, NEW r \in WriterFields,
           r.ch = wr[g].ch, r.buffered = wr[g].buffered, wr[g].closed => r.closed,
           wr' = [wr EXCEPT ![g] = r]
    PROVE  /\ wr' \in [Writers -> WriterFields]
           /\ \A j \in Writers : /\ wr'[j].ch = wr[j].ch
                                 /\ wr'[j].buffered = wr[j].buffered
                                 /\ wr[j].closed => wr'[j].closed
  BY DEF LogTyped

LEMMA AdminKeeps ==
    ASSUME LogInv, crashed = {}, StartOrStop \/ release \/ Released
    PROVE  LogInv'
<1> USE DEF LogInv
<1>1. UNCHANGED <<logger, posted, handed>>
  BY DEF StartOrStop, release, Released
<1>2. AdminChange
  <2>0. UNCHANGED <<current, started, wr>> => AdminChange
    BY DEF AdminChange, LogTyped
  <2>1. NewWriter => AdminChange
    <3> SUFFICES ASSUME NewWriter PROVE AdminChange
      OBVIOUS
    <3>1. started + 1 \in Writers
      BY LogWriterAssumption DEF NewWriter, LogTyped, Writers
    <3>2. PICK r : r = [wr[started + 1] EXCEPT !.listen = "begin"]
      OBVIOUS
    <3>3. /\ current' = started + 1 /\ started' = started + 1
          /\ wr' = [wr EXCEPT ![started + 1] = r]
      BY <3>2 DEF NewWriter
    <3>4. wr[started + 1] \in WriterFields
      BY <3>1 DEF LogTyped
    <3>5. /\ r \in WriterFields /\ r.ch = wr[started + 1].ch
          /\ r.buffered = wr[started + 1].buffered /\ r.closed = wr[started + 1].closed
      BY <3>2, <3>4 DEF WriterFields
    <3> QED
      BY <3>1, <3>3, <3>5, OneChanges DEF AdminChange, LogTyped
  <2>2. CASE StartOrStop
    BY <2>0, <2>1, <2>2 DEF StartOrStop
  <2>3. CASE release
    <3>1. UNCHANGED <<current, started>>
      BY <2>3 DEF release
    <3>2. CASE UNCHANGED wr
      BY <2>0, <3>1, <3>2
    <3>3. CASE current \in Writers /\ ~(UNCHANGED wr)
      <4>1. wr[current] \in WriterFields
        BY <3>3 DEF LogTyped
      <4>2. PICK r : /\ r \in {[wr[current] EXCEPT !.closed = TRUE,
                                      !.timer = IF @ = "armed" THEN "stopped" ELSE @],
                               [wr[current] EXCEPT !.done = TRUE],
                               [wr[current] EXCEPT !.timerNil = TRUE, !.chNil = TRUE]}
                     /\ wr' = [wr EXCEPT ![current] = r]
        BY <2>3, <3>3 DEF release
      <4>3. /\ r \in WriterFields /\ r.ch = wr[current].ch
            /\ r.buffered = wr[current].buffered /\ (wr[current].closed => r.closed)
        BY <4>1, <4>2 DEF WriterFields
      <4>4. /\ wr' \in [Writers -> WriterFields]
            /\ \A g \in Writers : /\ wr'[g].ch = wr[g].ch
                                  /\ wr'[g].buffered = wr[g].buffered
                                  /\ wr[g].closed => wr'[g].closed
        BY <3>3, <4>2, <4>3, OneChanges
      <4> QED
        BY <3>1, <3>3, <4>4 DEF AdminChange, LogTyped
    <3>4. CASE current \notin Writers
      <4>1. UNCHANGED wr
        BY <2>3, <3>4 DEF release, LogTyped
      <4> QED
        BY <3>2, <4>1
    <3> QED
      BY <3>2, <3>3, <3>4
  <2>4. CASE Released
    <3>1. CASE NewWriter
      BY <2>1, <3>1
    <3>2. CASE current' = 0 /\ UNCHANGED <<started, wr>>
      BY <3>2 DEF AdminChange, LogTyped
    <3> QED
      BY <2>4, <3>1, <3>2 DEF Released
  <2> QED
    BY <2>2, <2>3, <2>4
<1>3. LogTyped'
  BY <1>1, <1>2 DEF AdminChange, LogTyped
<1> QED
  BY <1>1, <1>2, <1>3, SameLogs DEF AdminChange

LEMMA LoadKeeps ==
    ASSUME LogInv, crashed = {}, NEW l \in Loggers, LoadChannel(l)
    PROVE  LogInv'
<1> USE DEF LogInv
<1>1. UNCHANGED <<current, started, wr, posted, handed>>
  BY DEF LoadChannel
<1>2. LogTyped'
  <2>1. PICK c : c \in [at : {"idle", "send", "blocked", "panic"}, g : {0} \cup Writers]
                 /\ logger' = [logger EXCEPT ![l] = c]
                 /\ (c.at = "send" => c.g \in Writers)
    <3>1. CASE current = 0
      <4>1. PICK c : c = [logger[l] EXCEPT !.at = "panic"]
        OBVIOUS
      <4>2. logger' = [logger EXCEPT ![l] = c]
        BY <3>1, <4>1 DEF LoadChannel
      <4>3. /\ c \in [at : {"idle", "send", "blocked", "panic"}, g : {0} \cup Writers]
            /\ c.at = "panic"
        BY <4>1 DEF LogTyped
      <4> QED
        BY <4>2, <4>3
    <3>2. CASE current # 0
      <4>1. PICK c : c = [at |-> IF wr[current].chNil THEN "blocked" ELSE "send", g |-> current]
        OBVIOUS
      <4>2. logger' = [logger EXCEPT ![l] = c]
        BY <3>2, <4>1 DEF LoadChannel
      <4>3. /\ c \in [at : {"idle", "send", "blocked", "panic"}, g : {0} \cup Writers]
            /\ c.g \in Writers
        BY <3>2, <4>1 DEF LogTyped
      <4> QED
        BY <4>2, <4>3
    <3> QED
      BY <3>1, <3>2
  <2>2. \A j \in Loggers : logger'[j] = IF j = l THEN c ELSE logger[j]
    BY <2>1 DEF LogTyped
  <2>3. logger' \in [Loggers -> [at : {"idle", "send", "blocked", "panic"}, g : {0} \cup Writers]]
    BY <2>1 DEF LogTyped
  <2>4. \A j \in Loggers : logger'[j].at = "send" => logger'[j].g \in Writers
    BY <2>1, <2>2 DEF LogTyped
  <2> QED
    BY <1>1, <2>3, <2>4 DEF LogTyped
<1> QED
  BY <1>1, <1>2, SameLogs

LEMMA PostKeeps ==
    ASSUME LogInv, crashed = {}, NEW l \in Loggers, Post(l)
    PROVE  LogInv'
<1> USE DEF LogInv
<1> DEFINE g == logger[l].g
           log == Len(posted[g]) + 1
<1>0. g \in Writers
  BY DEF Post, LogTyped
<1>1. CASE UNCHANGED <<wr, posted>>
  <2>1. UNCHANGED <<current, started, wr, posted, handed>>
    BY <1>1 DEF Post
  <2>2. \/ UNCHANGED logger
        \/ logger' = [logger EXCEPT ![l].at = "panic"] \/ logger' = [logger EXCEPT ![l].at = "idle"]
    BY DEF Post
  <2>3. LogTyped'
    <3>1. CASE UNCHANGED logger
      BY <2>1, <3>1 DEF LogTyped
    <3>2. CASE logger' = [logger EXCEPT ![l].at = "panic"]
      BY <2>1, <3>2 DEF LogTyped
    <3>3. CASE logger' = [logger EXCEPT ![l].at = "idle"]
      BY <2>1, <3>3 DEF LogTyped
    <3> QED
      BY <2>2, <3>1, <3>2, <3>3
  <2> QED
    BY <2>1, <2>3, SameLogs
<1>2. CASE ~(UNCHANGED <<wr, posted>>)
  <2> DEFINE r == [wr[g] EXCEPT !.ch = Append(@, log)]
             p == Append(posted[g], log)
  <2>1. /\ ~wr[g].closed
        /\ wr' = [wr EXCEPT ![g] = r]
        /\ posted' = [posted EXCEPT ![g] = p]
        /\ logger' = [logger EXCEPT ![l].at = "idle"]
        /\ UNCHANGED <<current, started, handed, crashed>>
    BY <1>0, <1>2 DEF Post, LogTyped
  <2>2. log \in Entries /\ wr[g] \in WriterFields /\ posted[g] \in Seq(Entries) /\ handed[g] \in Seq(Entries)
    BY <1>0 DEF LogTyped, Entries
  <2>3. wr[g].ch \in Seq(Entries) /\ wr[g].buffered \in Seq(Entries)
    BY <2>2 DEF WriterFields
  <2> HIDE DEF log
  <2>4. p \in Seq(Entries) /\ Append(wr[g].ch, log) \in Seq(Entries)
    BY <2>2, <2>3
  <2>5. /\ r \in WriterFields /\ r.ch = Append(wr[g].ch, log) /\ r.buffered = wr[g].buffered
        /\ r.closed = wr[g].closed
    BY <2>2, <2>4 DEF WriterFields
  <2> HIDE DEF p, r, g
  <2>6. LogTyped'
    BY <1>0, <2>1, <2>4, <2>5 DEF LogTyped
  <2>7. KeptBy(wr[g], posted[g], handed[g])
    BY <1>0 DEF AllKept
  <2>8. PICK n \in 0 .. Len(wr[g].buffered) :
           /\ Placed(posted[g], handed[g], wr[g].buffered, wr[g].ch, n)
           /\ n < Len(wr[g].buffered) => wr[g].closed /\ wr[g].ch = <<>>
    BY <2>7 DEF KeptBy
  <2>9. Placed(p, handed[g], wr[g].buffered, Append(wr[g].ch, log), n)
    BY <2>2, <2>3, <2>8, PlacedPost DEF p
  <2>10. KeptBy(r, p, handed[g])
    BY <2>1, <2>5, <2>8, <2>9 DEF KeptBy
  <2>11. handed' = [handed EXCEPT ![g] = handed[g]]
    BY <2>1 DEF LogTyped
  <2>12. Len(r.buffered) < MaxCount
    BY <1>0, <2>5 DEF BuffersShort
  <2> QED
    BY <1>0, <2>1, <2>2, <2>4, <2>5, <2>6, <2>10, <2>11, <2>12, OneMoves
<1> QED
  BY <1>1, <1>2

(* Steps of listen that read no log.                                        *)
LEMMA ListenKeeps ==
    ASSUME LogInv, crashed = {}, NEW g \in Writers,
           listenBegins(g) \/ EnterSelect(g) \/ SelectDone(g) \/ TimerFires(g) \/ ContextEnds(g)
    PROVE  LogInv'
<1> USE DEF LogInv
<1>1. UNCHANGED <<current, started, logger, posted, handed>>
  BY DEF listenBegins, EnterSelect, SelectDone, TimerFires, ContextEnds, idleRest
<1>2. PICK r \in WriterFields : /\ wr' = [wr EXCEPT ![g] = r]
                                /\ r.ch = wr[g].ch /\ r.buffered = wr[g].buffered
                                /\ r.closed = wr[g].closed
  <2>0. wr[g] \in WriterFields
    BY DEF LogTyped
  <2>1. CASE listenBegins(g)
    <3>1. PICK r : r = [wr[g] EXCEPT !.listen = "loop", !.cancel = TRUE]
      OBVIOUS
    <3>2. wr' = [wr EXCEPT ![g] = r]
      BY <2>1, <3>1 DEF listenBegins
    <3>3. /\ r \in WriterFields /\ r.ch = wr[g].ch /\ r.buffered = wr[g].buffered
          /\ r.closed = wr[g].closed
      BY <2>0, <3>1 DEF WriterFields
    <3> QED
      BY <3>2, <3>3
  <2>2. CASE EnterSelect(g)
    <3>1. PICK r : r = IF wr[g].timerNil THEN [wr[g] EXCEPT !.listen = "panic"]
                       ELSE [wr[g] EXCEPT !.listen = "select", !.open = ~wr[g].chNil]
      OBVIOUS
    <3>2. wr' = [wr EXCEPT ![g] = r]
      BY <2>2, <3>1 DEF EnterSelect, Panics
    <3>3. /\ r \in WriterFields /\ r.ch = wr[g].ch /\ r.buffered = wr[g].buffered
          /\ r.closed = wr[g].closed
      BY <2>0, <3>1 DEF WriterFields
    <3> QED
      BY <3>2, <3>3
  <2>3. CASE SelectDone(g)
    <3>1. PICK r : r = [wr[g] EXCEPT !.listen = "ended"]
      OBVIOUS
    <3>2. wr' = [wr EXCEPT ![g] = r]
      BY <2>3, <3>1 DEF SelectDone
    <3>3. /\ r \in WriterFields /\ r.ch = wr[g].ch /\ r.buffered = wr[g].buffered
          /\ r.closed = wr[g].closed
      BY <2>0, <3>1 DEF WriterFields
    <3> QED
      BY <3>2, <3>3
  <2>4. CASE TimerFires(g)
    <3>1. PICK r : r = [wr[g] EXCEPT !.timer = "fired"]
      OBVIOUS
    <3>2. wr' = [wr EXCEPT ![g] = r]
      BY <2>4, <3>1 DEF TimerFires
    <3>3. /\ r \in WriterFields /\ r.ch = wr[g].ch /\ r.buffered = wr[g].buffered
          /\ r.closed = wr[g].closed
      BY <2>0, <3>1 DEF WriterFields
    <3> QED
      BY <3>2, <3>3
  <2>5. CASE ContextEnds(g)
    <3>1. PICK r : r = [wr[g] EXCEPT !.done = TRUE]
      OBVIOUS
    <3>2. wr' = [wr EXCEPT ![g] = r]
      BY <2>5, <3>1 DEF ContextEnds
    <3>3. /\ r \in WriterFields /\ r.ch = wr[g].ch /\ r.buffered = wr[g].buffered
          /\ r.closed = wr[g].closed
      BY <2>0, <3>1 DEF WriterFields
    <3> QED
      BY <3>2, <3>3
  <2> QED
    BY <2>1, <2>2, <2>3, <2>4, <2>5
<1>3. LogTyped'
  BY <1>1, <1>2 DEF LogTyped
<1>4. \A j \in Writers : /\ wr'[j].ch = wr[j].ch
                         /\ wr'[j].buffered = wr[j].buffered
                         /\ wr[j].closed => wr'[j].closed
  BY <1>2 DEF LogTyped
<1> QED
  BY <1>1, <1>3, <1>4, SameLogs

(* flush of what KeptBy describes: the batch is handed on, or a nil in it   *)
(* ends the process.                                                        *)
LEMMA FlushKeeps ==
    ASSUME LogInv, crashed = {}, NEW g \in Writers, NEW r \in WriterFields,
           KeptBy(r, posted[g], handed[g]), flush(g, r), UNCHANGED idleRest
    PROVE  LogInv'
<1> USE DEF LogInv
<1>0. /\ posted[g] \in Seq(Entries) /\ handed[g] \in Seq(Entries)
      /\ r.buffered \in Seq(Entries) /\ r.ch \in Seq(Entries)
      /\ posted' = [posted EXCEPT ![g] = posted[g]]
  BY DEF LogTyped, WriterFields, idleRest
<1>1. CASE \E k \in DOMAIN r.buffered : r.buffered[k] = NilLog
  <2> DEFINE r1 == [r EXCEPT !.listen = "panic"]
  <2>1. /\ wr' = [wr EXCEPT ![g] = r1]
        /\ crashed' = crashed \cup {"listen"}
        /\ UNCHANGED handed
    BY <1>1 DEF flush, Panics
  <2>2. r1 \in WriterFields /\ r1.ch = r.ch /\ r1.buffered = r.buffered /\ r1.closed = r.closed
    BY DEF WriterFields
  <2> HIDE DEF r1
  <2>3. LogTyped'
    BY <2>1, <2>2 DEF LogTyped, idleRest
  <2>4. KeptBy(r1, posted[g], handed[g])
    BY <2>2 DEF KeptBy
  <2>5. handed' = [handed EXCEPT ![g] = handed[g]] /\ crashed' # {}
    BY <2>1 DEF LogTyped
  <2> QED
    BY <1>0, <2>1, <2>2, <2>3, <2>4, <2>5, OneMoves
<1>2. CASE ~(\E k \in DOMAIN r.buffered : r.buffered[k] = NilLog)
  <2> DEFINE r1 == [r EXCEPT !.buffered = <<>>]
             h == handed[g] \o r.buffered
  <2>1. /\ wr' = [wr EXCEPT ![g] = r1]
        /\ handed' = [handed EXCEPT ![g] = h]
        /\ UNCHANGED crashed
    BY <1>2 DEF flush, LogTyped
  <2>e. <<>> \in Seq(Entries)
    OBVIOUS
  <2>2. r1 \in WriterFields /\ r1.ch = r.ch /\ r1.buffered = <<>> /\ r1.closed = r.closed
    BY <2>e DEF WriterFields
  <2>3. h \in Seq(Entries)
    BY <1>0
  <2>4. PICK n \in 0 .. Len(r.buffered) :
           /\ Placed(posted[g], handed[g], r.buffered, r.ch, n)
           /\ n < Len(r.buffered) => r.closed /\ r.ch = <<>>
    BY DEF KeptBy
  <2>5. n = Len(r.buffered)
    <3> SUFFICES ASSUME n # Len(r.buffered) PROVE FALSE
      OBVIOUS
    <3>1. n + 1 \in n + 1 .. Len(r.buffered) /\ n + 1 \in DOMAIN r.buffered
      BY <1>0
    <3>2. r.buffered[n + 1] = NilLog
      BY <2>4, <3>1 DEF Placed
    <3> QED
      BY <1>2, <3>1, <3>2
  <2>6. Placed(posted[g], h, <<>>, r.ch, 0)
    BY <1>0, <2>4, <2>5, PlacedFlush
  <2> HIDE DEF r1, h
  <2>7. Len(r1.buffered) = 0
    BY <2>2
  <2>8. KeptBy(r1, posted[g], h)
    BY <2>2, <2>6, <2>7 DEF KeptBy
  <2>9. LogTyped'
    BY <2>1, <2>2, <2>3 DEF LogTyped, idleRest
  <2>10. Len(r1.buffered) < MaxCount
    BY <2>7, LogWriterAssumption
  <2> QED
    BY <1>0, <2>1, <2>2, <2>3, <2>8, <2>9, <2>10, OneMoves
<1> QED
  BY <1>1, <1>2

LEMMA TimerKeeps ==
    ASSUME LogInv, crashed = {}, NEW g \in Writers, SelectTimer(g)
    PROVE  LogInv'
<1> USE DEF LogInv
<1> DEFINE r == [wr[g] EXCEPT !.timer = "stopped", !.listen = "loop"]
<1>1. wr[g] \in WriterFields
  BY DEF LogTyped
<1>2. r \in WriterFields /\ r.ch = wr[g].ch /\ r.buffered = wr[g].buffered /\ r.closed = wr[g].closed
  BY <1>1 DEF WriterFields
<1>3. flush(g, r) /\ UNCHANGED idleRest
  BY DEF SelectTimer
<1> HIDE DEF r
<1>4. KeptBy(r, posted[g], handed[g])
  BY <1>2 DEF AllKept, KeptBy
<1> QED
  BY <1>2, <1>3, <1>4, FlushKeeps

LEMMA SelectLogKeeps ==
    ASSUME LogInv, crashed = {}, NEW g \in Writers, SelectLog(g)
    PROVE  LogInv'
<1> USE DEF LogInv
<1> DEFINE log == IF wr[g].ch = <<>> THEN NilLog ELSE Head(wr[g].ch)
           c == IF wr[g].ch = <<>> THEN wr[g].ch ELSE Tail(wr[g].ch)
           b == Append(wr[g].buffered, log)
           r == [wr[g] EXCEPT !.ch = IF @ = <<>> THEN @ ELSE Tail(@), !.listen = "loop",
                              !.buffered = Append(@, log)]
<1>1. /\ wr[g] \in WriterFields /\ posted[g] \in Seq(Entries) /\ handed[g] \in Seq(Entries)
      /\ wr[g].ch \in Seq(Entries) /\ wr[g].buffered \in Seq(Entries)
  BY DEF LogTyped, WriterFields
<1>2. /\ IF Len(r.buffered) >= MaxCount THEN flush(g, r)
         ELSE wr' = [wr EXCEPT ![g] = r] /\ UNCHANGED <<handed, storeErrors, crashed>>
      /\ wr[g].ch # <<>> \/ wr[g].closed
      /\ UNCHANGED idleRest
  BY DEF SelectLog
<1>3. log \in Entries
  BY <1>1 DEF NilLog, Entries
<1>4. c \in Seq(Entries) /\ b \in Seq(Entries)
  BY <1>1, <1>3
<1>5. r.ch = c /\ r.buffered = b /\ r.closed = wr[g].closed /\ r \in WriterFields
  BY <1>1, <1>4 DEF WriterFields
<1>6. PICK n \in 0 .. Len(wr[g].buffered) :
         /\ Placed(posted[g], handed[g], wr[g].buffered, wr[g].ch, n)
         /\ n < Len(wr[g].buffered) => wr[g].closed /\ wr[g].ch = <<>>
  BY DEF AllKept, KeptBy
<1>7. Len(b) = Len(wr[g].buffered) + 1 /\ Len(wr[g].buffered) \in Nat
  BY <1>1, <1>3
<1> HIDE DEF r
<1>8. KeptBy(r, posted[g], handed[g])
  <2>1. CASE wr[g].ch = <<>>
    <3>1. c = wr[g].ch /\ log = NilLog /\ wr[g].closed
      BY <1>2, <2>1
    <3>2. Placed(posted[g], handed[g], b, c, n)
      BY <1>1, <1>6, <3>1, PlacedNil
    <3>3. n \in 0 .. Len(b)
      BY <1>7
    <3> QED
      BY <1>5, <2>1, <3>1, <3>2, <3>3 DEF KeptBy
  <2>2. CASE wr[g].ch # <<>>
    <3>1. n = Len(wr[g].buffered)
      BY <1>6, <1>7, <2>2
    <3>2. Placed(posted[g], handed[g], b, c, Len(wr[g].buffered) + 1)
      BY <1>1, <1>6, <2>2, <3>1, PlacedTake
    <3>3. Len(b) \in 0 .. Len(b)
      BY <1>7
    <3> QED
      BY <1>5, <1>7, <3>2, <3>3 DEF KeptBy
  <2> QED
    BY <2>1, <2>2
<1> HIDE DEF b, c, log
<1>9. CASE Len(r.buffered) >= MaxCount
  BY <1>2, <1>5, <1>8, <1>9, FlushKeeps
<1>10. CASE ~(Len(r.buffered) >= MaxCount)
  <2>1. wr' = [wr EXCEPT ![g] = r] /\ UNCHANGED <<handed, storeErrors, crashed>>
    BY <1>2, <1>10
  <2>2. LogTyped'
    BY <1>2, <1>5, <2>1 DEF LogTyped, idleRest
  <2>3. /\ posted' = [posted EXCEPT ![g] = posted[g]]
        /\ handed' = [handed EXCEPT ![g] = handed[g]]
    BY <1>2, <2>1 DEF LogTyped, idleRest
  <2>4. Len(r.buffered) < MaxCount
    BY <1>5, <1>7, <1>10, LogWriterAssumption
  <2> QED
    BY <1>1, <1>5, <1>8, <2>1, <2>2, <2>3, <2>4, OneMoves
<1> QED
  BY <1>9, <1>10

LEMMA LogStep == LogInv /\ LogNext => LogInv'
  BY AdminKeeps, LoadKeeps, PostKeeps, ListenKeeps, TimerKeeps, SelectLogKeeps DEF LogNext

LEMMA LogStutter == LogInv /\ UNCHANGED logVars => LogInv'
  BY DEF logVars, LogInv, LogTyped, AllKept, KeptBy, BuffersShort

LEMMA LogInvKept == LogInv => LogsKept
<1> SUFFICES ASSUME LogInv, NEW g \in Writers
             PROVE  /\ \E n \in 0 .. Len(wr[g].buffered) :
                          /\ posted[g] = handed[g] \o SubSeq(wr[g].buffered, 1, n) \o wr[g].ch
                          /\ \A k \in n + 1 .. Len(wr[g].buffered) : wr[g].buffered[k] = NilLog
                    /\ crashed = {} => Len(wr[g].buffered) < MaxCount
  BY DEF LogsKept
<1> USE DEF LogInv
<1>1. /\ posted[g] \in Seq(Entries) /\ handed[g] \in Seq(Entries)
      /\ wr[g].ch \in Seq(Entries) /\ wr[g].buffered \in Seq(Entries)
  BY DEF LogTyped, WriterFields
<1>2. PICK n \in 0 .. Len(wr[g].buffered) :
         Placed(posted[g], handed[g], wr[g].buffered, wr[g].ch, n)
  BY DEF AllKept, KeptBy
<1>3. posted[g] = handed[g] \o SubSeq(wr[g].buffered, 1, n) \o wr[g].ch
  <2>1. PICK p, h, b, c : p = posted[g] /\ h = handed[g] /\ b = wr[g].buffered /\ c = wr[g].ch
    OBVIOUS
  <2>2. /\ p \in Seq(Entries) /\ h \in Seq(Entries) /\ b \in Seq(Entries) /\ c \in Seq(Entries)
        /\ n \in 0 .. Len(b) /\ Placed(p, h, b, c, n)
    BY <1>1, <1>2, <2>1
  <2>3. p = h \o SubSeq(b, 1, n) \o c
    BY ONLY <2>2, PlacedWhole
  <2> QED
    BY <2>1, <2>3
<1>4. \A k \in n + 1 .. Len(wr[g].buffered) : wr[g].buffered[k] = NilLog
  BY <1>2 DEF Placed
<1>5. crashed = {} => Len(wr[g].buffered) < MaxCount
  BY DEF BuffersShort
<1> QED
  BY <1>3, <1>4, <1>5

(* logging.Writer: whatever was posted to a writer was handed to the store  *)
(* once and in order, or is on its way, whenever Start and Stop replace the *)
(* writer, and the buffer never holds a full batch.                         *)
THEOREM LogsReachTheStore == PartsSpec => []LogsKept
<1>1. PartsInit => LogInv
  BY LogInitInv DEF PartsInit
<1>2. LogInv /\ [PartsNext]_all => LogInv'
  BY LogStep, LogStutter
     DEF PartsNext, Users, Rankings, LogWriters, Collecting, Coding, all
<1> QED
  BY <1>1, <1>2, LogInvKept, PTL DEF PartsSpec

-----------------------------------------------------------------------------
(* The linked lists.                                                        *)

Entry == [node : Nodes, value : Values]

(* A history whose nodes were allocated in the order of the values.         *)
Grown(q, n) ==
    /\ q \in Seq(Entry)
    /\ \A k \in 1 .. Len(q) : q[k].node <= n
    /\ \A j, k \in 1 .. Len(q) : j < k => q[j].node < q[k].node

CollTyped ==
    /\ used \in 0 .. MaxNodes
    /\ value \in [Nodes -> Values \cup {Nil}]
    /\ next \in [Nodes -> Nodes \cup {Nil}]
    /\ Grown(inQueue, used)
    /\ Grown(onStack, used)
    /\ size = Len(inQueue) /\ height = Len(onStack)
    /\ last \in 0 .. used

(* What last may be when the queue is empty: any node but one of the stack. *)
LastSafe ==
    /\ inQueue # <<>> => last = inQueue[Len(inQueue)].node
    /\ \A k \in 1 .. Len(onStack) : onStack[k].node # last

CollInv == CollTyped /\ LastSafe /\ QueueLinked /\ StackLinked /\ popped[1] = popped[2]

LEMMA CollInitInv == CollInit => CollInv
<1> SUFFICES ASSUME CollInit PROVE CollInv
  OBVIOUS
<1> USE DEF CollInit
<1>1. Grown(<<>>, 0) /\ Len(<<>>) = 0
  BY DEF Grown
<1>2. CollTyped
  BY <1>1, CollectionsAssumption DEF CollTyped, Nil
<1>3. LastSafe /\ QueueLinked /\ StackLinked
  BY DEF LastSafe, QueueLinked, StackLinked, Nil
<1> QED
  BY <1>2, <1>3 DEF CollInv

(* Some new values behind a history.                                        *)
Extends(q1, q, vals) ==
    /\ Len(q1) = Len(q) + Len(vals)
    /\ \A k \in 1 .. Len(q) : q1[k] = q[k]
    /\ \A k \in 1 .. Len(vals) :
          q1[Len(q) + k].node = used + k /\ q1[Len(q) + k].value = vals[k]
    /\ Grown(q1, used + Len(vals))
    /\ q1 # <<>>

LEMMA Growing ==
    ASSUME NEW q \in Seq(Entry), used \in Nat, Grown(q, used),
           NEW vals \in Seq(Values), Len(vals) > 0, used + Len(vals) <= MaxNodes,
           NEW q1, q1 = q \o Entered(vals)
    PROVE  Extends(q1, q, vals)
<1> DEFINE e == Entered(vals)
<1>0. Len(vals) \in Nat /\ Len(q) \in Nat /\ DOMAIN vals = 1 .. Len(vals) /\ MaxNodes \in Nat
  BY CollectionsAssumption
<1>1. \A k \in 1 .. Len(vals) : [node |-> used + k, value |-> vals[k]] \in Entry
  BY <1>0 DEF Entry, Nodes
<1>2. /\ e \in Seq(Entry) /\ Len(e) = Len(vals)
      /\ \A k \in 1 .. Len(vals) : e[k] = [node |-> used + k, value |-> vals[k]]
  <2>1. e = [k \in 1 .. Len(vals) |-> [node |-> used + k, value |-> vals[k]]]
    BY <1>0 DEF Entered, Allocated
  <2> HIDE DEF e
  <2>2. \A k \in 1 .. Len(vals) : e[k] = [node |-> used + k, value |-> vals[k]]
    BY <2>1
  <2>3. DOMAIN e = 1 .. Len(vals)
    BY <2>1
  <2>4. e \in [1 .. Len(vals) -> Entry]
    BY <1>1, <2>1
  <2>5. e \in Seq(Entry) /\ Len(e) = Len(vals)
    BY <1>0, <2>3, <2>4
  <2> QED
    BY <2>2, <2>5
<1> HIDE DEF e
<1>3. q1 = q \o e /\ e \in Seq(Entry)
  BY <1>2 DEF e
<1>4. q1 \in Seq(Entry) /\ Len(q1) = Len(q) + Len(e)
  BY <1>3
<1>5. \A k \in 1 .. Len(q) : q1[k] = q[k]
  BY <1>3
<1>6. \A k \in 1 .. Len(e) : q1[Len(q) + k] = e[k]
  BY <1>3
<1>7. ASSUME NEW k \in 1 .. Len(q1)
      PROVE  \/ k \in 1 .. Len(q) /\ q1[k] = q[k]
             \/ \E i \in 1 .. Len(vals) : k = Len(q) + i /\ q1[k].node = used + i
  <2>1. CASE k \in 1 .. Len(q)
    BY <1>5, <2>1
  <2>2. CASE k \notin 1 .. Len(q)
    <3>1. PICK i \in 1 .. Len(vals) : k = Len(q) + i
      <4>1. k - Len(q) \in 1 .. Len(vals) /\ k = Len(q) + (k - Len(q))
        BY <1>0, <1>2, <1>4, <2>2
      <4> QED
        BY <4>1
    <3>2. q1[k] = [node |-> used + i, value |-> vals[i]]
      BY <1>2, <1>6, <3>1
    <3> QED
      BY <3>1, <3>2
  <2> QED
    BY <2>1, <2>2
<1>8. \A k \in 1 .. Len(q) : q[k].node \in Nat /\ q[k].node <= used
  <2> TAKE k \in 1 .. Len(q)
  <2>1. q[k] \in Entry /\ q[k].node <= used
    BY DEF Grown
  <2> QED
    BY <1>0, <2>1 DEF Entry, Nodes
<1>9. ASSUME NEW k \in 1 .. Len(q1) PROVE q1[k].node <= used + Len(vals)
  <2>1. CASE k \in 1 .. Len(q) /\ q1[k] = q[k]
    <3>1. q[k].node \in Nat /\ q[k].node <= used
      BY <1>8, <2>1
    <3> QED
      BY <1>0, <2>1, <3>1
  <2>2. CASE \E i \in 1 .. Len(vals) : k = Len(q) + i /\ q1[k].node = used + i
    BY <1>0, <2>2
  <2> QED
    BY <1>7, <2>1, <2>2
<1>10. ASSUME NEW j \in 1 .. Len(q1), NEW k \in 1 .. Len(q1), j < k
       PROVE  q1[j].node < q1[k].node
  <2>1. CASE j \in 1 .. Len(q) /\ k \in 1 .. Len(q)
    BY <1>5, <1>10, <2>1 DEF Grown
  <2>2. CASE j \in 1 .. Len(q) /\ k \notin 1 .. Len(q)
    <3>1. q1[j].node \in Nat /\ q1[j].node <= used
      BY <1>5, <1>8, <2>2
    <3>2. PICK i \in 1 .. Len(vals) : q1[k].node = used + i
      BY <1>7, <2>2
    <3> QED
      BY <1>0, <3>1, <3>2
  <2>3. CASE j \notin 1 .. Len(q)
    <3>1. k \notin 1 .. Len(q)
      BY <1>0, <1>4, <1>10, <2>3
    <3>2. PICK i \in 1 .. Len(vals) : j = Len(q) + i /\ q1[j].node = used + i
      BY <1>7, <2>3
    <3>3. PICK o \in 1 .. Len(vals) : k = Len(q) + o /\ q1[k].node = used + o
      BY <1>7, <3>1
    <3> QED
      BY <1>0, <1>10, <3>2, <3>3
  <2> QED
    BY <2>1, <2>2, <2>3
<1>11. Grown(q1, used + Len(vals))
  BY <1>4, <1>9, <1>10 DEF Grown
<1>12. q1 # <<>>
  BY <1>0, <1>2, <1>4
<1>13. ASSUME NEW k \in 1 .. Len(vals)
       PROVE  q1[Len(q) + k].node = used + k /\ q1[Len(q) + k].value = vals[k]
  <2>1. q1[Len(q) + k] = [node |-> used + k, value |-> vals[k]]
    BY <1>2, <1>6
  <2> QED
    BY <2>1
<1> QED
  BY <1>2, <1>4, <1>5, <1>11, <1>12, <1>13 DEF Extends

(* The nodes of a history are allocated nodes.                              *)
LEMMA GrownNodes ==
    ASSUME NEW q, used \in 0 .. MaxNodes, Grown(q, used), NEW k \in 1 .. Len(q)
    PROVE  q[k].node \in 1 .. used /\ q[k].node \in Nodes
<1>1. q[k] \in Entry /\ q[k].node <= used
  BY DEF Grown
<1> QED
  BY <1>1, CollectionsAssumption DEF Entry, Nodes

LEMMA Tails ==
    ASSUME NEW q, Grown(q, used), q # <<>>, NEW r, r = Tail(q)
    PROVE  Grown(r, used) /\ Len(r) = Len(q) - 1 /\ \A k \in 1 .. Len(r) : r[k] = q[k + 1]
<1>1. q \in Seq(Entry)
  BY DEF Grown
<1>2. r \in Seq(Entry) /\ Len(r) = Len(q) - 1 /\ Len(q) \in Nat
  BY <1>1
<1>3. \A k \in 1 .. Len(r) : r[k] = q[k + 1] /\ k + 1 \in 1 .. Len(q)
  BY <1>1, <1>2
<1> QED
  BY <1>2, <1>3 DEF Grown

LEMMA Fronts ==
    ASSUME NEW q, Grown(q, used), q # <<>>, NEW r, r = SubSeq(q, 1, Len(q) - 1)
    PROVE  Grown(r, used) /\ Len(r) = Len(q) - 1 /\ \A k \in 1 .. Len(r) : r[k] = q[k]
<1>1. q \in Seq(Entry)
  BY DEF Grown
<1>2. PICK n \in 0 .. Len(q) : n = Len(q) - 1 /\ Len(q) \in Nat
  <2>1. Len(q) \in Nat /\ Len(q) > 0
    BY <1>1
  <2> QED
    BY <2>1
<1>3. r \in Seq(Entry) /\ Len(r) = n /\ \A k \in 1 .. n : r[k] = q[k]
  <2>1. r = SubSeq(q, 1, n)
    BY <1>2
  <2> QED
    BY <1>1, <2>1
<1>4. \A k \in 1 .. n : k \in 1 .. Len(q)
  BY <1>2
<1> QED
  BY <1>2, <1>3, <1>4 DEF Grown

(* The allocated nodes keep their fields, except perhaps the node last.     *)
NodesKeep(except) ==
    \A n \in 1 .. used : value'[n] = value[n] /\ (n # except => next'[n] = next[n])

LEMMA QueueKept ==
    ASSUME CollInv, NodesKeep(Nil), UNCHANGED <<first, inQueue>>
    PROVE  QueueLinked'
<1>1. ASSUME NEW k \in DOMAIN inQueue
      PROVE  /\ value'[inQueue[k].node] = value[inQueue[k].node]
             /\ next'[inQueue[k].node] = next[inQueue[k].node]
  <2>1. k \in 1 .. Len(inQueue)
    BY DEF CollInv, CollTyped, Grown
  <2>2. inQueue[k].node \in 1 .. used
    BY <2>1, GrownNodes DEF CollInv, CollTyped
  <2> QED
    BY <2>2 DEF NodesKeep, Nil
<1> QED
  BY <1>1 DEF CollInv, QueueLinked

LEMMA StackKept ==
    ASSUME CollInv, NodesKeep(last), UNCHANGED <<top, onStack>>
    PROVE  StackLinked'
<1>1. ASSUME NEW k \in DOMAIN onStack
      PROVE  /\ value'[onStack[k].node] = value[onStack[k].node]
             /\ next'[onStack[k].node] = next[onStack[k].node]
  <2>1. k \in 1 .. Len(onStack)
    BY DEF CollInv, CollTyped, Grown
  <2>2. onStack[k].node \in 1 .. used /\ onStack[k].node # last
    BY <2>1, GrownNodes DEF CollInv, CollTyped, LastSafe
  <2> QED
    BY <2>2 DEF NodesKeep
<1> QED
  BY <1>1 DEF CollInv, StackLinked

LEMMA NewNodes ==
    ASSUME used \in Nat, NEW vals, DOMAIN vals = 1 .. Len(vals), Len(vals) \in Nat
    PROVE  \A n \in Nodes : (n \in {Allocated(k) : k \in DOMAIN vals}
                                <=> n \in used + 1 .. used + Len(vals))
<1> DEFINE m == Len(vals)
<1>1. ASSUME NEW n \in used + 1 .. used + m PROVE \E k \in 1 .. m : n = used + k
  <2>1. n - used \in 1 .. m /\ n = used + (n - used)
    OBVIOUS
  <2> QED
    BY <2>1
<1>2. \A k \in 1 .. m : used + k \in used + 1 .. used + m
  OBVIOUS
<1>3. {Allocated(k) : k \in DOMAIN vals} = {used + k : k \in 1 .. m}
  BY DEF Allocated
<1> QED
  BY <1>1, <1>2, <1>3

LEMMA InKeeps ==
    ASSUME CollInv, NEW vals \in Seq(Values), Len(vals) > 0, In(vals)
    PROVE  CollInv'
<1> DEFINE m == Len(vals)
           q == inQueue
<1>0. /\ m \in Nat \ {0} /\ used \in Nat /\ used + m <= MaxNodes /\ MaxNodes \in Nat
      /\ DOMAIN vals = 1 .. m
  BY CollectionsAssumption DEF In, Fits, CollInv, CollTyped
<1>1. \A n \in Nodes : (n \in {Allocated(k) : k \in DOMAIN vals} <=> n \in used + 1 .. used + m)
  BY <1>0, NewNodes
<1>2. \A n \in Nodes : value'[n] = IF n \in used + 1 .. used + m THEN vals[n - used] ELSE value[n]
  BY <1>1 DEF In
<1>3. \A n \in Nodes :
         next'[n] = IF n \in used + 1 .. used + m THEN IF n - used < m THEN n + 1 ELSE Nil
                    ELSE IF n = last THEN used + 1 ELSE next[n]
  BY <1>1 DEF In, Allocated
<1>4. /\ used' = used + m /\ last' = used + m /\ size' = size + m
      /\ first' = IF first = Nil THEN used + 1 ELSE first
      /\ UNCHANGED <<top, height, onStack, popped>>
  BY DEF In, Allocated, stackVars
<1>5. PICK q1 : q1 = q \o Entered(vals)
  OBVIOUS
<1>6. inQueue' = q1
  BY <1>5 DEF In
<1>7. q \in Seq(Entry) /\ Grown(q, used) /\ Len(q) \in Nat
  BY DEF CollInv, CollTyped, Grown
<1>8. /\ Len(q1) = Len(q) + m
      /\ \A k \in 1 .. Len(q) : q1[k] = q[k]
      /\ \A k \in 1 .. m : q1[Len(q) + k].node = used + k /\ q1[Len(q) + k].value = vals[k]
      /\ Grown(q1, used + m)
      /\ q1 # <<>>
  <2>1. /\ Grown(q, used) /\ used \in Nat /\ Len(vals) > 0 /\ used + Len(vals) <= MaxNodes
        /\ q \in Seq(Entry) /\ vals \in Seq(Values) /\ q1 = q \o Entered(vals)
    BY <1>0, <1>5, <1>7
  <2>2. Extends(q1, q, vals)
    BY <2>1, Growing
  <2> QED
    BY <2>2 DEF Extends
<1> HIDE DEF m
<1>9. DOMAIN q1 = 1 .. Len(q) + m
  BY <1>8 DEF Grown
<1>10. \A n \in 1 .. used : n \in Nodes /\ n \notin used + 1 .. used + m
  BY <1>0 DEF Nodes
<1>11. \A n \in used + 1 .. used + m : n \in Nodes
  BY <1>0 DEF Nodes
<1>12. CollTyped'
  <2>1. ASSUME NEW n \in Nodes PROVE value'[n] \in Values \cup {Nil}
    <3>1. CASE n \in used + 1 .. used + m
      <4>1. n - used \in 1 .. m
        BY <1>0, <3>1
      <4> QED
        BY <1>0, <1>2, <3>1, <4>1
    <3>2. CASE n \notin used + 1 .. used + m
      BY <1>2, <3>2 DEF CollInv, CollTyped
    <3> QED
      BY <3>1, <3>2
  <2>2. ASSUME NEW n \in Nodes PROVE next'[n] \in Nodes \cup {Nil}
    <3>1. CASE n \in used + 1 .. used + m
      <4>1. n - used < m => n + 1 \in Nodes
        BY <1>0, <3>1 DEF Nodes
      <4> QED
        BY <1>3, <3>1, <4>1
    <3>2. CASE n \notin used + 1 .. used + m
      <4>1. used + 1 \in Nodes
        BY <1>0 DEF Nodes
      <4> QED
        BY <1>3, <3>2, <4>1 DEF CollInv, CollTyped
    <3> QED
      BY <3>1, <3>2
  <2>3. value' \in [Nodes -> Values \cup {Nil}] /\ next' \in [Nodes -> Nodes \cup {Nil}]
    BY <2>1, <2>2 DEF In
  <2>4. Grown(onStack', used')
    <3>1. \A k \in 1 .. Len(onStack) : onStack[k].node \in 1 .. used
      BY GrownNodes DEF CollInv, CollTyped
    <3> QED
      BY <1>0, <1>4, <3>1 DEF CollInv, CollTyped, Grown
  <2>5. size' = Len(inQueue')
    BY <1>4, <1>6, <1>8 DEF CollInv, CollTyped
  <2> QED
    BY <1>0, <1>4, <1>6, <1>8, <2>3, <2>4, <2>5 DEF CollInv, CollTyped
<1>13. LastSafe'
  <2>1. inQueue'[Len(inQueue')].node = used + m
    BY <1>0, <1>6, <1>8
  <2>2. \A k \in 1 .. Len(onStack) : onStack[k].node # used + m
    <3>1. \A k \in 1 .. Len(onStack) : onStack[k].node \in 1 .. used
      BY GrownNodes DEF CollInv, CollTyped
    <3> QED
      BY <1>0, <3>1
  <2> QED
    BY <1>4, <2>1, <2>2 DEF LastSafe
<1>14. StackLinked'
  <2>1. NodesKeep(last)
    BY <1>2, <1>3, <1>10 DEF NodesKeep
  <2> QED
    BY <1>4, <2>1, StackKept
<1>15. QueueLinked'
  <2>1. first' = q1[1].node
    <3>1. CASE q = <<>>
      <4>1. first = Nil /\ Len(q) = 0
        BY <3>1 DEF CollInv, QueueLinked
      <4>2. q1[0 + 1].node = used + 1
        BY <1>0, <1>8, <4>1
      <4> QED
        BY <1>4, <4>1, <4>2
    <3>2. CASE q # <<>>
      <4>1. Len(q) > 0 /\ 1 \in 1 .. Len(q)
        BY <1>7, <3>2
      <4>2. first = q[1].node /\ q[1].node \in 1 .. used
        BY <1>7, <3>2, <4>1, GrownNodes DEF CollInv, CollTyped, QueueLinked
      <4>3. first # Nil
        BY <1>0, <4>2 DEF Nil
      <4> QED
        BY <1>4, <1>8, <4>1, <4>2, <4>3
    <3> QED
      BY <3>1, <3>2
  <2>2. ASSUME NEW k \in 1 .. Len(q)
        PROVE  /\ value'[q1[k].node] = q1[k].value
               /\ next'[q1[k].node] = IF k = Len(q1) THEN Nil ELSE q1[k + 1].node
    <3>1. q[k].node \in 1 .. used /\ q1[k] = q[k]
      BY <1>7, <1>8, GrownNodes DEF CollInv, CollTyped
    <3>2. /\ value[q[k].node] = q[k].value
          /\ next[q[k].node] = IF k = Len(q) THEN Nil ELSE q[k + 1].node
      BY <1>7 DEF CollInv, QueueLinked
    <3>3. k # Len(q1) /\ q # <<>>
      BY <1>0, <1>7, <1>8
    <3>4. value'[q1[k].node] = q1[k].value
      BY <1>2, <1>10, <3>1, <3>2
    <3>5. CASE k = Len(q)
      <4>1. last = q[k].node
        BY <3>3, <3>5 DEF CollInv, LastSafe
      <4>2. next'[q[k].node] = used + 1
        BY <1>3, <1>10, <3>1, <4>1
      <4>3. q1[k + 1].node = used + 1
        BY <1>0, <1>8, <3>5
      <4> QED
        BY <3>1, <3>3, <3>4, <4>2, <4>3
    <3>6. CASE k # Len(q)
      <4>1. /\ k + 1 \in 1 .. Len(q) /\ Len(q) \in 1 .. Len(q) /\ k < Len(q)
        BY <1>7, <3>6
      <4>2. q[k].node < q[Len(q)].node /\ last = q[Len(q)].node
        BY <1>7, <3>3, <4>1 DEF CollInv, LastSafe, Grown
      <4>3. q[k].node # last
        BY <1>0, <3>1, <4>2
      <4>4. next'[q[k].node] = next[q[k].node]
        BY <1>3, <1>10, <3>1, <4>3
      <4>5. q1[k + 1] = q[k + 1]
        BY <1>8, <4>1
      <4> QED
        BY <3>1, <3>2, <3>3, <3>4, <3>6, <4>4, <4>5
    <3> QED
      BY <3>5, <3>6
  <2>3. ASSUME NEW i \in 1 .. m
        PROVE  /\ value'[q1[Len(q) + i].node] = q1[Len(q) + i].value
               /\ next'[q1[Len(q) + i].node] =
                     IF Len(q) + i = Len(q1) THEN Nil ELSE q1[Len(q) + i + 1].node
    <3>1. q1[Len(q) + i].node = used + i /\ q1[Len(q) + i].value = vals[i]
      BY <1>8
    <3>2. used + i \in used + 1 .. used + m /\ used + i \in Nodes /\ (used + i) - used = i
      BY <1>0, <1>11
    <3>3. value'[used + i] = vals[i]
      BY <1>2, <3>2
    <3>4. next'[used + i] = IF i < m THEN used + i + 1 ELSE Nil
      BY <1>3, <3>2
    <3>5. CASE i < m
      <4>1. i + 1 \in 1 .. m /\ Len(q) + i # Len(q1) /\ Len(q) + i + 1 = Len(q) + (i + 1)
        BY <1>0, <1>7, <1>8, <3>5
      <4>2. q1[Len(q) + (i + 1)].node = used + (i + 1)
        BY <1>8, <4>1
      <4>3. used + i + 1 = used + (i + 1)
        BY <1>0
      <4> QED
        BY <3>1, <3>3, <3>4, <3>5, <4>1, <4>2, <4>3
    <3>6. CASE ~(i < m)
      <4>1. i = m
        BY <1>0, <3>6
      <4>2. Len(q) + i = Len(q1)
        BY <1>8, <4>1
      <4> QED
        BY <3>1, <3>3, <3>4, <3>6, <4>2
    <3> QED
      BY <3>5, <3>6
  <2>4. ASSUME NEW k \in DOMAIN q1
        PROVE  /\ value'[q1[k].node] = q1[k].value
               /\ next'[q1[k].node] = IF k = Len(q1) THEN Nil ELSE q1[k + 1].node
    <3>1. CASE k \in 1 .. Len(q)
      BY <2>2, <3>1
    <3>2. CASE k \notin 1 .. Len(q)
      <4>1. k - Len(q) \in 1 .. m /\ Len(q) + (k - Len(q)) = k
        BY <1>0, <1>7, <1>9, <3>2
      <4> QED
        BY <2>3, <4>1
    <3> QED
      BY <3>1, <3>2
  <2> QED
    BY <1>6, <1>8, <2>1, <2>4 DEF QueueLinked
<1>16. popped'[1] = popped'[2]
  BY <1>4 DEF CollInv
<1> QED
  BY <1>12, <1>13, <1>14, <1>15, <1>16 DEF CollInv

LEMMA OutKeeps ==
    ASSUME CollInv, Out
    PROVE  CollInv'
<1> DEFINE q == inQueue
<1>0. /\ q \in Seq(Entry) /\ Len(q) \in Nat /\ Grown(q, used)
  BY DEF CollInv, CollTyped, Grown
<1>1. q # <<>> /\ first = q[1].node /\ Len(q) > 0 /\ 1 \in 1 .. Len(q)
  <2>1. q # <<>>
    BY DEF Out, CollInv, QueueLinked
  <2> QED
    BY <1>0, <2>1 DEF CollInv, QueueLinked
<1>2. PICK r : r = Tail(q)
  OBVIOUS
<1>3. /\ inQueue' = r /\ first' = next[first] /\ size' = size - 1
      /\ popped' = <<value[first], Head(q).value>>
      /\ UNCHANGED <<value, next, used, last, top, height, onStack>>
  BY <1>2 DEF Out, stackVars
<1>4. Grown(r, used) /\ Len(r) = Len(q) - 1 /\ \A k \in 1 .. Len(r) : r[k] = q[k + 1]
  BY <1>0, <1>1, <1>2, Tails
<1>5. \A k \in 1 .. Len(q) : /\ value[q[k].node] = q[k].value
                             /\ next[q[k].node] = IF k = Len(q) THEN Nil ELSE q[k + 1].node
  BY <1>0 DEF CollInv, QueueLinked
<1>6. CollTyped'
  BY <1>3, <1>4 DEF CollInv, CollTyped
<1>7. LastSafe'
  <2>1. r # <<>> => last = r[Len(r)].node
    <3> SUFFICES ASSUME r # <<>> PROVE last = r[Len(r)].node
      OBVIOUS
    <3>1. r \in Seq(Entry)
      BY <1>4 DEF Grown
    <3>2. Len(r) > 0 /\ Len(r) \in 1 .. Len(r) /\ Len(r) + 1 = Len(q)
      BY <1>0, <1>4, <3>1
    <3>3. r[Len(r)] = q[Len(q)]
      BY <1>4, <3>2
    <3> QED
      BY <1>1, <3>3 DEF CollInv, LastSafe
  <2> QED
    BY <1>3, <2>1 DEF CollInv, LastSafe
<1>8. StackLinked'
  BY <1>3 DEF CollInv, StackLinked
<1>9. r \in Seq(Entry) /\ DOMAIN r = 1 .. Len(r) /\ Len(r) \in Nat
  BY <1>4 DEF Grown
<1>10. first' = IF r = <<>> THEN Nil ELSE r[1].node
  <2>1. CASE r = <<>>
    <3>1. 1 = Len(q)
      BY <1>0, <1>4, <2>1
    <3> QED
      BY <1>1, <1>3, <1>5, <2>1, <3>1
  <2>2. CASE r # <<>>
    <3>1. 1 # Len(q) /\ 1 \in 1 .. Len(r)
      BY <1>0, <1>4, <1>9, <2>2
    <3>2. r[1] = q[1 + 1]
      BY <1>4, <3>1
    <3> QED
      BY <1>1, <1>3, <1>5, <2>2, <3>1, <3>2
  <2> QED
    BY <2>1, <2>2
<1>11. ASSUME NEW k \in 1 .. Len(r)
       PROVE  /\ value[r[k].node] = r[k].value
              /\ next[r[k].node] = IF k = Len(r) THEN Nil ELSE r[k + 1].node
  <2>1. k + 1 \in 1 .. Len(q) /\ r[k] = q[k + 1] /\ (k = Len(r) <=> k + 1 = Len(q))
    BY <1>0, <1>4
  <2>2. k # Len(r) => r[k + 1] = q[(k + 1) + 1]
    BY <1>4, <1>9
  <2> QED
    BY <1>5, <2>1, <2>2
<1>12. QueueLinked'
  BY <1>3, <1>9, <1>10, <1>11 DEF QueueLinked
<1>13. popped'[1] = popped'[2]
  <2>1. Head(q) = q[1]
    BY <1>0, <1>1
  <2>2. value[first] = q[1].value
    BY <1>1, <1>5
  <2> QED
    BY <1>3, <2>1, <2>2
<1> QED
  BY <1>6, <1>7, <1>8, <1>12, <1>13 DEF CollInv

LEMMA ClearQueueKeeps ==
    ASSUME CollInv, ClearQueue
    PROVE  CollInv'
<1>1. /\ first' = Nil /\ last' = Nil /\ size' = 0 /\ inQueue' = <<>>
      /\ UNCHANGED <<value, next, used, top, height, onStack, popped>>
  BY DEF ClearQueue, stackVars
<1>2. Grown(<<>>, used) /\ Len(<<>>) = 0
  BY DEF Grown
<1>3. CollTyped'
  BY <1>1, <1>2, CollectionsAssumption DEF CollInv, CollTyped, Nil
<1>4. LastSafe'
  <2>1. \A k \in 1 .. Len(onStack) : onStack[k].node # Nil
    <3>1. \A k \in 1 .. Len(onStack) : onStack[k].node \in 1 .. used
      BY GrownNodes DEF CollInv, CollTyped
    <3> QED
      BY <3>1, CollectionsAssumption DEF CollInv, CollTyped, Nil
  <2> QED
    BY <1>1, <2>1 DEF LastSafe
<1>5. QueueLinked' /\ StackLinked'
  BY <1>1 DEF CollInv, QueueLinked, StackLinked
<1> QED
  BY <1>1, <1>3, <1>4, <1>5 DEF CollInv

LEMMA PopKeeps ==
    ASSUME CollInv, Pop
    PROVE  CollInv'
<1> DEFINE q == onStack
<1>0. /\ q \in Seq(Entry) /\ Len(q) \in Nat /\ Grown(q, used)
  BY DEF CollInv, CollTyped, Grown
<1>1. q # <<>> /\ top = q[Len(q)].node /\ Len(q) > 0 /\ Len(q) \in 1 .. Len(q)
  <2>1. q # <<>>
    BY DEF Pop, CollInv, StackLinked
  <2> QED
    BY <1>0, <2>1 DEF CollInv, StackLinked
<1>2. PICK r : r = SubSeq(q, 1, Len(q) - 1)
  OBVIOUS
<1>3. /\ onStack' = r /\ top' = next[top] /\ height' = height - 1
      /\ popped' = <<value[top], q[Len(q)].value>>
      /\ UNCHANGED <<value, next, used, last, first, size, inQueue>>
  BY <1>2 DEF Pop, queueVars
<1>4. Grown(r, used) /\ Len(r) = Len(q) - 1 /\ \A k \in 1 .. Len(r) : r[k] = q[k]
  BY <1>0, <1>1, <1>2, Fronts
<1>5. \A k \in 1 .. Len(q) : /\ value[q[k].node] = q[k].value
                             /\ next[q[k].node] = IF k = 1 THEN Nil ELSE q[k - 1].node
  BY <1>0 DEF CollInv, StackLinked
<1>6. CollTyped'
  BY <1>3, <1>4 DEF CollInv, CollTyped
<1>7. \A k \in 1 .. Len(r) : k \in 1 .. Len(q)
  BY <1>0, <1>4
<1>8. LastSafe'
  BY <1>3, <1>4, <1>7 DEF CollInv, LastSafe
<1>9. QueueLinked'
  BY <1>3 DEF CollInv, QueueLinked
<1>10. r \in Seq(Entry) /\ DOMAIN r = 1 .. Len(r) /\ Len(r) \in Nat
  BY <1>4 DEF Grown
<1>11. top' = IF r = <<>> THEN Nil ELSE r[Len(r)].node
  <2>1. CASE r = <<>>
    <3>1. Len(q) = 1
      BY <1>0, <1>4, <2>1
    <3> QED
      BY <1>1, <1>3, <1>5, <2>1, <3>1
  <2>2. CASE r # <<>>
    <3>1. Len(q) # 1 /\ Len(q) - 1 \in 1 .. Len(r) /\ Len(q) - 1 = Len(r)
      BY <1>0, <1>4, <1>10, <2>2
    <3>2. r[Len(r)] = q[Len(q) - 1]
      BY <1>4, <3>1
    <3> QED
      BY <1>1, <1>3, <1>5, <2>2, <3>1, <3>2
  <2> QED
    BY <2>1, <2>2
<1>12. ASSUME NEW k \in 1 .. Len(r)
       PROVE  /\ value[r[k].node] = r[k].value
              /\ next[r[k].node] = IF k = 1 THEN Nil ELSE r[k - 1].node
  <2>1. r[k] = q[k] /\ k \in 1 .. Len(q)
    BY <1>4, <1>7
  <2>2. k # 1 => r[k - 1] = q[k - 1]
    BY <1>4, <1>10
  <2> QED
    BY <1>5, <2>1, <2>2
<1>13. StackLinked'
  BY <1>3, <1>10, <1>11, <1>12 DEF StackLinked
<1>14. popped'[1] = popped'[2]
  BY <1>1, <1>3, <1>5
<1> QED
  BY <1>6, <1>8, <1>9, <1>13, <1>14 DEF CollInv

LEMMA ClearStackKeeps ==
    ASSUME CollInv, ClearStack
    PROVE  CollInv'
<1>1. /\ top' = Nil /\ height' = 0 /\ onStack' = <<>>
      /\ UNCHANGED <<value, next, used, first, last, size, inQueue, popped>>
  BY DEF ClearStack, queueVars
<1>2. Grown(<<>>, used) /\ Len(<<>>) = 0
  BY DEF Grown
<1>3. CollTyped'
  BY <1>1, <1>2 DEF CollInv, CollTyped
<1>4. LastSafe' /\ QueueLinked' /\ StackLinked'
  BY <1>1, <1>2 DEF CollInv, LastSafe, QueueLinked, StackLinked
<1> QED
  BY <1>1, <1>3, <1>4 DEF CollInv

LEMMA PushKeeps ==
    ASSUME CollInv, NEW vals \in Seq(Values), Len(vals) > 0, Push(vals)
    PROVE  CollInv'
<1> DEFINE m == Len(vals)
           q == onStack
<1>0. /\ m \in Nat \ {0} /\ used \in Nat /\ used + m <= MaxNodes /\ MaxNodes \in Nat
      /\ DOMAIN vals = 1 .. m
  BY CollectionsAssumption DEF Push, Fits, CollInv, CollTyped
<1>1. \A n \in Nodes : (n \in {Allocated(k) : k \in DOMAIN vals} <=> n \in used + 1 .. used + m)
  BY <1>0, NewNodes
<1>2. \A n \in Nodes : value'[n] = IF n \in used + 1 .. used + m THEN vals[n - used] ELSE value[n]
  BY <1>1 DEF Push
<1>3. \A n \in Nodes :
         next'[n] = IF n \in used + 1 .. used + m THEN IF n = used + 1 THEN top ELSE n - 1
                    ELSE next[n]
  BY <1>1 DEF Push, Allocated
<1>4. /\ used' = used + m /\ top' = used + m /\ height' = height + m
      /\ UNCHANGED <<first, last, size, inQueue, popped>>
  BY DEF Push, Allocated, queueVars
<1>5. PICK q1 : q1 = q \o Entered(vals)
  OBVIOUS
<1>6. onStack' = q1
  BY <1>5 DEF Push
<1>7. q \in Seq(Entry) /\ Grown(q, used) /\ Len(q) \in Nat
  BY DEF CollInv, CollTyped, Grown
<1>8. /\ Len(q1) = Len(q) + m
      /\ \A k \in 1 .. Len(q) : q1[k] = q[k]
      /\ \A k \in 1 .. m : q1[Len(q) + k].node = used + k /\ q1[Len(q) + k].value = vals[k]
      /\ Grown(q1, used + m)
      /\ q1 # <<>>
  <2>1. /\ Grown(q, used) /\ used \in Nat /\ Len(vals) > 0 /\ used + Len(vals) <= MaxNodes
        /\ q \in Seq(Entry) /\ vals \in Seq(Values) /\ q1 = q \o Entered(vals)
    BY <1>0, <1>5, <1>7
  <2>2. Extends(q1, q, vals)
    BY <2>1, Growing
  <2> QED
    BY <2>2 DEF Extends
<1> HIDE DEF m
<1>9. DOMAIN q1 = 1 .. Len(q) + m
  BY <1>8 DEF Grown
<1>10. \A n \in 1 .. used : n \in Nodes /\ n \notin used + 1 .. used + m
  BY <1>0 DEF Nodes
<1>11. \A n \in used + 1 .. used + m : n \in Nodes
  BY <1>0 DEF Nodes
<1>12. top \in Nodes \cup {Nil}
  <2>1. CASE q = <<>>
    BY <2>1 DEF CollInv, StackLinked
  <2>2. CASE q # <<>>
    <3>1. Len(q) \in 1 .. Len(q)
      BY <1>7, <2>2
    <3>2. top = q[Len(q)].node
      BY <2>2 DEF CollInv, StackLinked
    <3> QED
      BY <1>7, <3>1, <3>2, GrownNodes DEF CollInv, CollTyped
  <2> QED
    BY <2>1, <2>2
<1>13. CollTyped'
  <2>1. ASSUME NEW n \in Nodes PROVE value'[n] \in Values \cup {Nil}
    <3>1. CASE n \in used + 1 .. used + m
      <4>1. n - used \in 1 .. m
        BY <1>0, <3>1
      <4> QED
        BY <1>0, <1>2, <3>1, <4>1
    <3>2. CASE n \notin used + 1 .. used + m
      BY <1>2, <3>2 DEF CollInv, CollTyped
    <3> QED
      BY <3>1, <3>2
  <2>2. ASSUME NEW n \in Nodes PROVE next'[n] \in Nodes \cup {Nil}
    <3>1. CASE n \in used + 1 .. used + m
      <4>1. n # used + 1 => n - 1 \in Nodes
        BY <1>0, <3>1 DEF Nodes
      <4> QED
        BY <1>3, <1>12, <3>1, <4>1
    <3>2. CASE n \notin used + 1 .. used + m
      BY <1>3, <3>2 DEF CollInv, CollTyped
    <3> QED
      BY <3>1, <3>2
  <2>3. value' \in [Nodes -> Values \cup {Nil}] /\ next' \in [Nodes -> Nodes \cup {Nil}]
    BY <2>1, <2>2 DEF Push
  <2>4. Grown(inQueue', used')
    <3>1. \A k \in 1 .. Len(inQueue) : inQueue[k].node \in 1 .. used
      BY GrownNodes DEF CollInv, CollTyped
    <3> QED
      BY <1>0, <1>4, <3>1 DEF CollInv, CollTyped, Grown
  <2>5. height' = Len(onStack')
    BY <1>4, <1>6, <1>8 DEF CollInv, CollTyped
  <2>6. used' \in 0 .. MaxNodes /\ last' \in 0 .. used'
    BY <1>0, <1>4 DEF CollInv, CollTyped
  <2> QED
    BY <1>4, <1>6, <1>8, <2>3, <2>4, <2>5, <2>6 DEF CollInv, CollTyped
<1>14. LastSafe'
  <2>1. ASSUME NEW k \in 1 .. Len(q1) PROVE q1[k].node # last
    <3>1. CASE k \in 1 .. Len(q)
      BY <1>8, <3>1 DEF CollInv, LastSafe
    <3>2. CASE k \notin 1 .. Len(q)
      <4>1. k - Len(q) \in 1 .. m /\ Len(q) + (k - Len(q)) = k
        BY <1>0, <1>7, <1>8, <3>2
      <4>2. q1[k].node = used + (k - Len(q))
        BY <1>8, <4>1
      <4>3. last \in 0 .. used
        BY DEF CollInv, CollTyped
      <4> QED
        BY <1>0, <4>1, <4>2, <4>3
    <3> QED
      BY <3>1, <3>2
  <2> QED
    BY <1>4, <1>6, <2>1 DEF CollInv, LastSafe
<1>15. QueueLinked'
  <2>1. NodesKeep(Nil)
    BY <1>2, <1>3, <1>10 DEF NodesKeep
  <2> QED
    BY <1>4, <2>1, QueueKept
<1>16. StackLinked'
  <2>1. top' = q1[Len(q1)].node
    BY <1>0, <1>4, <1>8
  <2>2. ASSUME NEW k \in 1 .. Len(q)
        PROVE  /\ value'[q1[k].node] = q1[k].value
               /\ next'[q1[k].node] = IF k = 1 THEN Nil ELSE q1[k - 1].node
    <3>1. q[k].node \in 1 .. used /\ q1[k] = q[k]
      BY <1>7, <1>8, GrownNodes DEF CollInv, CollTyped
    <3>2. /\ value[q[k].node] = q[k].value
          /\ next[q[k].node] = IF k = 1 THEN Nil ELSE q[k - 1].node
      BY <1>7 DEF CollInv, StackLinked
    <3>3. k # 1 => q1[k - 1] = q[k - 1]
      <4>1. k # 1 => k - 1 \in 1 .. Len(q)
        BY <1>7
      <4> QED
        BY <1>8, <4>1
    <3>4. value'[q[k].node] = value[q[k].node] /\ next'[q[k].node] = next[q[k].node]
      BY <1>2, <1>3, <1>10, <3>1
    <3> QED
      BY <3>1, <3>2, <3>3, <3>4
  <2>3. ASSUME NEW i \in 1 .. m
        PROVE  /\ value'[q1[Len(q) + i].node] = q1[Len(q) + i].value
               /\ next'[q1[Len(q) + i].node] =
                     IF Len(q) + i = 1 THEN Nil ELSE q1[Len(q) + i - 1].node
    <3>1. q1[Len(q) + i].node = used + i /\ q1[Len(q) + i].value = vals[i]
      BY <1>8
    <3>2. used + i \in used + 1 .. used + m /\ used + i \in Nodes /\ (used + i) - used = i
      BY <1>0, <1>11
    <3>3. value'[used + i] = vals[i]
      BY <1>2, <3>2
    <3>4. next'[used + i] = IF used + i = used + 1 THEN top ELSE used + i - 1
      <4>1. PICK n \in Nodes : n = used + i
        BY <3>2
      <4>2. next'[n] = IF n = used + 1 THEN top ELSE n - 1
        BY <1>3, <3>2, <4>1
      <4>3. (n = used + 1 <=> used + i = used + 1) /\ n - 1 = used + i - 1
        BY <1>0, <4>1
      <4> QED
        BY <4>1, <4>2, <4>3, Zenon
    <3>5. CASE i = 1
      <4>1. next'[used + i] = top
        BY <3>4, <3>5
      <4>2. CASE q = <<>>
        <5>1. top = Nil /\ Len(q) + i = 1
          BY <3>5, <4>2 DEF CollInv, StackLinked
        <5> QED
          BY <3>1, <3>3, <4>1, <5>1
      <4>3. CASE q # <<>>
        <5>1. Len(q) \in 1 .. Len(q) /\ Len(q) + i # 1 /\ Len(q) + i - 1 = Len(q)
          BY <1>7, <3>5, <4>3
        <5>2. top = q[Len(q)].node
          BY <4>3 DEF CollInv, StackLinked
        <5>3. q1[Len(q)] = q[Len(q)]
          BY <1>8, <5>1
        <5> QED
          BY <3>1, <3>3, <4>1, <5>1, <5>2, <5>3
      <4> QED
        BY <4>2, <4>3
    <3>6. CASE i # 1
      <4>1. /\ i - 1 \in 1 .. m /\ Len(q) + i # 1 /\ Len(q) + i - 1 = Len(q) + (i - 1)
            /\ used + i # used + 1 /\ used + i - 1 = used + (i - 1)
        BY <1>0, <1>7, <3>6
      <4>2. q1[Len(q) + (i - 1)].node = used + (i - 1)
        BY <1>8, <4>1
      <4> QED
        BY <3>1, <3>3, <3>4, <4>1, <4>2
    <3> QED
      BY <3>5, <3>6
  <2>4. ASSUME NEW k \in DOMAIN q1
        PROVE  /\ value'[q1[k].node] = q1[k].value
               /\ next'[q1[k].node] = IF k = 1 THEN Nil ELSE q1[k - 1].node
    <3>1. CASE k \in 1 .. Len(q)
      BY <2>2, <3>1
    <3>2. CASE k \notin 1 .. Len(q)
      <4>1. k - Len(q) \in 1 .. m /\ Len(q) + (k - Len(q)) = k
        BY <1>0, <1>7, <1>9, <3>2
      <4> QED
        BY <2>3, <4>1
    <3> QED
      BY <3>1, <3>2
  <2> QED
    BY <1>6, <1>8, <2>1, <2>4 DEF StackLinked
<1>17. popped'[1] = popped'[2]
  BY <1>4 DEF CollInv
<1> QED
  BY <1>13, <1>14, <1>15, <1>16, <1>17 DEF CollInv

LEMMA SetChangeKeeps == CollInv /\ SetChange => CollInv'
  BY DEF SetChange, queueVars, stackVars, CollInv, CollTyped, LastSafe, QueueLinked, StackLinked

LEMMA CollStep == CollInv /\ CollNext => CollInv'
<1>1. \A vals \in {<<v>> : v \in Values} \cup (Values \X Values) :
         vals \in Seq(Values) /\ Len(vals) > 0
  <2>1. \A v \in Values : <<v>> \in Seq(Values) /\ Len(<<v>>) > 0
    OBVIOUS
  <2>2. ASSUME NEW vals \in Values \X Values PROVE vals \in Seq(Values) /\ Len(vals) > 0
    <3>1. PICK v \in Values, w \in Values : vals = <<v, w>>
      OBVIOUS
    <3> QED
      BY <3>1
  <2> QED
    BY <2>1, <2>2
<1> QED
  BY <1>1, InKeeps, PushKeeps, OutKeeps, ClearQueueKeeps, PopKeeps, ClearStackKeeps, SetChangeKeeps
     DEF CollNext

LEMMA CollStutter == CollInv /\ UNCHANGED collVars => CollInv'
  BY DEF collVars, CollInv, CollTyped, LastSafe, QueueLinked, StackLinked

LEMMA CollInvExact == CollInv => ListsAreExact
  BY DEF CollInv, CollTyped, ListsAreExact

(* collection.FastQueue and FastStack: from first and from top the nodes    *)
(* hold just what was put in and not taken out, in order, size counts them  *)
(* and Out and Pop return the right value, for any sequence of calls.       *)
THEOREM ListsStayExact == PartsSpec => []ListsAreExact
<1>1. PartsInit => CollInv
  BY CollInitInv DEF PartsInit
<1>2. CollInv /\ [PartsNext]_all => CollInv'
  BY CollStep, CollStutter
     DEF PartsNext, Users, Rankings, LogWriters, Collecting, Coding, all
<1> QED
  BY <1>1, <1>2, CollInvExact, PTL DEF PartsSpec

-----------------------------------------------------------------------------
(* The ranking: Ahead is a strict order of those on the board, so that the  *)
(* ranks are the numbers from 0 on, one for each.                           *)

ScoreTyped == [points : Int, frac : Int]

RankInv ==
    /\ DOMAIN board \subseteq Members
    /\ board \in [DOMAIN board -> ScoreTyped]
    /\ second \in Nat
    /\ stamps \in [Requests -> SUBSET Nat]
    /\ \A q \in Requests : \A s \in stamps[q] : s <= second /\ s <= Future
    /\ truncating \in [size : Nat, batch : Int, on : BOOLEAN]

Before(m) == {n \in DOMAIN board : Ahead(n, m)}

LEMMA BoardFinite ==
    ASSUME RankInv
    PROVE  IsFiniteSet(DOMAIN board) /\ Cardinality(DOMAIN board) \in Nat
<1>1. IsFiniteSet(DOMAIN board)
  BY RankingAssumption, FS_Subset DEF RankInv
<1> QED
  BY <1>1, FS_CardinalityType

LEMMA AheadOrder ==
    ASSUME RankInv, NEW a \in DOMAIN board, NEW b \in DOMAIN board
    PROVE  /\ a # b => Ahead(a, b) \/ Ahead(b, a)
           /\ ~Ahead(a, a)
           /\ Ahead(a, b) => ~Ahead(b, a)
<1>1. a \in Int /\ b \in Int /\ board[a] \in ScoreTyped /\ board[b] \in ScoreTyped
  BY RankingAssumption DEF RankInv
<1> QED
  BY <1>1 DEF Ahead, ScoreTyped

LEMMA AheadTransitive ==
    ASSUME RankInv, NEW a \in DOMAIN board, NEW b \in DOMAIN board, NEW c \in DOMAIN board,
           Ahead(a, b), Ahead(b, c)
    PROVE  Ahead(a, c)
<1>1. /\ a \in Int /\ b \in Int /\ c \in Int
      /\ board[a] \in ScoreTyped /\ board[b] \in ScoreTyped /\ board[c] \in ScoreTyped
  BY RankingAssumption DEF RankInv
<1> QED
  BY <1>1 DEF Ahead, ScoreTyped

LEMMA RankBefore ==
    ASSUME RankInv, NEW m \in DOMAIN board
    PROVE  /\ Rank(m) = Cardinality(Before(m)) /\ IsFiniteSet(Before(m))
           /\ Rank(m) \in 0 .. Cardinality(DOMAIN board) - 1
<1>1. Rank(m) = Cardinality(Before(m))
  BY DEF Rank, Before
<1>2. Before(m) \in SUBSET DOMAIN board /\ m \notin Before(m)
  BY AheadOrder DEF Before
<1>3. IsFiniteSet(Before(m)) /\ Cardinality(Before(m)) <= Cardinality(DOMAIN board)
  BY <1>2, BoardFinite, FS_Subset
<1>4. Cardinality(Before(m)) # Cardinality(DOMAIN board)
  <2>1. Before(m) # DOMAIN board
    BY <1>2
  <2> QED
    BY <1>2, <2>1, BoardFinite, FS_Subset
<1>5. Cardinality(Before(m)) \in Nat
  BY <1>3, FS_CardinalityType
<1> QED
  BY <1>1, <1>3, <1>4, <1>5, BoardFinite

(* Who is ahead has the lower rank.                                         *)
LEMMA AheadRanks ==
    ASSUME RankInv, NEW a \in DOMAIN board, NEW b \in DOMAIN board, Ahead(a, b)
    PROVE  Rank(a) < Rank(b)
<1>1. Before(a) \subseteq Before(b)
  BY AheadTransitive DEF Before
<1>2. a \in Before(b) /\ a \notin Before(a)
  BY AheadOrder DEF Before
<1>3. /\ IsFiniteSet(Before(b)) /\ Rank(a) = Cardinality(Before(a))
      /\ Rank(b) = Cardinality(Before(b)) /\ Rank(a) \in Int /\ Rank(b) \in Int
  <2>1. Rank(a) \in 0 .. Cardinality(DOMAIN board) - 1 /\ Rank(b) \in 0 .. Cardinality(DOMAIN board) - 1
    BY RankBefore
  <2> QED
    BY <2>1, RankBefore
<1>4. Before(a) \in SUBSET Before(b) /\ Before(b) # Before(a)
  BY <1>1, <1>2
<1>5. Cardinality(Before(a)) <= Cardinality(Before(b)) /\ Cardinality(Before(a)) # Cardinality(Before(b))
  BY <1>3, <1>4, FS_Subset
<1> QED
  BY <1>3, <1>5

LEMMA RanksDiffer ==
    ASSUME RankInv, NEW a \in DOMAIN board, NEW b \in DOMAIN board, a # b
    PROVE  Rank(a) # Rank(b)
<1>1. Rank(a) \in Int /\ Rank(b) \in Int
  <2>1. Rank(a) \in 0 .. Cardinality(DOMAIN board) - 1 /\ Rank(b) \in 0 .. Cardinality(DOMAIN board) - 1
    BY RankBefore
  <2> QED
    BY <2>1
<1>2. CASE Ahead(a, b)
  BY <1>1, <1>2, AheadRanks
<1>3. CASE Ahead(b, a)
  BY <1>1, <1>3, AheadRanks
<1> QED
  BY <1>2, <1>3, AheadOrder

(* As many ranks as members: none is left out.                              *)
LEMMA RanksOnto ==
    ASSUME RankInv, NEW k \in Nat, k < Cardinality(DOMAIN board)
    PROVE  \E m \in DOMAIN board : Rank(m) = k
<1> SUFFICES ASSUME \A m \in DOMAIN board : Rank(m) # k
             PROVE  FALSE
  OBVIOUS
<1> DEFINE c == Cardinality(DOMAIN board)
           T == (0 .. c - 1) \ {k}
           f == [m \in DOMAIN board |-> Rank(m)]
<1>1. c \in Nat /\ IsFiniteSet(DOMAIN board)
  BY BoardFinite
<1>2. IsFiniteSet(0 .. c - 1) /\ Cardinality(0 .. c - 1) = c
  <2>1. IsFiniteSet(0 .. c - 1) /\ Cardinality(0 .. c - 1) = IF 0 > c - 1 THEN 0 ELSE c - 1 - 0 + 1
    <3>1. 0 \in Int /\ c - 1 \in Int
      BY <1>1
    <3> HIDE DEF c
    <3> QED
      BY <3>1, FS_Interval
  <2> QED
    BY <1>1, <2>1
<1>3. IsFiniteSet(T) /\ Cardinality(T) = c - 1
  <2>1. k \in 0 .. c - 1
    BY <1>1
  <2> QED
    BY <1>2, <2>1, FS_RemoveElement
<1>4. f \in [DOMAIN board -> T]
  BY RankBefore
<1>5. Cardinality(T) < Cardinality(DOMAIN board)
  BY <1>1, <1>3
<1> HIDE DEF T, f
<1>6. \E x, y \in DOMAIN board : x # y /\ f[x] = f[y]
  BY <1>1, <1>3, <1>4, <1>5, FS_PigeonHole
<1> QED
  BY <1>6, RanksDiffer DEF f

(* No more than k have a rank below k.                                      *)
LEMMA RanksBelow ==
    ASSUME RankInv, NEW k \in Nat
    PROVE  Cardinality({m \in DOMAIN board : Rank(m) < k}) <= k
<1> DEFINE S == {m \in DOMAIN board : Rank(m) < k}
           f == [m \in S |-> Rank(m)]
<1>1. IsFiniteSet(0 .. k - 1) /\ Cardinality(0 .. k - 1) = k
  <2>1. IsFiniteSet(0 .. k - 1) /\ Cardinality(0 .. k - 1) = IF 0 > k - 1 THEN 0 ELSE k - 1 - 0 + 1
    BY FS_Interval
  <2> QED
    BY <2>1
<1>2. \A m \in S : f[m] \in 0 .. k - 1
  <2>1. \A m \in S : Rank(m) \in Int /\ Rank(m) >= 0
    <3>1. \A m \in S : Rank(m) \in 0 .. Cardinality(DOMAIN board) - 1
      BY RankBefore
    <3> QED
      BY <3>1
  <2> QED
    BY <2>1
<1>3. f \in [S -> 0 .. k - 1]
  BY <1>2
<1>4. IsFiniteSet(S) /\ Cardinality(S) \in Nat
  <2>1. IsFiniteSet(S)
    BY BoardFinite, FS_Subset
  <2> QED
    BY <2>1, FS_CardinalityType
<1>5. ~(Cardinality(0 .. k - 1) < Cardinality(S))
  <2> SUFFICES ASSUME Cardinality(0 .. k - 1) < Cardinality(S)
               PROVE  FALSE
    OBVIOUS
  <2> HIDE DEF f
  <2>1. \E x, y \in S : x # y /\ f[x] = f[y]
    BY <1>1, <1>3, <1>4, FS_PigeonHole
  <2> QED
    BY <2>1, RanksDiffer DEF f
<1> QED
  BY <1>1, <1>4, <1>5

(* The fraction of a time of at most nine digits, and of two times with as  *)
(* many digits the larger one has the larger.                               *)
IsTime(t) == t \in Nat /\ t < Billion

LEMMA AboveIs ==
    ASSUME NEW t, IsTime(t)
    PROVE  Above(t) \in Tens
<1>1. \E p \in Tens : t < p /\ \A r \in Tens : t < r => p <= r
  <2>0. t \in Nat /\ t < Billion
    BY DEF IsTime
  <2>1. CASE t < 10
    BY SMT, <2>0, <2>1 DEF Tens, Billion
  <2>2. CASE 10 <= t /\ t < 100
    BY SMT, <2>0, <2>2 DEF Tens, Billion
  <2>3. CASE 100 <= t /\ t < 1000
    BY SMT, <2>0, <2>3 DEF Tens, Billion
  <2>4. CASE 1000 <= t /\ t < 10000
    BY SMT, <2>0, <2>4 DEF Tens, Billion
  <2>5. CASE 10000 <= t /\ t < 100000
    BY SMT, <2>0, <2>5 DEF Tens, Billion
  <2>6. CASE 100000 <= t /\ t < 1000000
    BY SMT, <2>0, <2>6 DEF Tens, Billion
  <2>7. CASE 1000000 <= t /\ t < 10000000
    BY SMT, <2>0, <2>7 DEF Tens, Billion
  <2>8. CASE 10000000 <= t /\ t < 100000000
    BY SMT, <2>0, <2>8 DEF Tens, Billion
  <2>9. CASE 100000000 <= t
    BY SMT, <2>0, <2>9 DEF Tens, Billion
  <2> QED
    BY SMT, <2>0, <2>1, <2>2, <2>3, <2>4, <2>5, <2>6, <2>7, <2>8, <2>9
<1>2. Above(t) = CHOOSE p \in Tens : t < p /\ \A r \in Tens : t < r => p <= r
  BY DEF Above
<1> QED
  BY <1>1, <1>2

LEMMA Factors == \A p \in Tens : Billion \div p \in Nat \ {0}
  BY SMT DEF Tens, Billion

LEMMA FracTyped == ASSUME NEW t, IsTime(t) PROVE Frac(t) \in Int
<1>1. t \in Int /\ Billion \div Above(t) \in Int
  BY AboveIs, Factors DEF IsTime
<1> QED
  BY <1>1 DEF Frac

LEMMA FracGrows ==
    ASSUME NEW t, NEW u, IsTime(t), IsTime(u), t < u, Above(t) = Above(u)
    PROVE  Frac(t) < Frac(u)
<1>1. PICK c \in Nat \ {0} : c = Billion \div Above(t)
  BY AboveIs, Factors
<1>2. Frac(t) = t * c /\ Frac(u) = u * c
  BY <1>1 DEF Frac
<1>3. PICK d \in Nat \ {0} : u = t + d
  <2>1. u - t \in Nat \ {0} /\ u = t + (u - t)
    BY DEF IsTime
  <2> QED
    BY <2>1
<1>4. u * c = t * c + d * c
  BY <1>1, <1>3 DEF IsTime
<1>5. d * c > 0 /\ d * c \in Int /\ t * c \in Int
  BY <1>1, <1>3 DEF IsTime
<1> QED
  BY <1>2, <1>4, <1>5

LEMMA RankInitInv == RankInit => RankInv
  BY RankingAssumption DEF RankInit, RankInv, NoTruncate

(* Only Truncate takes members off the board, and no one of the first.      *)
LEMMA BoardSteps ==
    ASSUME RankInv, [RankNext]_rankVars
    PROVE  /\ RankInv'
           /\ \A m \in DOMAIN board \ DOMAIN board' :
                 truncating.on /\ Rank(m) >= truncating.size
<1>0. UNCHANGED <<second, board, stamps, truncating>> => RankInv'
  BY DEF RankInv
<1>1. CASE UNCHANGED <<second, board, stamps, truncating>>
  BY <1>0, <1>1
<1>2. CASE RankTick
  <2>1. second' = second + 1 /\ UNCHANGED <<board, stamps, truncating>>
    BY <1>2 DEF RankTick
  <2>2. second' \in Nat /\ \A q \in Requests : \A s \in stamps[q] : s <= second'
    BY <2>1 DEF RankInv
  <2> QED
    BY <2>1, <2>2 DEF RankInv
<1>3. CASE Truncate
  <2>1. PICK s \in Sizes, b \in Batches \cup {-1} : truncating' = [size |-> s, batch |-> b, on |-> TRUE]
    BY <1>3 DEF Truncate
  <2>2. s \in Nat /\ b \in Int
    BY RankingAssumption
  <2>3. UNCHANGED <<second, board, stamps>>
    BY <1>3 DEF Truncate
  <2> QED
    BY <2>1, <2>2, <2>3 DEF RankInv
<1>4. CASE TruncateBatch
  <2> DEFINE E == Elements(truncating.size, truncating.batch)
  <2>1. /\ truncating.on /\ board' = [m \in DOMAIN board \ E |-> board[m]]
        /\ truncating' \in {NoTruncate, truncating} /\ UNCHANGED <<second, stamps>>
    BY <1>4 DEF TruncateBatch, luaTruncate
  <2>2. \A m \in E : m \in DOMAIN board /\ Rank(m) >= truncating.size
    BY DEF Elements
  <2> HIDE DEF E
  <2>3. RankInv'
    <3>1. truncating' \in [size : Nat, batch : Int, on : BOOLEAN]
      <4>1. NoTruncate \in [size : Nat, batch : Int, on : BOOLEAN]
        BY DEF NoTruncate
      <4> QED
        BY <2>1, <4>1 DEF RankInv
    <3> QED
      BY <2>1, <3>1 DEF RankInv
  <2> QED
    BY <2>1, <2>2, <2>3
<1>5. CASE FuzzySet
  BY <1>0, <1>5 DEF FuzzySet
<1>6. ASSUME NEW q \in Requests, Call(q)
      PROVE  RankInv' /\ UNCHANGED board
  <2>1. /\ second <= Future /\ stamps' = [stamps EXCEPT ![q] = @ \cup {second}]
        /\ UNCHANGED <<second, board, truncating>>
    BY <1>6 DEF Call
  <2>2. stamps' \in [Requests -> SUBSET Nat]
        /\ \A r \in Requests : \A s \in stamps'[r] : s <= second /\ s <= Future
    BY <2>1 DEF RankInv
  <2> QED
    BY <2>1, <2>2 DEF RankInv
<1>7. ASSUME NEW q \in Requests, Eval(q)
      PROVE  RankInv' /\ DOMAIN board \subseteq DOMAIN board'
  <2> DEFINE m == Asked[q].member
  <2>1. UNCHANGED <<second, stamps, truncating>>
    BY <1>7 DEF Eval
  <2>2. m \in Members /\ Asked[q].points \in Int
    BY RankingAssumption
  <2>3. CASE UNCHANGED board
    BY <1>0, <2>1, <2>3
  <2>4. CASE ~(UNCHANGED board)
    <3>0. PICK stamp \in stamps[q] : IF Asked[q].add THEN luaAdd(q, stamp) ELSE luaIncr(q, stamp)
      BY <1>7 DEF Eval
    <3>1. PICK points : /\ points \in {PointsOf(m) + Asked[q].points, Asked[q].points}
                        /\ board' = With(m, Score(points, stamp))
      BY <2>4, <3>0 DEF luaAdd, luaIncr, Scripted
    <3>2. PointsOf(m) \in Int
      BY DEF PointsOf, RankInv, ScoreTyped
    <3>3. points \in Int
      BY <2>2, <3>1, <3>2
    <3>4. Score(points, stamp) \in ScoreTyped
      <4>1. IsTime(Future - stamp)
        <5>1. stamp \in Nat /\ stamp <= Future
          BY DEF RankInv
        <5> QED
          BY SMT, <5>1, RankingAssumption DEF IsTime, Billion
      <4>2. Frac(Future - stamp) \in Int
        BY <4>1, FracTyped
      <4> QED
        BY <3>3, <4>2 DEF Score, ScoreTyped
    <3> HIDE DEF m
    <3>5. board' = [k \in DOMAIN board \cup {m} |-> IF k = m THEN Score(points, stamp) ELSE board[k]]
      BY <3>1 DEF With
    <3> QED
      BY <2>1, <2>2, <3>4, <3>5 DEF RankInv
  <2> QED
    BY <2>3, <2>4
<1> QED
  BY <1>1, <1>2, <1>3, <1>4, <1>5, <1>6, <1>7
     DEF RankNext, RankChange, RankTick, Truncate, FuzzySet, rankVars

(* A Truncate that ends has left no more than it was asked to.              *)
LEMMA TruncateEnds ==
    ASSUME RankInv, [RankNext]_rankVars,
           truncating.on, ~truncating'.on, truncating.batch # 0
    PROVE  Cardinality(DOMAIN board') <= truncating.size
<1> DEFINE keep == truncating.size
           count == truncating.batch
           E == Elements(keep, count)
<1>0. keep \in Nat /\ count \in Int
  BY DEF RankInv
<1>1. TruncateBatch
  BY DEF RankNext, RankChange, rankVars, RankTick, Truncate, FuzzySet, Call, Eval
<1>2. board' = [m \in DOMAIN board \ E |-> board[m]] /\ (count <= 0 \/ board' = board)
  BY <1>1 DEF TruncateBatch, luaTruncate
<1>3. CASE count < 0
  <2>1. DOMAIN board' = DOMAIN board \ E
    BY <1>2
  <2>2. \A m \in DOMAIN board : Rank(m) \in Int
    <3>1. \A m \in DOMAIN board : Rank(m) \in 0 .. Cardinality(DOMAIN board) - 1
      BY RankBefore
    <3> QED
      BY <3>1
  <2>3. DOMAIN board \ E = {m \in DOMAIN board : Rank(m) < keep}
    BY <1>0, <1>3, <2>2 DEF Elements
  <2>4. Cardinality({m \in DOMAIN board : Rank(m) < keep}) <= keep
    BY <1>0, RanksBelow
  <2> QED
    BY <2>1, <2>3, <2>4
<1>4. CASE count > 0
  <2>1. DOMAIN board \ E = DOMAIN board /\ board' = board
    BY <1>0, <1>2, <1>4
  <2>2. ASSUME keep < Cardinality(DOMAIN board) PROVE FALSE
    <3>1. PICK m \in DOMAIN board : Rank(m) = keep
      BY <1>0, <2>2, RanksOnto
    <3>2. m \in E
      BY <1>0, <1>4, <3>1 DEF Elements
    <3> QED
      BY <2>1, <3>2
  <2> QED
    BY <1>0, <2>1, <2>2, BoardFinite
<1> QED
  BY <1>0, <1>3, <1>4

LEMMA TruncateStep ==
    ASSUME RankInv, [RankNext]_rankVars
    PROVE  /\ \A m \in DOMAIN board \ DOMAIN board' :
                 truncating.on /\ Rank(m) >= truncating.size
           /\ truncating.on /\ ~truncating'.on /\ truncating.batch # 0
                 => Cardinality(DOMAIN board') <= truncating.size
  BY BoardSteps, TruncateEnds

(* The fraction of a score tells when the call that set it read the clock.  *)
DatedBy(score, call) ==
    /\ call.asked \in Nat /\ call.at \in Nat
    /\ call.asked <= call.at /\ call.asked <= Future
    /\ score.frac = Frac(Future - call.asked)

Dated ==
    /\ DOMAIN reached = Members
    /\ \A m \in DOMAIN board : DatedBy(board[m], reached[m])

LEMMA DatedInit == RankInit => Dated
  BY RankingAssumption DEF RankInit, Dated

LEMMA DatedStep ==
    ASSUME RankInv, Dated, [RankNext]_rankVars
    PROVE  Dated'
<1>1. CASE UNCHANGED <<board, reached>>
  BY <1>1 DEF Dated, DatedBy
<1>2. CASE TruncateBatch
  <2>1. /\ board' = [m \in DOMAIN board \ Elements(truncating.size, truncating.batch) |-> board[m]]
        /\ UNCHANGED reached
    BY <1>2 DEF TruncateBatch, luaTruncate
  <2> QED
    BY <2>1 DEF Dated, DatedBy
<1>3. ASSUME NEW q \in Requests, Eval(q), ~(UNCHANGED <<board, reached>>)
      PROVE  Dated'
  <2> DEFINE m == Asked[q].member
  <2>1. m \in Members
    BY RankingAssumption
  <2>2. PICK stamp \in stamps[q] : IF Asked[q].add THEN luaAdd(q, stamp) ELSE luaIncr(q, stamp)
    BY <1>3 DEF Eval
  <2>3. PICK points : /\ board' = With(m, Score(points, stamp))
                      /\ reached' = [reached EXCEPT ![m] = [asked |-> stamp, at |-> second]]
    BY <1>3, <2>2 DEF luaAdd, luaIncr, Scripted
  <2> HIDE DEF m
  <2>4. board' = [k \in DOMAIN board \cup {m} |-> IF k = m THEN Score(points, stamp) ELSE board[k]]
    BY <2>3 DEF With
  <2>5. Score(points, stamp).frac = Frac(Future - stamp)
    BY DEF Score
  <2>6. stamp \in Nat /\ second \in Nat /\ stamp <= second /\ stamp <= Future
    BY <2>2 DEF RankInv
  <2>7. DatedBy(Score(points, stamp), [asked |-> stamp, at |-> second])
    BY <2>5, <2>6 DEF DatedBy
  <2>8. DOMAIN reached' = Members /\ reached'[m] = [asked |-> stamp, at |-> second]
        /\ \A k \in Members : k # m => reached'[k] = reached[k]
    BY <2>1, <2>3 DEF Dated
  <2>9. ASSUME NEW k \in DOMAIN board'
        PROVE  DatedBy(board'[k], reached'[k])
    <3>1. CASE k = m
      <4>1. board'[k] = Score(points, stamp) /\ reached'[k] = [asked |-> stamp, at |-> second]
        BY <2>4, <2>8, <3>1
      <4> QED
        BY <2>7, <4>1
    <3>2. CASE k # m
      <4>1. k \in DOMAIN board /\ board'[k] = board[k]
        BY <2>4, <3>2
      <4>2. reached'[k] = reached[k]
        BY <2>8, <3>2, <4>1 DEF RankInv
      <4> QED
        BY <4>1, <4>2 DEF Dated
    <3> QED
      BY <3>1, <3>2
  <2> QED
    BY <2>8, <2>9 DEF Dated, DatedBy
<1> QED
  BY <1>1, <1>2, <1>3 DEF RankNext, RankChange, rankVars, RankTick, Truncate, FuzzySet, Call

LEMMA DatedEarlier ==
    ASSUME RankInv, Dated
    PROVE  EarlierAhead
<1> SUFFICES ASSUME NEW m \in DOMAIN board, NEW n \in DOMAIN board,
                    board[m].points = board[n].points, reached[m].at < reached[n].asked,
                    Above(Future - reached[m].asked) = Above(Future - reached[n].asked)
             PROVE  Rank(m) < Rank(n)
  BY DEF EarlierAhead
<1>1. DatedBy(board[m], reached[m]) /\ DatedBy(board[n], reached[n])
  BY DEF Dated
<1>2. /\ IsTime(Future - reached[n].asked) /\ IsTime(Future - reached[m].asked)
      /\ Future - reached[n].asked < Future - reached[m].asked
  BY SMT, <1>1, RankingAssumption DEF DatedBy, IsTime, Billion
<1>3. Frac(Future - reached[n].asked) < Frac(Future - reached[m].asked)
  BY <1>2, FracGrows
<1>4. board[n].frac < board[m].frac
  BY <1>1, <1>3 DEF DatedBy
<1>5. board[m] \in ScoreTyped /\ board[n] \in ScoreTyped
  BY DEF RankInv
<1>6. Ahead(m, n)
  BY <1>4, <1>5 DEF Ahead, ScoreTyped
<1> QED
  BY <1>6, AheadRanks

(* Every step of PartsSpec is one of the ranking or leaves it alone.        *)
LEMMA RankSteps == [PartsNext]_all => [RankNext]_rankVars
  BY DEF PartsNext, Users, Rankings, LogWriters, Collecting, Coding, all, RankNext

(* services.RankingService.Truncate removes nobody of the first size ranks, *)
(* whatever is updated between its batches, and ends with no more left.     *)
THEOREM TruncateSparesTheTop == PartsSpec => TruncateKeepsTop
<1>1. PartsInit => RankInv
  BY RankInitInv DEF PartsInit
<1>2. RankInv /\ [PartsNext]_all => RankInv'
  BY RankSteps, BoardSteps
<1>3. RankInv /\ [PartsNext]_all =>
          [/\ \A m \in DOMAIN board \ DOMAIN board' :
                 truncating.on /\ Rank(m) >= truncating.size
           /\ truncating.on /\ ~truncating'.on /\ truncating.batch # 0
                 => Cardinality(DOMAIN board') <= truncating.size]_rankVars
  BY RankSteps, TruncateStep
<1> QED
  BY <1>1, <1>2, <1>3, PTL DEF PartsSpec, TruncateKeepsTop

(* Of two members with the same points the one that had them before the     *)
(* other's call began is ahead (the first part of RanksAgree), while the    *)
(* times that remain have the same number of digits.                        *)
THEOREM EarlierStaysAhead == PartsSpec => []EarlierAhead
<1>1. PartsInit => RankInv /\ Dated
  BY RankInitInv, DatedInit DEF PartsInit
<1>2. RankInv /\ Dated /\ [PartsNext]_all => RankInv' /\ Dated'
  BY RankSteps, BoardSteps, DatedStep
<1>3. RankInv /\ Dated => EarlierAhead
  BY DatedEarlier
<1> QED
  BY <1>1, <1>2, <1>3, PTL DEF PartsSpec

-----------------------------------------------------------------------------
(* Induction, and sums over finite sets: the fold that MapThenSumSet is     *)
(* defined by, for numbers given by a function.                             *)

(* Induction: a set of numbers that has 0 and the successor of each member  *)
(* has them all.  Below a number n that were missing, the members and their *)
(* successors would be in a bijection, though 0 is no successor.            *)
LEMMA AllNumbers ==
    ASSUME NEW A, 0 \in A, \A k \in Nat : k \in A => k + 1 \in A
    PROVE  Nat \subseteq A
<1> SUFFICES ASSUME NEW n \in Nat, n \notin A PROVE FALSE
  OBVIOUS
<1> DEFINE B == {k \in 0 .. n : k \in A}
           f == [k \in B |-> k + 1]
<1>1. IsFiniteSet(B) /\ IsFiniteSet(B \ {0}) /\ Cardinality(B) \in Nat /\ 0 \in B
  <2>1. IsFiniteSet(0 .. n)
    BY FS_Interval
  <2>2. IsFiniteSet(B)
    BY <2>1, FS_Subset
  <2>3. 0 \in B
    OBVIOUS
  <2> HIDE DEF B
  <2>4. IsFiniteSet(B \ {0}) /\ Cardinality(B) \in Nat
    BY <2>2, FS_RemoveElement, FS_CardinalityType
  <2> QED
    BY <2>2, <2>3, <2>4
<1>2. Cardinality(B \ {0}) = Cardinality(B) - 1
  BY <1>1, FS_RemoveElement
<1>3. \A k \in B : k + 1 \in B \ {0}
  <2> SUFFICES ASSUME NEW k \in B PROVE k + 1 \in B \ {0}
    OBVIOUS
  <2>1. k \in 0 .. n /\ k \in A /\ k # n
    OBVIOUS
  <2> QED
    BY <2>1
<1>4. f \in Injection(B, B \ {0})
  <2> HIDE DEF B
  <2>1. f \in [B -> B \ {0}]
    BY <1>3
  <2>2. \A x, y \in B : f[x] = f[y] => x = y
    <3>1. B \subseteq Nat
      BY DEF B
    <3> QED
      BY <3>1
  <2> QED
    BY <2>1, <2>2 DEF Injection, IsInjective
<1>5. Cardinality(B) <= Cardinality(B \ {0})
  <2> HIDE DEF B, f
  <2> QED
    BY <1>1, <1>4, FS_Injection
<1> QED
  BY <1>1, <1>2, <1>5

Pick(s) == CHOOSE x \in s : TRUE

UpTo(S, n) == {s \in SUBSET S : Cardinality(s) <= n}

(* The equation of the function that MapThenSumSet folds with.              *)
Sums(g, f, D) ==
    g = [s \in D |-> IF s = {} THEN 0 ELSE f[Pick(s)] + g[s \ {Pick(s)}]]

LEMMA Smaller ==
    ASSUME NEW S, IsFiniteSet(S), NEW s \in SUBSET S, NEW x \in s
    PROVE  /\ IsFiniteSet(s) /\ Cardinality(s) \in Nat
           /\ s \ {x} \in SUBSET S
           /\ Cardinality(s \ {x}) = Cardinality(s) - 1
           /\ Cardinality(s) # 0
<1>1. IsFiniteSet(s)
  BY FS_Subset
<1>2. Cardinality(s) \in Nat
  BY <1>1, FS_CardinalityType
<1>3. Cardinality(s \ {x}) = Cardinality(s) - 1
  BY <1>1, FS_RemoveElement
<1>4. Cardinality(s) # 0
  BY <1>1, FS_EmptySet
<1> QED
  BY <1>1, <1>2, <1>3, <1>4

LEMMA SumsExist ==
    ASSUME NEW S, IsFiniteSet(S), NEW f, \A x \in S : f[x] \in Int
    PROVE  \E g \in [SUBSET S -> Int] : Sums(g, f, SUBSET S)
<1> DEFINE A == {n \in Nat : \E g \in [UpTo(S, n) -> Int] : Sums(g, f, UpTo(S, n))}
<1>0. \A s \in SUBSET S : s # {} => Pick(s) \in s
  BY DEF Pick
<1>1. 0 \in A
  <2> DEFINE g == [s \in UpTo(S, 0) |-> 0]
  <2>1. \A s \in UpTo(S, 0) : s = {}
    <3> SUFFICES ASSUME NEW s \in SUBSET S, Cardinality(s) <= 0, NEW x \in s PROVE FALSE
      BY DEF UpTo
    <3> HIDE DEF A, g
    <3>1. IsFiniteSet(s)
      BY FS_Subset
    <3>2. Cardinality(s) \in Nat
      BY <3>1, FS_CardinalityType
    <3> QED
      BY <3>1, <3>2, FS_EmptySet
  <2>2. g \in [UpTo(S, 0) -> Int]
    OBVIOUS
  <2>3. Sums(g, f, UpTo(S, 0))
    BY <2>1 DEF Sums
  <2> QED
    BY <2>2, <2>3
<1>2. ASSUME NEW n \in Nat, n \in A PROVE n + 1 \in A
  <2>1. PICK g \in [UpTo(S, n) -> Int] : Sums(g, f, UpTo(S, n))
    BY <1>2
  <2> DEFINE h == [s \in UpTo(S, n + 1) |->
                      IF s = {} THEN 0 ELSE f[Pick(s)] + g[s \ {Pick(s)}]]
  <2>2. \A s \in UpTo(S, n + 1) : s # {} => Pick(s) \in S /\ s \ {Pick(s)} \in UpTo(S, n)
    BY <1>0, Smaller DEF UpTo
  <2>3. h \in [UpTo(S, n + 1) -> Int]
    BY <2>1, <2>2
  <2>4. \A s \in UpTo(S, n) : s \in UpTo(S, n + 1) /\ h[s] = g[s]
    <3> SUFFICES ASSUME NEW s \in UpTo(S, n) PROVE s \in UpTo(S, n + 1) /\ h[s] = g[s]
      OBVIOUS
    <3>1. IsFiniteSet(s) /\ Cardinality(s) \in Nat
      BY FS_Subset, FS_CardinalityType DEF UpTo
    <3>2. s \in UpTo(S, n + 1)
      BY <3>1 DEF UpTo
    <3>3. g[s] = IF s = {} THEN 0 ELSE f[Pick(s)] + g[s \ {Pick(s)}]
      BY <2>1, Zenon DEF Sums
    <3> QED
      BY <3>2, <3>3
  <2>5. Sums(h, f, UpTo(S, n + 1))
    <3>1. \A s \in UpTo(S, n + 1) :
              h[s] = IF s = {} THEN 0 ELSE f[Pick(s)] + h[s \ {Pick(s)}]
      BY <2>2, <2>4
    <3> HIDE DEF h
    <3> QED
      BY <2>3, <3>1 DEF Sums
  <2> HIDE DEF h
  <2>6. \E e \in [UpTo(S, n + 1) -> Int] : Sums(e, f, UpTo(S, n + 1))
    BY <2>3, <2>5
  <2> QED
    BY <2>6
<1>3. Cardinality(S) \in Nat /\ Cardinality(S) \in A
  <2> HIDE DEF A
  <2>1. Cardinality(S) \in Nat
    BY FS_CardinalityType
  <2>2. Nat \subseteq A
    BY <1>1, <1>2, AllNumbers
  <2> QED
    BY <2>1, <2>2
<1>4. UpTo(S, Cardinality(S)) = SUBSET S
  BY FS_Subset DEF UpTo
<1> QED
  BY <1>3, <1>4

(* Such functions agree where both are defined.                             *)
Agree(g, h, S) == \A s \in SUBSET S : g[s] = h[s]

LEMMA SumsAgree ==
    ASSUME NEW S, IsFiniteSet(S), NEW T \in SUBSET S, NEW f,
           NEW g, Sums(g, f, SUBSET S), NEW h, Sums(h, f, SUBSET T)
    PROVE  Agree(g, h, T)
<1> DEFINE A == {n \in Nat : \A s \in UpTo(T, n) : g[s] = h[s]}
<1>0. \A s \in SUBSET S : s # {} => Pick(s) \in s
  BY DEF Pick
<1>1. \A s \in SUBSET S : g[s] = IF s = {} THEN 0 ELSE f[Pick(s)] + g[s \ {Pick(s)}]
  BY Zenon DEF Sums
<1>2. \A s \in SUBSET T : h[s] = IF s = {} THEN 0 ELSE f[Pick(s)] + h[s \ {Pick(s)}]
  BY Zenon DEF Sums
<1>3. IsFiniteSet(T)
  BY FS_Subset
<1>4. 0 \in A
  <2> SUFFICES ASSUME NEW s \in SUBSET T, Cardinality(s) <= 0 PROVE g[s] = h[s]
    BY DEF UpTo
  <2> HIDE DEF A
  <2>1. IsFiniteSet(s)
    BY <1>3, FS_Subset
  <2>2. Cardinality(s) \in Nat
    BY <2>1, FS_CardinalityType
  <2>3. s = {}
    BY <2>1, <2>2, FS_EmptySet
  <2> QED
    BY <1>1, <1>2, <2>3
<1>5. ASSUME NEW n \in Nat, n \in A PROVE n + 1 \in A
  <2> SUFFICES ASSUME NEW s \in UpTo(T, n + 1) PROVE g[s] = h[s]
    OBVIOUS
  <2> SUFFICES ASSUME s # {} PROVE g[s] = h[s]
    BY <1>1, <1>2 DEF UpTo
  <2>1. Pick(s) \in s /\ s \in SUBSET T /\ Cardinality(s) <= n + 1
    BY <1>0 DEF UpTo
  <2>2. s \ {Pick(s)} \in SUBSET T /\ Cardinality(s \ {Pick(s)}) <= n
    BY <1>3, <2>1, Smaller
  <2>3. g[s \ {Pick(s)}] = h[s \ {Pick(s)}]
    BY <1>5, <2>2 DEF UpTo
  <2> QED
    BY <1>1, <1>2, <2>1, <2>3
<1>6. Nat \subseteq A
  <2> HIDE DEF A
  <2> QED
    BY <1>4, <1>5, AllNumbers
<1> SUFFICES ASSUME NEW s \in SUBSET T PROVE g[s] = h[s]
  BY DEF Agree
<1>7. Cardinality(s) \in Nat
  BY <1>3, FS_Subset, FS_CardinalityType
<1>8. s \in UpTo(T, Cardinality(s))
  BY <1>7 DEF UpTo
<1> QED
  BY <1>6, <1>7, <1>8

(* They do not depend on the order in which members are picked.             *)
AnyOrder(g, f, S) == \A s \in SUBSET S : \A x \in s : g[s] = f[x] + g[s \ {x}]

LEMMA SumsAnyOrder ==
    ASSUME NEW S, IsFiniteSet(S), NEW f, \A x \in S : f[x] \in Int,
           NEW g \in [SUBSET S -> Int], Sums(g, f, SUBSET S)
    PROVE  AnyOrder(g, f, S)
<1> DEFINE A == {n \in Nat : \A s \in UpTo(S, n) : \A x \in s : g[s] = f[x] + g[s \ {x}]}
<1>0. \A s \in SUBSET S : s # {} => Pick(s) \in s
  BY DEF Pick
<1>1. \A s \in SUBSET S : g[s] = IF s = {} THEN 0 ELSE f[Pick(s)] + g[s \ {Pick(s)}]
  BY Zenon DEF Sums
<1>2. 0 \in A
  <2> SUFFICES ASSUME NEW s \in SUBSET S, Cardinality(s) <= 0, NEW x \in s PROVE FALSE
    BY DEF UpTo
  <2> HIDE DEF A
  <2>1. IsFiniteSet(s)
    BY FS_Subset
  <2>2. Cardinality(s) \in Nat
    BY <2>1, FS_CardinalityType
  <2> QED
    BY <2>1, <2>2, FS_EmptySet
<1>3. ASSUME NEW n \in Nat, n \in A PROVE n + 1 \in A
  <2> SUFFICES ASSUME NEW s \in UpTo(S, n + 1), NEW x \in s PROVE g[s] = f[x] + g[s \ {x}]
    OBVIOUS
  <2> DEFINE y == Pick(s)
  <2>1. y \in s /\ s \in SUBSET S /\ Cardinality(s) <= n + 1
    BY <1>0 DEF UpTo
  <2>2. g[s] = f[y] + g[s \ {y}]
    BY <1>1, <2>1
  <2>3. CASE x = y
    BY <2>2, <2>3
  <2>4. CASE x # y
    <3>1. s \ {x} \in UpTo(S, n) /\ s \ {y} \in UpTo(S, n)
      BY <2>1, Smaller DEF UpTo
    <3> HIDE DEF y
    <3>2. g[s \ {x}] = f[y] + g[(s \ {x}) \ {y}]
      BY <1>3, <2>1, <2>4, <3>1
    <3>3. g[s \ {y}] = f[x] + g[(s \ {y}) \ {x}]
      BY <1>3, <2>1, <2>4, <3>1
    <3>4. (s \ {x}) \ {y} = (s \ {y}) \ {x}
      OBVIOUS
    <3>5. f[x] \in Int /\ f[y] \in Int /\ g[(s \ {x}) \ {y}] \in Int
      BY <2>1
    <3> DEFINE rest == g[(s \ {x}) \ {y}]
    <3>6. g[s \ {x}] = f[y] + rest /\ g[s \ {y}] = f[x] + rest
      BY <3>2, <3>3, <3>4
    <3>7. f[x] \in Int /\ f[y] \in Int /\ rest \in Int
      BY <3>5
    <3> HIDE DEF rest
    <3>8. f[y] + (f[x] + rest) = f[x] + (f[y] + rest)
      BY <3>7
    <3> QED
      BY <2>2, <3>6, <3>8
  <2> QED
    BY <2>3, <2>4
<1>4. Nat \subseteq A
  <2> HIDE DEF A
  <2> QED
    BY <1>2, <1>3, AllNumbers
<1> SUFFICES ASSUME NEW s \in SUBSET S, NEW x \in s PROVE g[s] = f[x] + g[s \ {x}]
  BY DEF AnyOrder
<1>5. Cardinality(s) \in Nat
  BY FS_Subset, FS_CardinalityType
<1>6. s \in UpTo(S, Cardinality(s))
  BY <1>5 DEF UpTo
<1> QED
  BY <1>4, <1>5, <1>6

SumOver(f, S) == MapThenSumSet(LAMBDA x : f[x], S)

LEMMA SumIsFold ==
    ASSUME NEW S, IsFiniteSet(S), NEW f, \A x \in S : f[x] \in Int,
           NEW g, Sums(g, f, SUBSET S)
    PROVE  SumOver(f, S) = g[S]
<1> DEFINE h == CHOOSE e : Sums(e, f, SUBSET S)
<1>1. Sums(h, f, SUBSET S)
  OBVIOUS
<1>2. SumOver(f, S) = h[S]
  BY DEF SumOver, MapThenSumSet, MapThenFoldSet, Sums, Pick
<1> HIDE DEF h
<1>3. S \in SUBSET S
  OBVIOUS
<1>4. Agree(g, h, S)
  BY <1>1, <1>3, SumsAgree
<1> QED
  BY <1>2, <1>3, <1>4 DEF Agree

(* The sum over no members is 0; one more member adds its number.           *)
LEMMA SumOfNone == ASSUME NEW f PROVE SumOver(f, {}) = 0
<1>1. IsFiniteSet({})
  BY FS_EmptySet
<1>2. PICK g \in [SUBSET {} -> Int] : Sums(g, f, SUBSET {})
  BY <1>1, SumsExist
<1>3. g[{}] = 0
  BY <1>2, Zenon DEF Sums
<1> QED
  BY <1>1, <1>2, <1>3, SumIsFold

LEMMA SumOfOneMore ==
    ASSUME NEW S, IsFiniteSet(S), NEW x, x \notin S,
           NEW f, \A y \in S \cup {x} : f[y] \in Int
    PROVE  /\ SumOver(f, S) \in Int
           /\ SumOver(f, S \cup {x}) = SumOver(f, S) + f[x]
<1> DEFINE T == S \cup {x}
<1>1. IsFiniteSet(T)
  BY FS_AddElement
<1>2. PICK g \in [SUBSET T -> Int] : Sums(g, f, SUBSET T)
  BY <1>1, SumsExist
<1>3. PICK h \in [SUBSET S -> Int] : Sums(h, f, SUBSET S)
  BY SumsExist
<1>4. SumOver(f, T) = g[T] /\ SumOver(f, S) = h[S]
  BY <1>1, <1>2, <1>3, SumIsFold
<1>5. S \in SUBSET T /\ S \in SUBSET S /\ T \in SUBSET T /\ x \in T /\ T \ {x} = S
  OBVIOUS
<1>6. \A y \in T : f[y] \in Int
  OBVIOUS
<1> HIDE DEF T
<1>7. Agree(g, h, S)
  BY <1>1, <1>2, <1>3, <1>5, SumsAgree
<1>8. AnyOrder(g, f, T)
  BY <1>1, <1>2, <1>6, SumsAnyOrder
<1>9. g[T] = f[x] + g[S] /\ g[S] = h[S] /\ h[S] \in Int /\ f[x] \in Int
  BY <1>3, <1>5, <1>6, <1>7, <1>8 DEF Agree, AnyOrder
<1>10. SumOver(f, T) = SumOver(f, S) + f[x]
  BY <1>4, <1>9
<1> QED
  BY <1>4, <1>9, <1>10 DEF T

-----------------------------------------------------------------------------
(* Requests count once: a request that is sent again finds its key.         *)

Points == [q \in Requests |-> Asked[q].points]
SumOfPoints(S) == MapThenSumSet(LAMBDA q : Asked[q].points, S)

LEMMA SumOfPointsIs ==
    ASSUME NEW S \in SUBSET Requests, IsFiniteSet(S)
    PROVE  SumOfPoints(S) = SumOver(Points, S)
<1>1. \A q \in S : Points[q] \in Int /\ Points[q] = Asked[q].points
  BY RankingAssumption DEF Points
<1>2. PICK g \in [SUBSET S -> Int] : Sums(g, Points, SUBSET S)
  BY <1>1, SumsExist
<1> DEFINE Eq(e) == e = [s \in SUBSET S |->
              IF s = {} THEN 0 ELSE Asked[Pick(s)].points + e[s \ {Pick(s)}]]
           h == CHOOSE e : Eq(e)
<1>3. \A s \in SUBSET S : s # {} => Points[Pick(s)] = Asked[Pick(s)].points
  <2>1. \A s \in SUBSET S : s # {} => Pick(s) \in S
    BY DEF Pick
  <2> QED
    BY <1>1, <2>1
<1>4. \A e : Eq(e) <=> Sums(e, Points, SUBSET S)
  BY <1>3 DEF Sums
<1>5. Eq(h)
  <2>1. Eq(g)
    BY <1>2, <1>4
  <2> HIDE DEF Eq
  <2> QED
    BY <2>1
<1>6. SumOfPoints(S) = h[S]
  BY DEF SumOfPoints, MapThenSumSet, MapThenFoldSet, Pick
<1> HIDE DEF h
<1>7. Sums(h, Points, SUBSET S)
  BY <1>4, <1>5
<1> HIDE DEF Eq
<1> QED
  BY <1>1, <1>6, <1>7, SumIsFold

LEMMA SumOfPointsNone == SumOfPoints({}) = 0
<1>1. {} \in SUBSET Requests /\ IsFiniteSet({})
  BY FS_EmptySet
<1> QED
  BY <1>1, SumOfPointsIs, SumOfNone

LEMMA SumOfPointsMore ==
    ASSUME NEW S \in SUBSET Requests, IsFiniteSet(S), NEW q \in Requests, q \notin S
    PROVE  /\ IsFiniteSet(S \cup {q}) /\ S \cup {q} \in SUBSET Requests
           /\ SumOfPoints(S) \in Int
           /\ SumOfPoints(S \cup {q}) = SumOfPoints(S) + Asked[q].points
<1> DEFINE T == S \cup {q}
<1>1. T \in SUBSET Requests /\ IsFiniteSet(T)
  BY FS_AddElement
<1>2. \A y \in S \cup {q} : Points[y] \in Int /\ Points[y] = Asked[y].points
  BY RankingAssumption DEF Points
<1>3. SumOver(Points, S) \in Int /\ SumOver(Points, S \cup {q}) = SumOver(Points, S) + Points[q]
  BY <1>2, SumOfOneMore
<1>4. SumOfPoints(S) = SumOver(Points, S) /\ SumOfPoints(T) = SumOver(Points, T)
  BY <1>1, SumOfPointsIs
<1>5. Points[q] = Asked[q].points
  BY <1>2
<1> QED
  BY <1>1, <1>3, <1>4, <1>5

SentOnce(q) ==
    \/ seen[q] = 0 /\ \A m \in Members : q \notin credit[m]
    \/ \E s \in stamps[q] : seen[q] >= s + IdempotentSecs

Credited(m) ==
    /\ IsFiniteSet(credit[m])
    /\ board[m].points = SumOfPoints(credit[m])

CountInv ==
    /\ seen \in [Requests -> Int]
    /\ credit \in [Members -> SUBSET Requests]
    /\ \A q \in Requests : SentOnce(q)
    /\ \A m \in DOMAIN board : Credited(m)

LEMMA CountInit == RankInit => CountInv
  BY RankingAssumption DEF RankInit, CountInv, SentOnce

(* What a request does that is scripted: it is not credited yet.            *)
LEMMA ScriptedCounts ==
    ASSUME RankInv, CountInv, NEW q \in Requests, NEW m \in Members, m = Asked[q].member,
           q \notin credit[m], NEW C, C \in {{q}, credit[m] \cup {q}},
           NEW points,
           \/ C = {q} /\ points = Asked[q].points
           \/ m \in DOMAIN board /\ C = credit[m] \cup {q}
              /\ points = board[m].points + Asked[q].points
    PROVE  /\ C \in SUBSET Requests /\ IsFiniteSet(C)
           /\ points = SumOfPoints(C)
<1>1. CASE C = {q} /\ points = Asked[q].points
  <2>1. {} \in SUBSET Requests /\ IsFiniteSet({}) /\ q \notin {} /\ {} \cup {q} = C
    BY <1>1, FS_EmptySet
  <2>2. IsFiniteSet(C) /\ SumOfPoints(C) = 0 + Asked[q].points
    BY <2>1, SumOfPointsMore, SumOfPointsNone
  <2>3. Asked[q].points \in Int
    BY RankingAssumption
  <2> QED
    BY <1>1, <2>2, <2>3
<1>2. CASE m \in DOMAIN board /\ C = credit[m] \cup {q}
           /\ points = board[m].points + Asked[q].points
  <2>1. credit[m] \in SUBSET Requests /\ IsFiniteSet(credit[m])
        /\ board[m].points = SumOfPoints(credit[m])
    BY <1>2 DEF CountInv, Credited
  <2>2. /\ IsFiniteSet(C) /\ C \in SUBSET Requests
        /\ SumOfPoints(C) = SumOfPoints(credit[m]) + Asked[q].points
    BY <1>2, <2>1, SumOfPointsMore
  <2> QED
    BY <1>2, <2>1, <2>2
<1> QED
  BY <1>1, <1>2

LEMMA CallCounts ==
    ASSUME RankInv, CountInv, NEW q \in Requests, Call(q)
    PROVE  CountInv'
<1>1. /\ stamps' = [stamps EXCEPT ![q] = @ \cup {second}]
      /\ UNCHANGED <<board, seen, credit>>
  BY DEF Call
<1>2. \A p \in Requests : stamps[p] \subseteq stamps'[p]
  BY <1>1 DEF RankInv
<1>3. \A p \in Requests : SentOnce(p)'
  BY <1>1, <1>2 DEF CountInv, SentOnce
<1> QED
  BY <1>1, <1>3 DEF CountInv, Credited

LEMMA EvalCounts ==
    ASSUME RankInv, CountInv, NEW q \in Requests, Eval(q)
    PROVE  CountInv'
<1> DEFINE m == Asked[q].member
<1>0. m \in Members /\ Asked[q].points \in Int /\ IdempotentSecs \in Nat
  BY RankingAssumption
<1>1. PICK stamp \in stamps[q] :
         /\ IF Asked[q].add THEN luaAdd(q, stamp) ELSE luaIncr(q, stamp)
         /\ WhileKeyLives(q) /\ UNCHANGED <<second, stamps>>
  BY DEF Eval
<1>2. SentOnce(q) /\ seen[q] \in Int
  BY DEF CountInv
<1>3. second \in Nat /\ stamp \in Nat /\ stamp <= second /\ \A s \in stamps[q] : s \in Nat
  BY <1>1 DEF RankInv
<1>4. CASE seen[q] = 0 /\ \A n \in Members : q \notin credit[n]
  <2>1. seen[q] = 0 /\ \A n \in Members : q \notin credit[n]
    BY <1>4
  <2>2. PICK points :
           /\ seen' = [seen EXCEPT ![q] = second + IdempotentSecs]
           /\ board' = With(m, Score(points, stamp))
           /\ credit' = [credit EXCEPT ![m] = IF Asked[q].add THEN {q}
                            ELSE IF m \in DOMAIN board THEN @ \cup {q} ELSE {q}]
           /\ points = IF Asked[q].add THEN Asked[q].points ELSE PointsOf(m) + Asked[q].points
    BY <1>1, <1>3, <2>1 DEF luaAdd, luaIncr, Scripted, NewRequestKey
  <2> DEFINE C == IF Asked[q].add THEN {q}
                  ELSE IF m \in DOMAIN board THEN credit[m] \cup {q} ELSE {q}
  <2>3. C \in SUBSET Requests /\ IsFiniteSet(C) /\ points = SumOfPoints(C)
    <3>1. q \notin credit[m] /\ C \in {{q}, credit[m] \cup {q}}
      BY <1>0, <2>1
    <3>2. \/ C = {q} /\ points = Asked[q].points
          \/ m \in DOMAIN board /\ C = credit[m] \cup {q}
             /\ points = board[m].points + Asked[q].points
      BY <1>0, <2>2 DEF PointsOf
    <3> HIDE DEF C
    <3> QED
      BY <1>0, <3>1, <3>2, ScriptedCounts
  <2>4. credit' = [credit EXCEPT ![m] = C]
    BY <2>2 DEF CountInv
  <2> HIDE DEF C, m
  <2>5. credit' \in [Members -> SUBSET Requests] /\ credit'[m] = C
        /\ \A n \in Members : n # m => credit'[n] = credit[n]
    BY <1>0, <2>3, <2>4 DEF CountInv
  <2>6. board' = [k \in DOMAIN board \cup {m} |-> IF k = m THEN Score(points, stamp) ELSE board[k]]
    BY <2>2 DEF With
  <2>7. \A n \in DOMAIN board' : Credited(n)'
    <3> SUFFICES ASSUME NEW n \in DOMAIN board' PROVE Credited(n)'
      OBVIOUS
    <3>1. CASE n = m
      <4>1. board'[n].points = points
        BY <2>6, <3>1 DEF Score
      <4>2. credit'[n] = C
        BY <2>5, <3>1
      <4> QED
        BY <2>3, <4>1, <4>2 DEF Credited
    <3>2. CASE n # m
      <4>1. n \in DOMAIN board /\ board'[n] = board[n] /\ n \in Members
        BY <2>6, <3>2 DEF RankInv
      <4>2. credit'[n] = credit[n]
        BY <2>5, <3>2, <4>1
      <4> QED
        BY <4>1, <4>2 DEF CountInv, Credited
    <3> QED
      BY <3>1, <3>2
  <2>8. seen' \in [Requests -> Int] /\ seen'[q] = second + IdempotentSecs
        /\ \A p \in Requests : p # q => seen'[p] = seen[p]
    BY <1>0, <1>3, <2>2 DEF CountInv
  <2>9. \A p \in Requests : SentOnce(p)'
    <3> SUFFICES ASSUME NEW p \in Requests PROVE SentOnce(p)'
      OBVIOUS
    <3>1. CASE p = q
      <4>1. stamp \in stamps'[p] /\ seen'[p] >= stamp + IdempotentSecs
        BY <1>0, <1>1, <1>3, <2>8, <3>1
      <4> QED
        BY <4>1 DEF SentOnce
    <3>2. CASE p # q
      <4>1. seen'[p] = seen[p] /\ stamps'[p] = stamps[p]
        BY <1>1, <2>8, <3>2
      <4>2. \A n \in Members : p \in credit'[n] => p \in credit[n]
        BY <2>4, <2>5, <3>2 DEF C
      <4> QED
        BY <4>1, <4>2 DEF CountInv, SentOnce
    <3> QED
      BY <3>1, <3>2
  <2> QED
    BY <2>5, <2>7, <2>8, <2>9 DEF CountInv
<1>5. CASE \E s \in stamps[q] : seen[q] >= s + IdempotentSecs
  <2>1. PICK s \in stamps[q] : seen[q] >= s + IdempotentSecs
    BY <1>5
  <2>2. second < s + IdempotentSecs
    BY <1>1 DEF WhileKeyLives
  <2>3. seen[q] > second /\ ~(seen[q] <= second)
    BY <1>0, <1>2, <1>3, <2>1, <2>2
  <2>4. UNCHANGED <<seen, board, credit>>
    BY <1>1, <2>3 DEF luaAdd, luaIncr, Scripted, NewRequestKey
  <2> QED
    BY <1>1, <2>4 DEF CountInv, Credited, SentOnce
<1> QED
  BY <1>2, <1>4, <1>5 DEF SentOnce

LEMMA CountStep == RankInv /\ CountInv /\ [RankNext]_rankVars => CountInv'
<1> SUFFICES ASSUME RankInv, CountInv, [RankNext]_rankVars PROVE CountInv'
  OBVIOUS
<1>1. CASE /\ UNCHANGED <<seen, stamps, credit>>
           /\ \A m \in DOMAIN board' : m \in DOMAIN board /\ board'[m] = board[m]
  <2>1. \A q \in Requests : SentOnce(q)'
    BY <1>1 DEF CountInv, SentOnce
  <2>2. \A m \in DOMAIN board' : Credited(m)'
    BY <1>1 DEF CountInv, Credited
  <2> QED
    BY <1>1, <2>1, <2>2 DEF CountInv
<1>2. CASE RankTick \/ Truncate \/ FuzzySet \/ UNCHANGED rankVars
  BY <1>1, <1>2 DEF RankTick, Truncate, FuzzySet, rankVars
<1>3. CASE TruncateBatch
  BY <1>1, <1>3 DEF TruncateBatch, luaTruncate
<1> QED
  BY <1>2, <1>3, CallCounts, EvalCounts DEF RankNext, RankChange

LEMMA CountInvCounts == CountInv => CountedOnce
  BY DEF CountInv, Credited, CountedOnce, SumOfPoints

(* However often a request is repeated while its key lives, its points are  *)
(* given once.                                                              *)
THEOREM RequestsCountOnce == PartsSpec => []CountedOnce
<1>1. PartsInit => RankInv /\ CountInv
  BY RankInitInv, CountInit DEF PartsInit
<1>2. RankInv /\ CountInv /\ [PartsNext]_all => RankInv' /\ CountInv'
  BY RankSteps, BoardSteps, CountStep
<1>3. RankInv /\ CountInv => CountedOnce
  BY CountInvCounts
<1> QED
  BY <1>1, <1>2, <1>3, PTL DEF PartsSpec

-----------------------------------------------------------------------------
(* Pages: the members in order have the ranks in order.                     *)

Size == Cardinality(Paged)

LEMMA PagedFinite ==
    ASSUME RankInv
    PROVE  IsFiniteSet(Paged) /\ Size \in Nat /\ Size <= Cardinality(DOMAIN board)
<1>1. Paged \in SUBSET DOMAIN board
  BY DEF Paged
<1> QED
  BY <1>1, BoardFinite, FS_Subset, FS_CardinalityType DEF Size

(* Who is ahead of one that is paged is paged: the first ranks are.       *)
LEMMA PagedFirst ==
    ASSUME RankInv
    PROVE  /\ \A m \in Paged : Before(m) \subseteq Paged
           /\ \A m \in DOMAIN board : Rank(m) < Size => m \in Paged
<1>1. ASSUME NEW a \in DOMAIN board, NEW b \in Paged, Ahead(a, b)
      PROVE  a \in Paged
  <2>1. b \in DOMAIN board /\ board[b].points >= 0
    BY DEF Paged
  <2>2. board[a] \in ScoreTyped /\ board[b] \in ScoreTyped
    BY <2>1 DEF RankInv
  <2>3. board[a].points >= 0
    BY <1>1, <2>1, <2>2 DEF Ahead, ScoreTyped
  <2> QED
    BY <2>3 DEF Paged
<1>2. ASSUME NEW m \in DOMAIN board, Rank(m) < Size, m \notin Paged
      PROVE  FALSE
  <2>1. ASSUME NEW b \in Paged PROVE b \in Before(m)
    <3>1. b \in DOMAIN board /\ b # m
      BY <1>2 DEF Paged
    <3>2. ~Ahead(m, b)
      BY <1>1, <1>2
    <3> QED
      BY <3>1, <3>2, AheadOrder DEF Before
  <2>2. Paged \in SUBSET Before(m)
    BY <2>1
  <2>3. Rank(m) = Cardinality(Before(m)) /\ IsFiniteSet(Before(m))
    BY RankBefore
  <2>4. Size <= Cardinality(Before(m)) /\ Cardinality(Before(m)) \in Nat
    BY <2>2, <2>3, FS_Subset, FS_CardinalityType DEF Size
  <2> QED
    BY <1>2, <2>3, <2>4, PagedFinite
<1> QED
  BY <1>1, <1>2 DEF Before

LEMMA RankedInOrder ==
    ASSUME RankInv
    PROVE  /\ Ranked \in [1 .. Size -> Paged]
           /\ \A i, j \in 1 .. Size : i < j => Ahead(Ranked[i], Ranked[j])
<1> DEFINE Sorted(s) == \A i, j \in DOMAIN s : i < j => Ahead(s[i], s[j])
           By(k) == CHOOSE m \in DOMAIN board : Rank(m) = k
           s == [i \in 1 .. Size |-> By(i - 1)]
<1>1. Size \in Nat
  BY PagedFinite
<1>2. \A i \in 1 .. Size : By(i - 1) \in Paged /\ Rank(By(i - 1)) = i - 1
  <2> SUFFICES ASSUME NEW i \in 1 .. Size
               PROVE  By(i - 1) \in Paged /\ Rank(By(i - 1)) = i - 1
    OBVIOUS
  <2>1. i - 1 \in Nat /\ i - 1 < Size /\ i - 1 < Cardinality(DOMAIN board)
    BY <1>1, PagedFinite, BoardFinite
  <2>2. \E m \in DOMAIN board : Rank(m) = i - 1
    BY <2>1, RanksOnto
  <2>3. By(i - 1) \in DOMAIN board /\ Rank(By(i - 1)) = i - 1
    BY <2>2
  <2> HIDE DEF By
  <2> QED
    BY <2>1, <2>3, PagedFirst
<1>3. s \in [1 .. Size -> Paged]
  <2> HIDE DEF By
  <2> QED
    BY <1>2
<1>4. Sorted(s)
  <2> SUFFICES ASSUME NEW i \in 1 .. Size, NEW j \in 1 .. Size, i < j
               PROVE  Ahead(s[i], s[j])
    OBVIOUS
  <2>1. /\ s[i] \in DOMAIN board /\ Rank(s[i]) = i - 1
        /\ s[j] \in DOMAIN board /\ Rank(s[j]) = j - 1
    <3> HIDE DEF By
    <3> QED
      BY <1>2 DEF Paged
  <2> HIDE DEF s
  <2>2. ~Ahead(s[j], s[i])
    BY <1>1, <2>1, AheadRanks
  <2>3. s[i] # s[j]
    BY <1>1, <2>1
  <2> QED
    BY <2>1, <2>2, <2>3, AheadOrder
<1> HIDE DEF s, Sorted
<1>5. \E r \in [1 .. Size -> Paged] : Sorted(r)
  BY <1>3, <1>4
<1>6. Ranked = CHOOSE r \in [1 .. Size -> Paged] : Sorted(r)
  BY DEF Ranked, Sorted, Size
<1>7. Ranked \in [1 .. Size -> Paged] /\ Sorted(Ranked)
  BY <1>5, <1>6
<1> QED
  BY <1>7 DEF Sorted

LEMMA RankOfRanked ==
    ASSUME RankInv, NEW i \in 1 .. Size
    PROVE  Rank(Ranked[i]) = i - 1
<1> DEFINE m == Ranked[i]
           D == 1 .. Size
<1>1. Size \in Nat /\ IsFiniteSet(Paged) /\ Size = Cardinality(Paged)
  BY PagedFinite DEF Size
<1>2. IsFiniteSet(D) /\ Cardinality(D) = Size
  <2>1. IsFiniteSet(1 .. Size) /\ Cardinality(1 .. Size) = IF 1 > Size THEN 0 ELSE Size - 1 + 1
    BY <1>1, FS_Interval
  <2> QED
    BY <1>1, <2>1
<1>3. Paged \subseteq DOMAIN board /\ Ranked \in [D -> Paged] /\ \A j, k \in D : j < k => Ahead(Ranked[j], Ranked[k])
  BY RankedInOrder DEF Paged
<1>4. \A j, k \in D : Ranked[j] = Ranked[k] => j = k
  <2> SUFFICES ASSUME NEW j \in D, NEW k \in D, j # k PROVE Ranked[j] # Ranked[k]
    OBVIOUS
  <2>1. Ahead(Ranked[j], Ranked[k]) \/ Ahead(Ranked[k], Ranked[j])
    BY <1>1, <1>3
  <2> QED
    BY <1>3, <2>1, AheadOrder
<1> HIDE DEF D
<1>5. Ranked \in Injection(D, Paged)
  BY <1>3, <1>4 DEF Injection, IsInjective
<1>6. Ranked \in Surjection(D, Paged)
  BY <1>1, <1>2, <1>5, FS_Injection
<1>7. \A n \in Paged : \E j \in D : Ranked[j] = n
  BY <1>6 DEF Surjection
<1> DEFINE f == [j \in 1 .. i - 1 |-> Ranked[j]]
<1>8. i \in Int /\ 1 <= i /\ i \in D /\ \A j \in 1 .. i - 1 : j \in D /\ j < i
  BY <1>1 DEF D
<1>9. m \in DOMAIN board /\ m \in Paged
  BY <1>3, <1>8
<1>10. \A n \in Before(m) : \E j \in 1 .. i - 1 : Ranked[j] = n
  <2> SUFFICES ASSUME NEW n \in DOMAIN board, Ahead(n, m) PROVE \E j \in 1 .. i - 1 : Ranked[j] = n
    BY DEF Before
  <2>0. n \in Paged
    BY <1>9, PagedFirst DEF Before
  <2>1. PICK j \in D : Ranked[j] = n
    BY <1>7, <2>0
  <2>2. j # i
    BY <1>9, <2>1, AheadOrder
  <2>3. ~(i < j)
    BY <1>3, <1>8, <1>9, <2>1, AheadOrder
  <2>4. j \in 1 .. i - 1
    BY <1>8, <2>2, <2>3 DEF D
  <2> QED
    BY <2>1, <2>4
<1>11. f \in [1 .. i - 1 -> Before(m)]
  BY <1>3, <1>8 DEF Before
<1> HIDE DEF m
<1>12. f \in Bijection(1 .. i - 1, Before(m))
  <2>1. \A j, k \in 1 .. i - 1 : f[j] = f[k] => j = k
    BY <1>4, <1>8
  <2>2. \A n \in Before(m) : \E j \in 1 .. i - 1 : f[j] = n
    BY <1>10
  <2> HIDE DEF f
  <2> QED
    BY <1>11, <2>1, <2>2 DEF Bijection, Injection, Surjection, IsInjective
<1>13. IsFiniteSet(1 .. i - 1) /\ Cardinality(1 .. i - 1) = i - 1
  <2>1. IsFiniteSet(1 .. i - 1) /\ Cardinality(1 .. i - 1) = IF 1 > i - 1 THEN 0 ELSE i - 1 - 1 + 1
    <3>1. 1 \in Int /\ i - 1 \in Int
      BY <1>8
    <3> QED
      BY <3>1, FS_Interval
  <2> QED
    BY <1>8, <2>1
<1> HIDE DEF f
<1>14. Cardinality(Before(m)) = i - 1
  <2>1. ExistsBijection(1 .. i - 1, Before(m))
    BY <1>12 DEF ExistsBijection
  <2> QED
    BY <1>13, <2>1, FS_Bijection
<1> QED
  BY <1>9, <1>14, RankBefore DEF m

LEMMA MinOfTwo ==
    ASSUME NEW a \in Int, NEW b \in Int
    PROVE  Min({a, b}) \in Int /\ Min({a, b}) <= a /\ Min({a, b}) <= b
<1>1. \E x \in {a, b} : \A y \in {a, b} : x =< y
  OBVIOUS
<1>2. Min({a, b}) \in {a, b} /\ \A y \in {a, b} : Min({a, b}) =< y
  BY <1>1 DEF Min
<1> QED
  BY <1>2

LEMMA PagesRanked == RankInv => PagesFollowRank
<1> SUFFICES ASSUME RankInv, NEW offset \in 0 .. Cardinality(DOMAIN board),
                    NEW k \in DOMAIN Paginate(offset, 2)
             PROVE  /\ Rank(Paginate(offset, 2)[k]) = offset + k - 1
                    /\ board[Paginate(offset, 2)[k]].points >= 0
  BY DEF PagesFollowRank
<1> DEFINE page == Paginate(offset, 2)
           last2 == Min({offset + 2, Len(Ranked)})
<1>1. Size \in Nat /\ offset \in Nat
  BY PagedFinite, BoardFinite
<1>2. Ranked \in Seq(Paged) /\ Len(Ranked) = Size
  <2>1. Ranked \in [1 .. Size -> Paged]
    BY RankedInOrder
  <2> QED
    BY <1>1, <2>1
<1>3. last2 \in Int /\ last2 <= Size
  <2>1. offset + 2 \in Int /\ Len(Ranked) \in Int
    BY <1>1, <1>2
  <2> QED
    BY <1>2, <2>1, MinOfTwo
<1>4. page = SubSeq(Ranked, offset + 1, last2)
  BY DEF Paginate
<1> HIDE DEF last2
<1>5. k \in 1 .. last2 - offset /\ page[k] = Ranked[offset + k]
  BY <1>1, <1>2, <1>3, <1>4
<1>6. PICK i \in 1 .. Size : i = offset + k
  BY <1>1, <1>3, <1>5
<1>7. Rank(Ranked[i]) = i - 1 /\ Ranked[i] \in Paged
  BY <1>6, RankOfRanked, RankedInOrder
<1> QED
  BY <1>5, <1>6, <1>7 DEF Paged

-----------------------------------------------------------------------------
(* Fuzzy ranks: counts of the ranges above, and the share of the own one.   *)

(* More members with numbers that are not negative add up to no less.       *)
LEMMA SumGrows ==
    ASSUME NEW S, IsFiniteSet(S), NEW T \in SUBSET S, NEW f, \A x \in S : f[x] \in Nat
    PROVE  SumOver(f, T) \in Int /\ SumOver(f, T) <= SumOver(f, S)
<1>1. IsFiniteSet(T) /\ \A x \in S : f[x] \in Int
  BY FS_Subset
<1>2. PICK g \in [SUBSET S -> Int] : Sums(g, f, SUBSET S)
  BY <1>1, SumsExist
<1>3. AnyOrder(g, f, S)
  BY <1>1, <1>2, SumsAnyOrder
<1>4. SumOver(f, S) = g[S]
  BY <1>1, <1>2, SumIsFold
<1>5. SumOver(f, T) = g[T]
  <2>1. \A x \in T : f[x] \in Int
    BY <1>1
  <2>2. PICK h \in [SUBSET T -> Int] : Sums(h, f, SUBSET T)
    BY <1>1, <2>1, SumsExist
  <2>3. SumOver(f, T) = h[T]
    BY <1>1, <2>1, <2>2, SumIsFold
  <2>4. Agree(g, h, T)
    BY <1>2, <2>2, SumsAgree
  <2> QED
    BY <2>3, <2>4 DEF Agree
<1> DEFINE A == {n \in Nat : \A s \in UpTo(S, n) : g[s \cap T] <= g[s]}
<1>6. 0 \in A
  <2> SUFFICES ASSUME NEW s \in SUBSET S, Cardinality(s) <= 0 PROVE g[s \cap T] <= g[s]
    BY DEF UpTo
  <2> HIDE DEF A
  <2>1. IsFiniteSet(s)
    BY FS_Subset
  <2>2. Cardinality(s) \in Nat
    BY <2>1, FS_CardinalityType
  <2>3. s = {} /\ s \cap T = s
    BY <2>1, <2>2, FS_EmptySet
  <2>4. g[s] \in Int
    OBVIOUS
  <2> QED
    BY <2>3, <2>4
<1>7. ASSUME NEW n \in Nat, n \in A PROVE n + 1 \in A
  <2> SUFFICES ASSUME NEW s \in UpTo(S, n + 1) PROVE g[s \cap T] <= g[s]
    OBVIOUS
  <2>1. s \in SUBSET S /\ s \cap T \in SUBSET S /\ g[s] \in Int /\ g[s \cap T] \in Int
    BY DEF UpTo
  <2>2. CASE s = {}
    <3>1. s \cap T = s
      BY <2>2
    <3>2. g[s \cap T] = g[s]
      BY <3>1, Zenon
    <3> QED
      BY <2>1, <3>2
  <2>3. ASSUME NEW x \in s PROVE g[s \cap T] <= g[s]
    <3> DEFINE r == s \ {x}
    <3>1. r \in UpTo(S, n) /\ f[x] \in Nat
      BY <2>1, Smaller DEF UpTo
    <3>2. g[r \cap T] <= g[r]
      BY <1>7, <3>1
    <3>3. g[s] = f[x] + g[r]
      BY <1>3, <2>1 DEF AnyOrder
    <3>4. r \in SUBSET S /\ r \cap T \in SUBSET S /\ g[r] \in Int /\ g[r \cap T] \in Int
      BY <2>1
    <3>5. CASE x \in T
      <4>1. x \in s \cap T /\ (s \cap T) \ {x} = r \cap T
        BY <3>5
      <4>2. g[s \cap T] = f[x] + g[r \cap T]
        BY <1>3, <2>1, <4>1 DEF AnyOrder
      <4> HIDE DEF r
      <4> QED
        BY <3>1, <3>2, <3>3, <3>4, <4>2
    <3>6. CASE x \notin T
      <4>1. s \cap T = r \cap T
        BY <3>6
      <4> HIDE DEF r
      <4>2. g[s \cap T] = g[r \cap T]
        BY <4>1, Zenon
      <4> QED
        BY <3>1, <3>2, <3>3, <3>4, <4>2
    <3> QED
      BY <3>5, <3>6
  <2> QED
    BY <2>2, <2>3
<1>8. Nat \subseteq A
  <2> HIDE DEF A
  <2> QED
    BY <1>6, <1>7, AllNumbers
<1>9. Cardinality(S) \in Nat /\ S \in UpTo(S, Cardinality(S))
  BY FS_CardinalityType DEF UpTo
<1>10. g[S \cap T] <= g[S]
  BY <1>8, <1>9
<1>11. S \cap T = T
  OBVIOUS
<1> QED
  BY <1>4, <1>5, <1>10, <1>11

LEMMA SumOfOne ==
    ASSUME NEW x, NEW f, f[x] \in Int
    PROVE  SumOver(f, {x}) = f[x]
<1>1. IsFiniteSet({}) /\ x \notin {} /\ {} \cup {x} = {x} /\ \A y \in {} \cup {x} : f[y] \in Int
  BY FS_EmptySet
<1>2. SumOver(f, {}) = 0
  BY SumOfNone
<1>3. SumOver(f, {} \cup {x}) = SumOver(f, {}) + f[x]
  BY <1>1, SumOfOneMore
<1> QED
  BY <1>1, <1>2, <1>3

Share(score, k) == (RangeEnd(k) - score) \div (RangeEnd(k) - RangeStart(k))
SumOfShares(score, S) ==
    MapThenSumSet(LAMBDA k : (RangeEnd(k) - score) \div (RangeEnd(k) - RangeStart(k)), S)

LEMMA SumOfSharesIs ==
    ASSUME NEW score, NEW S, IsFiniteSet(S), \A k \in S : Share(score, k) \in Int
    PROVE  SumOfShares(score, S) = SumOver([k \in S |-> Share(score, k)], S)
<1> DEFINE f == [k \in S |-> Share(score, k)]
<1>1. \A k \in S : f[k] \in Int /\ f[k] = Share(score, k)
  OBVIOUS
<1> HIDE DEF f
<1>2. PICK g \in [SUBSET S -> Int] : Sums(g, f, SUBSET S)
  BY <1>1, SumsExist
<1> DEFINE Eq(e) == e = [s \in SUBSET S |->
              IF s = {} THEN 0 ELSE Share(score, Pick(s)) + e[s \ {Pick(s)}]]
           h == CHOOSE e : Eq(e)
<1>3. \A s \in SUBSET S : s # {} => f[Pick(s)] = Share(score, Pick(s))
  <2>1. \A s \in SUBSET S : s # {} => Pick(s) \in S
    BY DEF Pick
  <2> QED
    BY <1>1, <2>1
<1>4. \A e : Eq(e) <=> Sums(e, f, SUBSET S)
  BY <1>3 DEF Sums
<1>5. Eq(h)
  <2>1. Eq(g)
    BY <1>2, <1>4
  <2> HIDE DEF Eq
  <2> QED
    BY <2>1
<1>6. SumOfShares(score, S) = h[S]
  BY DEF SumOfShares, MapThenSumSet, MapThenFoldSet, Pick, Share
<1> HIDE DEF h
<1>7. Sums(h, f, SUBSET S)
  BY <1>4, <1>5
<1> HIDE DEF Eq
<1>8. SumOver(f, S) = h[S]
  BY <1>1, <1>7, SumIsFold
<1> QED
  BY <1>6, <1>8 DEF f

LEMMA Quotients ==
    ASSUME NEW a \in Int, NEW b \in Int, 0 < a, a <= b
    PROVE  a \div b = IF a = b THEN 1 ELSE 0
  OBVIOUS

LEMMA RangesTyped ==
    /\ Len(FuzzyBounds) \in Nat
    /\ IsFiniteSet(Ranges) /\ Ranges \subseteq Int
    /\ \A k \in Ranges : /\ RangeStart(k) \in Int /\ RangeEnd(k) \in Int
                         /\ RangeStart(k) < RangeEnd(k)
    /\ \A j, k \in Ranges : j < k => RangeEnd(k) <= RangeStart(j)
<1>1. Len(FuzzyBounds) \in Nat /\ \A k \in 1 .. Len(FuzzyBounds) : FuzzyBounds[k] \in Int
  BY RankingAssumption
<1>2. Ranges \subseteq Int /\ \A k \in Ranges : k \in 1 .. Len(FuzzyBounds) /\ k + 1 \in 1 .. Len(FuzzyBounds)
  BY <1>1 DEF Ranges
<1>3. IsFiniteSet(Ranges)
  <2>1. 1 \in Int /\ Len(FuzzyBounds) - 1 \in Int
    BY <1>1
  <2> QED
    BY <2>1, FS_Interval DEF Ranges
<1>4. \A k \in Ranges : /\ RangeStart(k) \in Int /\ RangeEnd(k) \in Int
                        /\ RangeStart(k) < RangeEnd(k)
  BY <1>1, <1>2, RankingAssumption DEF RangeStart, RangeEnd
<1>5. ASSUME NEW j \in Ranges, NEW k \in Ranges, j < k PROVE RangeEnd(k) <= RangeStart(j)
  <2>1. j \in Int /\ k \in Int /\ k \in 1 .. Len(FuzzyBounds) /\ j + 1 \in 1 .. Len(FuzzyBounds)
    BY <1>2
  <2>2. CASE k = j + 1
    BY <1>1, <2>1, <2>2 DEF RangeStart, RangeEnd
  <2>3. CASE k > j + 1
    <3>1. PICK i \in 1 .. Len(FuzzyBounds) : i = j + 1
      BY <2>1
    <3>2. FuzzyBounds[i] > FuzzyBounds[k]
      BY <2>1, <2>3, <3>1, RankingAssumption
    <3> QED
      BY <1>1, <2>1, <3>1, <3>2 DEF RangeStart, RangeEnd
  <2> QED
    BY <1>5, <2>1, <2>2, <2>3
<1> QED
  BY <1>1, <1>2, <1>3, <1>4, <1>5

LEMMA SharesAre ==
    ASSUME NEW score \in Int
    PROVE  /\ OwnRange(score) = {} => SumOfShares(score, OwnRange(score)) = 0
           /\ \A o \in OwnRange(score) :
                 /\ OwnRange(score) = {o}
                 /\ Share(score, o) = IF score = RangeStart(o) THEN 1 ELSE 0
                 /\ SumOfShares(score, OwnRange(score)) = Share(score, o)
<1>1. \A k \in OwnRange(score) :
          /\ k \in Ranges /\ RangeStart(k) \in Int /\ RangeEnd(k) \in Int
          /\ 0 < RangeEnd(k) - score
          /\ RangeEnd(k) - score <= RangeEnd(k) - RangeStart(k)
  BY RangesTyped DEF OwnRange
<1>2. \A k \in OwnRange(score) : Share(score, k) = IF score = RangeStart(k) THEN 1 ELSE 0
  <2> SUFFICES ASSUME NEW k \in OwnRange(score)
               PROVE  Share(score, k) = IF score = RangeStart(k) THEN 1 ELSE 0
    OBVIOUS
  <2> DEFINE a == RangeEnd(k) - score
             b == RangeEnd(k) - RangeStart(k)
  <2>1. a \in Int /\ b \in Int /\ 0 < a /\ a <= b /\ (a = b <=> score = RangeStart(k))
    BY <1>1
  <2>2. Share(score, k) = a \div b
    BY DEF Share
  <2> HIDE DEF a, b
  <2> QED
    BY <2>1, <2>2, Quotients
<1>3. IsFiniteSet(OwnRange(score))
  <2>1. OwnRange(score) \in SUBSET Ranges
    BY DEF OwnRange
  <2> QED
    BY <2>1, RangesTyped, FS_Subset
<1>4. SumOfShares(score, OwnRange(score)) = SumOver([k \in OwnRange(score) |-> Share(score, k)], OwnRange(score))
  <2>1. \A k \in OwnRange(score) : Share(score, k) \in Int
    BY <1>2
  <2> QED
    BY <1>3, <2>1, SumOfSharesIs
<1>5. ASSUME OwnRange(score) = {} PROVE SumOfShares(score, OwnRange(score)) = 0
  BY <1>4, <1>5, SumOfNone
<1>6. ASSUME NEW o \in OwnRange(score)
      PROVE  OwnRange(score) = {o} /\ SumOfShares(score, OwnRange(score)) = Share(score, o)
  <2>1. ASSUME NEW k \in OwnRange(score), k # o PROVE FALSE
    <3>1. k \in Ranges /\ o \in Ranges /\ k \in Int /\ o \in Int /\ (k < o \/ o < k)
      BY <2>1, RangesTyped DEF OwnRange
    <3>2. RangeEnd(o) <= RangeStart(k) \/ RangeEnd(k) <= RangeStart(o)
      BY <3>1, RangesTyped
    <3> QED
      BY <3>1, <3>2, RangesTyped DEF OwnRange
  <2>2. OwnRange(score) = {o}
    BY <2>1
  <2> DEFINE f == [k \in OwnRange(score) |-> Share(score, k)]
  <2>3. f[o] = Share(score, o) /\ f[o] \in Int
    BY <1>2
  <2> HIDE DEF f
  <2>4. SumOver(f, {o}) = f[o]
    BY <2>3, SumOfOne
  <2> QED
    BY <1>4, <2>2, <2>3, <2>4 DEF f
<1> QED
  BY <1>2, <1>5, <1>6

AheadOf(score) ==
    IF OwnRange(score) = {} THEN Ranges ELSE {k \in Ranges : \E o \in OwnRange(score) : k < o}

LEMMA FuzzyAboveIs ==
    ASSUME NEW score
    PROVE  FuzzyAbove(score) =
               SumOver(fuzzy, AheadOf(score)) + SumOfShares(score, OwnRange(score))
  BY DEF FuzzyAbove, SumOver, AheadOf, SumOfShares, OwnRange

(* A score that is no less than the last bound and less than the first is   *)
(* in a range.                                                              *)
LEMMA OwnRangeExists ==
    ASSUME NEW score \in Int, Ranges # {},
           FuzzyBounds[Len(FuzzyBounds)] <= score, score < FuzzyBounds[1]
    PROVE  OwnRange(score) # {}
<1> SUFFICES ASSUME OwnRange(score) = {} PROVE FALSE
  OBVIOUS
<1> DEFINE n == Len(FuzzyBounds)
           A == {k \in Nat : k + 1 <= n => score < FuzzyBounds[k + 1]}
<1>1. n \in Nat /\ 2 <= n /\ \A k \in 1 .. n : FuzzyBounds[k] \in Int
  BY RankingAssumption DEF Ranges
<1>2. 0 \in A
  BY <1>1
<1>3. ASSUME NEW k \in Nat, k \in A PROVE k + 1 \in A
  <2> SUFFICES ASSUME k + 2 <= n, ~(score < FuzzyBounds[k + 2]) PROVE FALSE
    BY <1>3
  <2>1. PICK i \in Ranges : i = k + 1
    BY <1>1 DEF Ranges
  <2>2. score < FuzzyBounds[i] /\ i + 1 \in 1 .. n
    BY <1>1, <1>3, <2>1
  <2>3. i + 1 = k + 2
    BY <2>1
  <2>4. FuzzyBounds[i + 1] <= score
    BY <1>1, <2>2, <2>3
  <2>5. i \in OwnRange(score)
    BY <2>2, <2>4 DEF OwnRange, RangeStart, RangeEnd
  <2> QED
    BY <2>5
<1>4. Nat \subseteq A
  <2> HIDE DEF A
  <2> QED
    BY <1>2, <1>3, AllNumbers
<1>5. n - 1 \in A
  <2>1. n - 1 \in Nat
    BY <1>1
  <2> HIDE DEF A
  <2> QED
    BY <1>4, <2>1
<1>6. score < FuzzyBounds[n]
  <2>1. n - 1 + 1 = n
    BY <1>1
  <2> QED
    BY <1>1, <1>5, <2>1
<1> QED
  BY <1>1, <1>6

LEMMA FuzzyFalls ==
    ASSUME fuzzy \in [Ranges -> Nat], Ranges # {}, NEW s \in Int, NEW t \in Int, s < t,
           FuzzyBounds[Len(FuzzyBounds)] <= t, t < FuzzyBounds[1],
           \A k \in OwnRange(t) : fuzzy[k] > 0
    PROVE  FuzzyAbove(t) <= FuzzyAbove(s)
<1>1. PICK o \in OwnRange(t) : TRUE
  BY OwnRangeExists
<1>2. /\ o \in Ranges /\ o \in Int /\ RangeStart(o) \in Int /\ RangeEnd(o) \in Int
      /\ RangeStart(o) <= t /\ t < RangeEnd(o) /\ OwnRange(t) = {o}
  BY <1>1, RangesTyped, SharesAre DEF OwnRange
<1> DEFINE ahead == AheadOf(t)
<1>3. ahead = {k \in Ranges : k < o}
  BY <1>2 DEF AheadOf
<1>4. /\ IsFiniteSet(Ranges) /\ IsFiniteSet(ahead) /\ o \notin ahead
      /\ \A k \in ahead \cup {o} : fuzzy[k] \in Int
  <2>1. ahead \in SUBSET Ranges
    BY <1>3
  <2>2. IsFiniteSet(ahead)
    BY <2>1, RangesTyped, FS_Subset
  <2>3. \A k \in Ranges : fuzzy[k] \in Nat
    OBVIOUS
  <2>4. o \notin ahead
    BY <1>2, <1>3
  <2>5. \A k \in ahead \cup {o} : k \in Ranges
    BY <1>2, <2>1
  <2>6. IsFiniteSet(Ranges)
    BY RangesTyped
  <2> HIDE DEF ahead
  <2>7. \A k \in ahead \cup {o} : fuzzy[k] \in Int
    BY <2>3, <2>5
  <2> QED
    BY <2>2, <2>4, <2>6, <2>7
<1>5. /\ SumOver(fuzzy, ahead) \in Int
      /\ SumOver(fuzzy, ahead \cup {o}) = SumOver(fuzzy, ahead) + fuzzy[o]
  BY <1>4, SumOfOneMore
<1>6. FuzzyAbove(t) = SumOver(fuzzy, ahead) + (IF t = RangeStart(o) THEN 1 ELSE 0)
  BY <1>1, SharesAre, FuzzyAboveIs
<1>7. fuzzy[o] \in Int /\ 1 <= fuzzy[o]
  BY <1>1, <1>2
<1> HIDE DEF ahead
<1>8. \A S \in SUBSET Ranges : ahead \cup {o} \subseteq S => FuzzyAbove(t) <= SumOver(fuzzy, S)
                                                   /\ SumOver(fuzzy, S) \in Int
  <2> SUFFICES ASSUME NEW S \in SUBSET Ranges, ahead \cup {o} \subseteq S
               PROVE  FuzzyAbove(t) <= SumOver(fuzzy, S) /\ SumOver(fuzzy, S) \in Int
    OBVIOUS
  <2>1. IsFiniteSet(S) /\ \A k \in S : fuzzy[k] \in Nat
    BY <1>4, FS_Subset
  <2>2. ahead \cup {o} \in SUBSET S /\ S \in SUBSET S
    OBVIOUS
  <2>3. SumOver(fuzzy, ahead \cup {o}) <= SumOver(fuzzy, S) /\ SumOver(fuzzy, S) \in Int
    BY <2>1, <2>2, SumGrows
  <2> QED
    BY <1>5, <1>6, <1>7, <2>3
<1>9. CASE OwnRange(s) = {}
  <2>1. AheadOf(s) = Ranges /\ SumOfShares(s, OwnRange(s)) = 0
    BY <1>9, SharesAre DEF AheadOf
  <2>2. FuzzyAbove(t) <= SumOver(fuzzy, Ranges) /\ SumOver(fuzzy, Ranges) \in Int
    BY <1>2, <1>3, <1>8
  <2> QED
    BY <2>1, <2>2, FuzzyAboveIs
<1>10. ASSUME NEW p \in OwnRange(s) PROVE FuzzyAbove(t) <= FuzzyAbove(s)
  <2>1. /\ p \in Ranges /\ p \in Int /\ RangeStart(p) \in Int /\ RangeEnd(p) \in Int
        /\ RangeStart(p) <= s /\ s < RangeEnd(p) /\ OwnRange(s) = {p}
    BY <1>10, RangesTyped, SharesAre DEF OwnRange
  <2>2. AheadOf(s) = {k \in Ranges : k < p}
    BY <2>1 DEF AheadOf
  <2>3. FuzzyAbove(s) = SumOver(fuzzy, AheadOf(s)) + (IF s = RangeStart(p) THEN 1 ELSE 0)
    BY <1>10, SharesAre, FuzzyAboveIs
  <2>4. CASE p = o
    <3>1. AheadOf(s) = ahead /\ t # RangeStart(o)
      BY <1>2, <1>3, <2>1, <2>2, <2>4
    <3> QED
      BY <1>5, <1>6, <2>3, <3>1
  <2>5. CASE p # o
    <3>1. o < p
      <4> SUFFICES ASSUME p < o PROVE FALSE
        BY <1>2, <2>1, <2>5
      <4>1. RangeEnd(o) <= RangeStart(p)
        BY <1>2, <2>1, RangesTyped
      <4> QED
        BY <1>2, <2>1, <4>1
    <3>2. AheadOf(s) \in SUBSET Ranges /\ ahead \cup {o} \subseteq AheadOf(s)
      <4>1. \A k \in ahead : k \in Ranges /\ k \in Int /\ k < o
        BY <1>3, RangesTyped
      <4>2. \A k \in ahead : k < p
        BY <1>2, <2>1, <3>1, <4>1
      <4> QED
        BY <1>2, <2>2, <3>1, <4>1, <4>2
    <3>3. FuzzyAbove(t) <= SumOver(fuzzy, AheadOf(s)) /\ SumOver(fuzzy, AheadOf(s)) \in Int
      BY <1>8, <3>2
    <3>4. FuzzyAbove(t) \in Int
      BY <1>5, <1>6
    <3> QED
      BY <2>3, <3>3, <3>4
  <2> QED
    BY <2>4, <2>5
<1> QED
  BY <1>9, <1>10

FuzzyTyped == fuzzy = <<>> \/ fuzzy \in [Ranges -> FuzzyCounts]

LEMMA FuzzyMonotonic == FuzzyTyped => FuzzyMonotone
<1> SUFFICES ASSUME FuzzyTyped, fuzzy # <<>>,
                    NEW s \in FuzzyBounds[Len(FuzzyBounds)] - 1 .. FuzzyBounds[1] - 1,
                    NEW t \in FuzzyBounds[Len(FuzzyBounds)] - 1 .. FuzzyBounds[1] - 1, s < t,
                    \A k \in OwnRange(t) : fuzzy[k] > 0
             PROVE  FuzzyRank(0, t, 0) <= FuzzyRank(0, s, 0)
  BY DEF FuzzyMonotone
<1>1. fuzzy \in [Ranges -> Nat] /\ Ranges # {}
  <2>1. fuzzy \in [Ranges -> FuzzyCounts]
    BY DEF FuzzyTyped
  <2>2. ASSUME Ranges = {} PROVE FALSE
    <3>1. fuzzy = <<>>
      BY <2>1, <2>2
    <3> QED
      BY <3>1
  <2> QED
    BY <2>1, <2>2, RankingAssumption
<1>2. Len(FuzzyBounds) \in 1 .. Len(FuzzyBounds) /\ 1 \in 1 .. Len(FuzzyBounds)
  BY <1>1, RangesTyped DEF Ranges
<1>3. FuzzyBounds[Len(FuzzyBounds)] \in Int /\ FuzzyBounds[1] \in Int
  BY <1>2, RankingAssumption
<1>4. /\ s \in Int /\ t \in Int
      /\ FuzzyBounds[Len(FuzzyBounds)] <= t /\ t < FuzzyBounds[1]
  BY <1>3
<1>5. FuzzyAbove(t) <= FuzzyAbove(s)
  BY <1>1, <1>4, FuzzyFalls
<1>6. \A score : FuzzyRank(0, score, 0) = FuzzyAbove(score)
  <2>1. Rank(0) \notin 0 .. 0 - 1
    BY SMT
  <2> QED
    BY <2>1 DEF FuzzyRank
<1> QED
  BY <1>5, <1>6

LEMMA FuzzyStep == FuzzyTyped /\ [RankNext]_rankVars => FuzzyTyped'
<1> SUFFICES ASSUME FuzzyTyped, [RankNext]_rankVars PROVE FuzzyTyped'
  OBVIOUS
<1>1. CASE FuzzySet
  BY <1>1 DEF FuzzySet, FuzzyTyped, Ranges
<1>2. CASE UNCHANGED fuzzy
  BY <1>2 DEF FuzzyTyped, Ranges
<1> QED
  BY <1>1, <1>2 DEF RankNext, RankChange, rankVars, RankTick, Truncate, TruncateBatch, Call, Eval

(* Rank, the pages and the estimate from ranges agree with the points, and  *)
(* among equals with who had them first.                                    *)
THEOREM RanksAgreeThroughout == PartsSpec => []RanksAgree
<1>1. PartsInit => RankInv /\ Dated /\ FuzzyTyped
  BY RankInitInv, DatedInit DEF PartsInit, RankInit, FuzzyTyped
<1>2. RankInv /\ Dated /\ FuzzyTyped /\ [PartsNext]_all => RankInv' /\ Dated' /\ FuzzyTyped'
  BY RankSteps, BoardSteps, DatedStep, FuzzyStep
<1>3. RankInv /\ Dated /\ FuzzyTyped => RanksAgree
  BY DatedEarlier, PagesRanked, FuzzyMonotonic DEF RanksAgree
<1> QED
  BY <1>1, <1>2, <1>3, PTL DEF PartsSpec

-----------------------------------------------------------------------------
(* Codecs: quotients and remainders.                                        *)

LEMMA Division ==
    ASSUME NEW n \in Int, NEW k \in Nat \ {0}
    PROVE  n \div k \in Int /\ n % k \in 0 .. k - 1 /\ n = (n \div k) * k + (n % k)
<1> DEFINE d == n \div k
           m == n % k
<1>1. d \in Int /\ m \in 0 .. k - 1 /\ n = d * k + m
  BY SMT
<1> QED
  BY <1>1

LEMMA IntGap ==
    ASSUME NEW a \in Int, NEW b \in Int, NEW k \in Nat \ {0}, a < b
    PROVE  a * k \in Int /\ b * k \in Int /\ a * k + k <= b * k
<1>1. a * k \in Int /\ b * k \in Int
  BY SMT
<1>2. PICK d \in Nat : b = a + 1 + d
  BY b - a - 1 \in Nat, b = a + 1 + (b - a - 1), SMT
<1>3. d * k \in Nat
  BY SMT
<1>4. b * k = a * k + k + d * k
  BY <1>2, SMT
<1> QED
  BY <1>1, <1>3, <1>4, SMT

LEMMA QuotientIs ==
    ASSUME NEW n \in Int, NEW q \in Int, NEW k \in Nat \ {0}, NEW r \in 0 .. k - 1,
           n = q * k + r
    PROVE  n \div k = q /\ n % k = r
<1> DEFINE p == n \div k
           s == n % k
<1>1. p \in Int /\ s \in 0 .. k - 1 /\ n = p * k + s
  BY Division
<1> HIDE DEF p, s
<1>2. ~(p < q)
  <2> SUFFICES ASSUME p < q PROVE FALSE
    OBVIOUS
  <2>1. p * k \in Int /\ q * k \in Int /\ p * k + k <= q * k
    BY <1>1, IntGap
  <2> QED
    BY <1>1, <2>1
<1>3. ~(q < p)
  <2> SUFFICES ASSUME q < p PROVE FALSE
    OBVIOUS
  <2>1. p * k \in Int /\ q * k \in Int /\ q * k + k <= p * k
    BY <1>1, IntGap
  <2> QED
    BY <1>1, <2>1
<1>4. p = q
  BY <1>1, <1>2, <1>3
<1>5. q * k \in Int
  BY SMT
<1>6. s = r
  BY <1>1, <1>4, <1>5
<1> QED
  BY <1>4, <1>6 DEF p, s

LEMMA WordTyped ==
    /\ WordCount \in Nat \ {0} /\ Least \in Int /\ Least <= 0
    /\ -Least - Least <= WordCount
<1>1. ByteCount * ByteCount \in Nat \ {0}
  BY CodecsAssumption, SMT
<1>2. ByteCount * ByteCount * ByteCount \in Nat \ {0}
  BY <1>1, CodecsAssumption, SMT
<1>3. WordCount \in Nat \ {0}
  BY <1>2, CodecsAssumption, SMT DEF WordCount
<1> QED
  BY <1>3 DEF Least

(* A number in the range of a word stays the same.                          *)
LEMMA Int32Keeps ==
    ASSUME NEW n \in Int, Least <= n, n < -Least
    PROVE  Int32(n) = n
<1>1. n - Least \in 0 .. WordCount - 1 /\ n - Least = 0 * WordCount + (n - Least)
  BY WordTyped
<1>2. n - Least \in Int /\ 0 \in Int
  BY WordTyped
<1>3. (n - Least) % WordCount = n - Least
  BY <1>1, <1>2, WordTyped, QuotientIs
<1> QED
  BY <1>3, WordTyped DEF Int32

LEMMA Int32Typed == ASSUME NEW n \in Int PROVE Int32(n) \in Int
<1>1. n - Least \in Int
  BY WordTyped
<1>2. (n - Least) % WordCount \in 0 .. WordCount - 1
  BY <1>1, WordTyped, Division
<1> QED
  BY <1>2, WordTyped DEF Int32

-----------------------------------------------------------------------------
(* The digits of a number, and the number of digits.                        *)

Digit == 0 .. Base - 1

DigitsEq(g, n) ==
    \A m \in 0 .. n :
        g[m] = IF m < Base THEN IF m = 0 THEN <<>> ELSE <<m>>
               ELSE Append(g[m \div Base], m % Base)

LEMMA Halved ==
    ASSUME NEW m \in Nat, ~(m < Base)
    PROVE  m \div Base \in Nat /\ 1 <= m \div Base /\ m \div Base < m /\ m % Base \in Digit
<1> DEFINE q == m \div Base
           r == m % Base
<1>1. Base \in Nat \ {0} /\ 2 <= Base
  BY CodecsAssumption
<1>2. q \in Int /\ r \in 0 .. Base - 1 /\ m = q * Base + r
  BY <1>1, Division
<1> HIDE DEF q, r
<1>3. 1 <= q
  <2> SUFFICES ASSUME q < 1 PROVE FALSE
    BY <1>2
  <2>1. q * Base + Base <= 1 * Base /\ q * Base \in Int
    BY <1>1, <1>2, IntGap
  <2> QED
    BY <1>1, <1>2, <2>1
<1>4. q < m
  <2>1. q * Base >= q * 2
    BY <1>1, <1>2, <1>3, SMT
  <2>2. q * Base \in Int
    BY <1>1, <1>2
  <2> QED
    BY <1>2, <1>3, <2>1, <2>2
<1> QED
  BY <1>2, <1>3, <1>4 DEF q, r, Digit

LEMMA DigitsExist ==
    ASSUME NEW bound \in Nat
    PROVE  \E g \in [0 .. bound -> Seq(Digit)] : DigitsEq(g, bound)
<1> DEFINE A == {n \in Nat : \E g \in [0 .. n -> Seq(Digit)] : DigitsEq(g, n)}
<1>0. Base \in Nat /\ 2 <= Base
  BY CodecsAssumption
<1>1. 0 \in A
  <2> DEFINE g == [m \in 0 .. 0 |-> <<>>]
  <2>1. g \in [0 .. 0 -> Seq(Digit)]
    OBVIOUS
  <2>2. DigitsEq(g, 0)
    BY <1>0 DEF DigitsEq
  <2> QED
    BY <2>1, <2>2
<1>2. ASSUME NEW n \in Nat, n \in A PROVE n + 1 \in A
  <2>1. PICK g \in [0 .. n -> Seq(Digit)] : DigitsEq(g, n)
    BY <1>2
  <2> DEFINE m == n + 1
             new == IF m < Base THEN <<m>> ELSE Append(g[m \div Base], m % Base)
             h == [k \in 0 .. m |-> IF k \in 0 .. n THEN g[k] ELSE new]
  <2>2. new \in Seq(Digit)
    <3>1. CASE m < Base
      <4>1. m \in Digit
        BY <1>0, <3>1 DEF Digit
      <4> QED
        BY <3>1, <4>1
    <3>2. CASE ~(m < Base)
      <4>1. m \div Base \in 0 .. n /\ m % Base \in Digit
        BY <3>2, Halved
      <4>2. g[m \div Base] \in Seq(Digit)
        BY <4>1
      <4> QED
        BY <3>2, <4>1, <4>2
    <3> QED
      BY <3>1, <3>2
  <2> HIDE DEF new
  <2>3. h \in [0 .. m -> Seq(Digit)] /\ h[m] = new /\ \A k \in 0 .. n : h[k] = g[k]
    BY <2>2
  <2> HIDE DEF h
  <2>4. DigitsEq(h, m)
    <3> SUFFICES ASSUME NEW k \in 0 .. m
                 PROVE  h[k] = IF k < Base THEN IF k = 0 THEN <<>> ELSE <<k>>
                               ELSE Append(h[k \div Base], k % Base)
      BY DEF DigitsEq
    <3>1. ~(k < Base) => k \div Base \in 0 .. n
      BY Halved
    <3>2. CASE k = m
      <4>1. m # 0
        OBVIOUS
      <4> QED
        BY <2>3, <3>1, <3>2, <4>1 DEF new
    <3>3. CASE k \in 0 .. n
      <4>1. g[k] = IF k < Base THEN IF k = 0 THEN <<>> ELSE <<k>>
                   ELSE Append(g[k \div Base], k % Base)
        BY <2>1, <3>3 DEF DigitsEq
      <4> QED
        BY <2>3, <3>1, <3>3, <4>1
    <3> QED
      BY <3>2, <3>3
  <2>5. \E e \in [0 .. n + 1 -> Seq(Digit)] : DigitsEq(e, n + 1)
    BY <2>3, <2>4
  <2> QED
    BY <2>5
<1> HIDE DEF A
<1>3. Nat \subseteq A
  BY <1>1, <1>2, AllNumbers
<1> QED
  BY <1>3 DEF A

LEMMA DigitsAre ==
    /\ Digits \in [0 .. -Least -> Seq(Digit)]
    /\ DigitsEq(Digits, -Least)
<1> DEFINE D == 0 .. -Least
           Eq(g) == g = [n \in D |-> IF n < Base THEN IF n = 0 THEN <<>> ELSE <<n>>
                                     ELSE Append(g[n \div Base], n % Base)]
<1>1. -Least \in Nat
  BY WordTyped
<1>2. PICK g \in [D -> Seq(Digit)] : DigitsEq(g, -Least)
  BY <1>1, DigitsExist
<1>3. Eq(g)
  BY <1>2 DEF DigitsEq
<1>4. Digits = CHOOSE e : Eq(e)
  BY DEF Digits
<1>5. Eq(Digits)
  <2> HIDE DEF Eq
  <2> QED
    BY <1>3, <1>4
<1>6. DigitsEq(Digits, -Least)
  BY <1>5, Zenon DEF DigitsEq
<1> DEFINE A == {n \in Nat : \A m \in 0 .. n : m \in D => Digits[m] \in Seq(Digit)}
<1>7. 0 \in A
  <2>1. 0 \in 0 .. -Least /\ 0 < Base
    BY <1>1, CodecsAssumption
  <2>2. Digits[0] = <<>>
    BY <1>6, <2>1 DEF DigitsEq
  <2> SUFFICES ASSUME NEW m \in 0 .. 0 PROVE Digits[m] \in Seq(Digit)
    OBVIOUS
  <2>3. m = 0
    OBVIOUS
  <2>4. <<>> \in Seq(Digit)
    OBVIOUS
  <2> QED
    BY <2>2, <2>3, <2>4, Zenon
<1>8. ASSUME NEW n \in Nat, n \in A PROVE n + 1 \in A
  <2> SUFFICES ASSUME n + 1 \in D PROVE Digits[n + 1] \in Seq(Digit)
    BY <1>8
  <2>1. Digits[n + 1] = IF n + 1 < Base THEN <<n + 1>>
                        ELSE Append(Digits[(n + 1) \div Base], (n + 1) % Base)
    BY <1>6 DEF DigitsEq
  <2>2. CASE n + 1 < Base
    BY <2>1, <2>2, CodecsAssumption DEF Digit
  <2>3. CASE ~(n + 1 < Base)
    <3>1. (n + 1) \div Base \in 0 .. n /\ (n + 1) \div Base \in D /\ (n + 1) % Base \in Digit
      <4>1. n + 1 \in Nat
        OBVIOUS
      <4>2. (n + 1) \div Base \in Nat /\ (n + 1) \div Base < n + 1 /\ (n + 1) % Base \in Digit
        BY <2>3, <4>1, Halved
      <4> QED
        BY <1>1, <4>2
    <3> HIDE DEF D
    <3>2. Digits[(n + 1) \div Base] \in Seq(Digit)
      BY <1>8, <3>1
    <3> QED
      BY <2>1, <2>3, <3>1, <3>2
  <2> QED
    BY <2>2, <2>3
<1>9. Nat \subseteq A
  <2> HIDE DEF A
  <2> QED
    BY <1>7, <1>8, AllNumbers
<1>10. \A n \in D : Digits[n] \in Seq(Digit)
  <2> SUFFICES ASSUME NEW n \in D PROVE Digits[n] \in Seq(Digit)
    OBVIOUS
  <2>1. n \in Nat
    BY <1>1
  <2>2. n \in A
    BY <1>9, <2>1
  <2> QED
    BY <2>1, <2>2
<1> QED
  BY <1>5, <1>6, <1>10

-----------------------------------------------------------------------------
(* A value computed along a sequence, from its first element to its last.   *)

Along(r, n, a, F, d) ==
    \A k \in 0 .. n : r[k] = IF k = 0 THEN a ELSE F[<<r[k - 1], d[k]>>]

LEMMA AlongExists ==
    ASSUME NEW d \in Seq(Int), NEW a \in Int, NEW F \in [Int \X Int -> Int],
           NEW bound \in 0 .. Len(d)
    PROVE  \E r \in [0 .. bound -> Int] : Along(r, bound, a, F, d)
<1> DEFINE A == {n \in Nat : n <= Len(d) => \E r \in [0 .. n -> Int] : Along(r, n, a, F, d)}
<1>1. 0 \in A
  <2> DEFINE r == [k \in 0 .. 0 |-> a]
  <2>1. r \in [0 .. 0 -> Int] /\ Along(r, 0, a, F, d)
    BY DEF Along
  <2> QED
    BY <2>1
<1>2. ASSUME NEW n \in Nat, n \in A PROVE n + 1 \in A
  <2> SUFFICES ASSUME n + 1 <= Len(d)
               PROVE  \E r \in [0 .. n + 1 -> Int] : Along(r, n + 1, a, F, d)
    OBVIOUS
  <2>1. PICK r \in [0 .. n -> Int] : Along(r, n, a, F, d)
    BY <1>2
  <2> DEFINE new == F[<<r[n], d[n + 1]>>]
             s == [k \in 0 .. n + 1 |-> IF k \in 0 .. n THEN r[k] ELSE new]
  <2>2. new \in Int
    <3>1. r[n] \in Int /\ d[n + 1] \in Int
      OBVIOUS
    <3>2. <<r[n], d[n + 1]>> \in Int \X Int
      BY <3>1
    <3> QED
      BY <3>2
  <2> HIDE DEF new
  <2>3. s \in [0 .. n + 1 -> Int] /\ s[n + 1] = new /\ \A k \in 0 .. n : s[k] = r[k]
    BY <2>2
  <2> HIDE DEF s
  <2>4. ASSUME NEW k \in 0 .. n + 1
        PROVE  s[k] = IF k = 0 THEN a ELSE F[<<s[k - 1], d[k]>>]
    <3>1. CASE k = n + 1
      <4>1. k # 0 /\ k - 1 = n /\ n \in 0 .. n
        BY <3>1
      <4>2. s[k - 1] = r[n]
        BY <2>3, <4>1
      <4> QED
        BY <2>3, <3>1, <4>1, <4>2 DEF new
    <3>2. CASE k \in 0 .. n
      <4>1. r[k] = IF k = 0 THEN a ELSE F[<<r[k - 1], d[k]>>]
        BY <2>1, <3>2 DEF Along
      <4>2. k # 0 => s[k - 1] = r[k - 1]
        BY <2>3, <3>2
      <4> QED
        BY <2>3, <3>2, <4>1, <4>2
    <3> QED
      BY <3>1, <3>2
  <2>5. Along(s, n + 1, a, F, d)
    BY <2>4 DEF Along
  <2> QED
    BY <2>3, <2>5
<1> HIDE DEF A
<1>3. Nat \subseteq A
  BY <1>1, <1>2, AllNumbers
<1>4. bound \in A
  BY <1>3
<1> QED
  BY <1>4 DEF A

SameFrom(from, to, r, s) == \A k \in from .. to : r[k] = s[k]

LEMMA AlongAgrees ==
    ASSUME NEW d, NEW a, NEW F, NEW bound \in Nat, NEW r, NEW s, NEW e,
           Along(r, bound, a, F, d), Along(s, bound, a, F, e),
           SameFrom(1, bound, d, e)
    PROVE  SameFrom(0, bound, r, s)
<1> DEFINE A == {n \in Nat : n <= bound => r[n] = s[n]}
<1>1. 0 \in A
  <2>1. 0 \in 0 .. bound
    OBVIOUS
  <2>2. r[0] = a /\ s[0] = a
    BY <2>1, Zenon DEF Along
  <2> QED
    BY <2>2
<1>2. ASSUME NEW n \in Nat, n \in A PROVE n + 1 \in A
  <2> SUFFICES ASSUME n + 1 <= bound PROVE r[n + 1] = s[n + 1]
    OBVIOUS
  <2>0. PICK k \in 1 .. bound : k = n + 1
    OBVIOUS
  <2>1. k \in 0 .. bound /\ k # 0 /\ k - 1 = n
    BY <2>0
  <2>2. r[k] = F[<<r[k - 1], d[k]>>]
    BY <2>1 DEF Along
  <2>3. s[k] = F[<<s[k - 1], e[k]>>]
    BY <2>1 DEF Along
  <2>4. r[n] = s[n]
    BY <1>2
  <2>5. d[k] = e[k]
    BY DEF SameFrom
  <2>6. r[k] = s[k]
    BY <2>1, <2>2, <2>3, <2>4, <2>5
  <2> QED
    BY <2>0, <2>6
<1> HIDE DEF A
<1>3. Nat \subseteq A
  BY <1>1, <1>2, AllNumbers
<1>4. \A k \in 0 .. bound : r[k] = s[k]
  BY <1>3 DEF A
<1> QED
  BY <1>4 DEF SameFrom

(* The recursive function of a fold is the one that exists.                 *)
LEMMA AlongChosen ==
    ASSUME NEW d \in Seq(Int), NEW a \in Int, NEW F \in [Int \X Int -> Int], NEW r,
           r = CHOOSE e : e = [k \in 0 .. Len(d) |->
                               IF k = 0 THEN a ELSE F[<<e[k - 1], d[k]>>]]
    PROVE  r \in [0 .. Len(d) -> Int] /\ Along(r, Len(d), a, F, d)
<1> DEFINE Eq(e) == e = [k \in 0 .. Len(d) |-> IF k = 0 THEN a ELSE F[<<e[k - 1], d[k]>>]]
<1>1. Len(d) \in Nat /\ Len(d) \in 0 .. Len(d)
  OBVIOUS
<1>2. PICK s \in [0 .. Len(d) -> Int] : Along(s, Len(d), a, F, d)
  BY <1>1, AlongExists
<1>3. Eq(s)
  BY <1>2 DEF Along
<1>4. Eq(r)
  <2>1. r = CHOOSE e : Eq(e)
    OBVIOUS
  <2> HIDE DEF Eq
  <2> QED
    BY <1>3, <2>1
<1>5. Along(r, Len(d), a, F, d)
  BY <1>4, Zenon DEF Along
<1>6. \A k \in 0 .. Len(d) : r[k] = s[k]
  <2>1. SameFrom(1, Len(d), d, d)
    BY DEF SameFrom
  <2>2. SameFrom(0, Len(d), r, s)
    BY <1>1, <1>2, <1>5, <2>1, AlongAgrees
  <2> QED
    BY <2>2 DEF SameFrom
<1>7. r = [k \in 0 .. Len(d) |-> s[k]]
  BY <1>4, <1>6
<1> QED
  BY <1>5, <1>7

-----------------------------------------------------------------------------
(* The value of a sequence of digits.                                       *)

OneMore == [q \in Int \X Int |-> Int32(q[1] * Base + q[2])]

LEMMA OneMoreTyped ==
    /\ OneMore \in [Int \X Int -> Int]
    /\ \A a, b \in Int : OneMore[<<a, b>>] = Int32(a * Base + b)
<1>1. ASSUME NEW a \in Int, NEW b \in Int PROVE Int32(a * Base + b) \in Int
  <2>1. a * Base + b \in Int
    BY CodecsAssumption
  <2> QED
    BY <2>1, Int32Typed
<1>2. ASSUME NEW q \in Int \X Int PROVE Int32(q[1] * Base + q[2]) \in Int
  BY <1>1
<1>3. ASSUME NEW a \in Int, NEW b \in Int PROVE OneMore[<<a, b>>] = Int32(a * Base + b)
  <2> DEFINE q == <<a, b>>
  <2>1. q \in Int \X Int /\ q[1] = a /\ q[2] = b
    OBVIOUS
  <2>2. OneMore[q] = Int32(q[1] * Base + q[2])
    BY <2>1, Zenon DEF OneMore
  <2> QED
    BY <2>1, <2>2
<1> QED
  BY <1>2, <1>3 DEF OneMore

LEMMA ValueIs ==
    ASSUME NEW d \in Seq(Int)
    PROVE  \E r \in [0 .. Len(d) -> Int] :
               /\ Along(r, Len(d), 0, OneMore, d)
               /\ Value(d) = r[Len(d)]
<1> DEFINE D == 0 .. Len(d)
           Eq(e) == e = [k \in D |-> IF k = 0 THEN 0 ELSE Int32(e[k - 1] * Base + d[k])]
           v == CHOOSE e : Eq(e)
<1>1. Len(d) \in Nat /\ Len(d) \in D /\ 0 \in Int
  OBVIOUS
<1>2. PICK s \in [D -> Int] : Along(s, Len(d), 0, OneMore, d)
  BY <1>1, OneMoreTyped, AlongExists
<1>3. ASSUME NEW k \in D
      PROVE  s[k] = IF k = 0 THEN 0 ELSE Int32(s[k - 1] * Base + d[k])
  <2>1. s[k] = IF k = 0 THEN 0 ELSE OneMore[<<s[k - 1], d[k]>>]
    BY <1>2 DEF Along
  <2>2. k # 0 => k \in 1 .. Len(d) /\ k - 1 \in D
    BY <1>1
  <2>3. k # 0 => s[k - 1] \in Int /\ d[k] \in Int
    BY <1>1, <2>2
  <2> QED
    BY <2>1, <2>3, OneMoreTyped
<1>4. Eq(s)
  BY <1>3
<1>5. Eq(v)
  <2> HIDE DEF Eq
  <2> QED
    BY <1>4
<1>6. Value(d) = v[Len(d)]
  BY DEF Value
<1> HIDE DEF v
<1> DEFINE A == {n \in Nat : n \in D => v[n] = s[n]}
<1>7. 0 \in A
  <2>1. 0 \in D
    BY <1>1
  <2>2. v[0] = 0 /\ s[0] = 0
    BY <1>3, <1>5, <2>1, Zenon
  <2> QED
    BY <2>2
<1>8. ASSUME NEW n \in Nat, n \in A PROVE n + 1 \in A
  <2> SUFFICES ASSUME n + 1 \in D PROVE v[n + 1] = s[n + 1]
    OBVIOUS
  <2>1. PICK k \in D : k = n + 1
    OBVIOUS
  <2>2. k # 0 /\ k - 1 = n /\ n \in D
    BY <1>1, <2>1
  <2>3. v[k] = Int32(v[k - 1] * Base + d[k])
    BY <1>5, <2>2, Zenon
  <2>4. s[k] = Int32(s[k - 1] * Base + d[k])
    BY <1>3, <2>2
  <2>5. v[k] = s[k]
    BY <1>8, <2>2, <2>3, <2>4
  <2> QED
    BY <2>1, <2>5
<1> HIDE DEF A
<1>9. Nat \subseteq A
  BY <1>7, <1>8, AllNumbers
<1>10. v[Len(d)] = s[Len(d)]
  <2>1. Len(d) \in A
    BY <1>1, <1>9
  <2> QED
    BY <1>1, <2>1 DEF A
<1> QED
  BY <1>2, <1>6, <1>10

LEMMA ValueTyped == ASSUME NEW d \in Seq(Int) PROVE Value(d) \in Int
<1>1. PICK r \in [0 .. Len(d) -> Int] : Value(d) = r[Len(d)]
  BY ValueIs
<1> QED
  BY <1>1

LEMMA ValueOfNone == Value(<<>>) = 0
<1>1. <<>> \in Seq(Int) /\ Len(<<>>) = 0 /\ 0 \in 0 .. 0
  OBVIOUS
<1>2. PICK r \in [0 .. 0 -> Int] : Along(r, 0, 0, OneMore, <<>>) /\ Value(<<>>) = r[0]
  BY <1>1, ValueIs
<1> QED
  BY <1>1, <1>2 DEF Along

LEMMA ValueOfOneMore ==
    ASSUME NEW d \in Seq(Int), NEW x \in Int
    PROVE  Value(Append(d, x)) = Int32(Value(d) * Base + x)
<1> DEFINE e == Append(d, x)
           n == Len(d)
<1>1. e \in Seq(Int) /\ n \in Nat /\ Len(e) = n + 1 /\ e[n + 1] = x
      /\ \A k \in 1 .. n : d[k] = e[k]
  OBVIOUS
<1> HIDE DEF e, n
<1>2. PICK r \in [0 .. n -> Int] : Along(r, n, 0, OneMore, d) /\ Value(d) = r[n]
  BY ValueIs DEF n
<1>3. PICK s \in [0 .. n + 1 -> Int] : Along(s, n + 1, 0, OneMore, e) /\ Value(e) = s[n + 1]
  BY <1>1, ValueIs
<1>4. Along(s, n, 0, OneMore, e)
  BY <1>1, <1>3 DEF Along
<1>5. \A k \in 0 .. n : r[k] = s[k]
  <2>1. n \in Nat /\ SameFrom(1, n, d, e)
    BY <1>1 DEF SameFrom
  <2>2. SameFrom(0, n, r, s)
    BY <1>2, <1>4, <2>1, AlongAgrees
  <2> QED
    BY <2>2 DEF SameFrom
<1>6. n + 1 \in 0 .. n + 1 /\ n + 1 # 0 /\ (n + 1) - 1 = n /\ n \in 0 .. n
  BY <1>1
<1>7. s[n + 1] = OneMore[<<s[(n + 1) - 1], e[n + 1]>>]
  BY <1>3, <1>6 DEF Along
<1>8. s[n + 1] = OneMore[<<r[n], x>>]
  BY <1>1, <1>5, <1>6, <1>7
<1>9. r[n] \in Int
  BY <1>2, <1>6
<1>10. OneMore[<<r[n], x>>] = Int32(r[n] * Base + x)
  BY <1>9, OneMoreTyped
<1> QED
  BY <1>2, <1>3, <1>8, <1>10 DEF e

LEMMA SeqWider ==
    ASSUME NEW S, NEW T, S \subseteq T, NEW s \in Seq(S)
    PROVE  s \in Seq(T)
OBVIOUS

(* Every number comes back from its digits, and its first one is not zero.  *)
Comes(n) ==
    /\ Digits[n] \in Seq(Digit)
    /\ Value(Digits[n]) = n
    /\ n # 0 => Digits[n] # <<>> /\ Digits[n][1] # 0

LEMMA DigitsComeBack == ASSUME NEW n \in 0 .. -Least - 1 PROVE Comes(n)
<1> DEFINE A == {k \in Nat : \A m \in 0 .. k : m < -Least => Comes(m)}
<1>0. Base \in Nat \ {0} /\ 2 <= Base /\ Least \in Int /\ Least <= 0 /\ Digit \subseteq Int
  BY CodecsAssumption, WordTyped DEF Digit
<1>1. ASSUME NEW m \in Nat, m < -Least
      PROVE  /\ Digits[m] \in Seq(Digit) /\ Digits[m] \in Seq(Int)
             /\ Digits[m] = IF m < Base THEN IF m = 0 THEN <<>> ELSE <<m>>
                            ELSE Append(Digits[m \div Base], m % Base)
  <2>1. m \in 0 .. -Least
    BY <1>0, <1>1
  <2>2. Digits[m] \in Seq(Digit)
    BY <2>1, DigitsAre
  <2>3. Digits[m] \in Seq(Int)
    BY <1>0, <2>2, SeqWider
  <2> QED
    BY <2>1, <2>2, <2>3, DigitsAre DEF DigitsEq
<1>2. 0 \in A
  <2> SUFFICES ASSUME 0 < -Least PROVE Comes(0)
    OBVIOUS
  <2>1. 0 \in Nat /\ 0 < Base
    BY <1>0
  <2>2. Digits[0] = <<>>
    BY <1>1, <2>1, Zenon
  <2>3. Digits[0] \in Seq(Digit)
    BY <1>1, <2>1
  <2> QED
    BY <2>2, <2>3, ValueOfNone DEF Comes
<1>3. ASSUME NEW k \in Nat, k \in A PROVE k + 1 \in A
  <2>1. PICK m \in Nat : m = k + 1
    OBVIOUS
  <2> SUFFICES ASSUME m < -Least PROVE Comes(m)
    <3>1. ASSUME NEW i \in 0 .. k + 1, i < -Least PROVE Comes(i)
      <4>1. i = m \/ i \in 0 .. k
        BY <2>1
      <4> QED
        BY <1>3, <3>1, <4>1
    <3> QED
      BY <3>1
  <2>2. CASE m < Base
    <3>0. m # 0
      BY <2>1
    <3>1. Digits[m] = <<m>> /\ Digits[m] \in Seq(Digit)
      BY <1>1, <2>2, <3>0, Zenon
    <3>2. <<m>> = Append(<<>>, m) /\ <<>> \in Seq(Int) /\ m \in Int
      OBVIOUS
    <3>3. Value(<<m>>) = Int32(0 * Base + m)
      BY <3>2, ValueOfOneMore, ValueOfNone
    <3>4. 0 * Base + m = m
      BY <1>0
    <3>5. Int32(m) = m
      BY <1>0, Int32Keeps
    <3>6. Value(Digits[m]) = m
      BY <3>1, <3>3, <3>4, <3>5
    <3> QED
      BY <2>1, <3>1, <3>6 DEF Comes
  <2>3. CASE ~(m < Base)
    <3>1. PICK q \in Nat, x \in Digit :
              q = m \div Base /\ x = m % Base /\ 1 <= q /\ q < m
      BY <2>3, Halved
    <3>2. Digits[m] = Append(Digits[q], x) /\ Digits[m] \in Seq(Digit)
      BY <1>1, <2>3, <3>1
    <3>3. q \in 0 .. k /\ q < -Least
      BY <1>0, <2>1, <3>1
    <3>4. Comes(q)
      BY <1>3, <3>3
    <3>5. Digits[q] \in Seq(Int) /\ x \in Int
      BY <1>0, <1>1, <3>1, <3>3
    <3>6. Value(Digits[m]) = Int32(q * Base + x)
      BY <3>2, <3>4, <3>5, ValueOfOneMore DEF Comes
    <3>7. m = q * Base + x
      BY <1>0, <3>1, Division
    <3>8. Int32(m) = m
      BY <1>0, Int32Keeps
    <3>9. Digits[m] # <<>> /\ Digits[m][1] # 0
      <4>1. Digits[q] # <<>> /\ Digits[q][1] # 0
        BY <3>1, <3>4 DEF Comes
      <4>2. Append(Digits[q], x)[1] = Digits[q][1] /\ Append(Digits[q], x) # <<>>
        BY <3>5, <4>1
      <4> QED
        BY <3>2, <4>1, <4>2
    <3> QED
      BY <3>2, <3>6, <3>7, <3>8, <3>9 DEF Comes
  <2> QED
    BY <2>2, <2>3
<1> HIDE DEF A
<1>4. Nat \subseteq A
  BY <1>2, <1>3, AllNumbers
<1>5. n \in A /\ n \in 0 .. n /\ n < -Least
  BY <1>0, <1>4
<1> QED
  BY <1>5 DEF A

-----------------------------------------------------------------------------
(* Numbers: what Encode makes of one, Decode reads.                         *)

NoLeadingZero(text) ==
    \A k \in DOMAIN text : text[k] = 0 =>
        Len(text) = 1 \/ \E i \in 1 .. k - 1 : text[i] \notin {0, Minus}

LEMMA DigitsDecode ==
    ASSUME NEW n \in 1 .. -Least - 1
    PROVE  /\ Digits[n] \in Seq(Digit) /\ Digits[n] # <<>>
           /\ Digits[n][1] \notin {0, Minus} /\ Value(Digits[n]) = n
           /\ ~\E k \in DOMAIN Digits[n] : Digits[n][k] \notin 0 .. Base - 1
<1>1. n \in 0 .. -Least - 1 /\ n # 0
  BY WordTyped
<1>2. Comes(n)
  BY <1>1, DigitsComeBack
<1>3. PICK d \in Seq(Digit) : d = Digits[n]
  BY <1>2 DEF Comes
<1>4. d # <<>> /\ d[1] # 0 /\ Value(d) = n
  BY <1>1, <1>2, <1>3 DEF Comes
<1>5. \A k \in DOMAIN d : d[k] \in Digit
  OBVIOUS
<1>6. 1 \in DOMAIN d
  BY <1>4
<1>7. d[1] # Minus
  BY <1>5, <1>6, CodecsAssumption DEF Digit, Minus
<1> QED
  BY <1>3, <1>4, <1>5, <1>7 DEF Digit

LEMMA PositiveDecodes ==
    ASSUME NEW n \in 1 .. -Least - 1
    PROVE  /\ Encode(n) = [ok |-> TRUE, text |-> Digits[n]]
           /\ Decode(Digits[n]) = [ok |-> TRUE, num |-> n]
           /\ NoLeadingZero(Digits[n])
<1>1. Least \in Int /\ Least <= 0 /\ n # Least /\ ~(n < 0) /\ n # 0
  BY WordTyped
<1>2. Encode(n) = [ok |-> TRUE, text |-> Digits[n]]
  BY <1>1 DEF Encode
<1>3. PICK d \in Seq(Digit) :
          /\ d = Digits[n] /\ d # <<>> /\ d[1] \notin {0, Minus} /\ Value(d) = n
          /\ ~\E k \in DOMAIN d : d[k] \notin 0 .. Base - 1
  BY DigitsDecode
<1>4. Head(d) # Minus
  BY <1>3
<1>5. Decode(d) = [ok |-> TRUE, num |-> n]
  BY <1>3, <1>4, Zenon DEF Decode
<1>6. NoLeadingZero(d)
  <2> SUFFICES ASSUME NEW k \in DOMAIN d, d[k] = 0
               PROVE  \E i \in 1 .. k - 1 : d[i] \notin {0, Minus}
    BY DEF NoLeadingZero
  <2>1. k # 1 /\ k \in 1 .. Len(d)
    BY <1>3
  <2>2. 1 \in 1 .. k - 1
    BY <2>1
  <2> QED
    BY <1>3, <2>2
<1> QED
  BY <1>2, <1>3, <1>5, <1>6

LEMMA NegativeDecodes ==
    ASSUME NEW n \in Least + 1 .. -1
    PROVE  /\ Encode(n) = [ok |-> TRUE, text |-> <<Minus>> \o Digits[-n]]
           /\ Decode(<<Minus>> \o Digits[-n]) = [ok |-> TRUE, num |-> n]
           /\ NoLeadingZero(<<Minus>> \o Digits[-n])
<1>1. Least \in Int /\ Least <= 0 /\ n # Least /\ n < 0 /\ n \in Int
  BY WordTyped
<1>2. Encode(n) = [ok |-> TRUE, text |-> <<Minus>> \o Digits[-n]]
  BY <1>1 DEF Encode
<1>3. PICK m \in 1 .. -Least - 1 : m = -n
  BY <1>1
<1>4. PICK d \in Seq(Digit) :
          /\ d = Digits[m] /\ d # <<>> /\ d[1] \notin {0, Minus} /\ Value(d) = m
          /\ ~\E k \in DOMAIN d : d[k] \notin 0 .. Base - 1
  BY DigitsDecode
<1>5. PICK t : t = <<Minus>> \o d
  OBVIOUS
<1>6. <<Minus>> \in Seq(Int) /\ d \in Seq(Int)
  <2>1. Digit \subseteq Int
    BY CodecsAssumption DEF Digit
  <2>2. d \in Seq(Int)
    BY <2>1, SeqWider
  <2>3. Minus \in Int
    BY DEF Minus
  <2> QED
    BY <2>2, <2>3
<1>7. /\ t # <<>> /\ Head(t) = Minus /\ Tail(t) = d
      /\ Len(t) = Len(d) + 1 /\ t[1] = Minus /\ t[2] = d[1] /\ Len(d) >= 1
      /\ DOMAIN t = 1 .. Len(t)
  <2>1. /\ t # <<>> /\ Head(t) = Minus /\ t[1] = Minus
        /\ Len(t) = Len(d) + 1 /\ Len(d) >= 1 /\ DOMAIN t = 1 .. Len(t)
    BY <1>4, <1>5, <1>6
  <2>2. t[2] = d[1]
    BY <1>4, <1>5, <1>6
  <2>3. Tail(t) = d
    BY <1>4, <1>5, <1>6, SMTT(30)
  <2> QED
    BY <2>1, <2>2, <2>3
<1>8. -m = n
  BY <1>1, <1>3
<1>9. Decode(t) = [ok |-> TRUE, num |-> n]
  <2>1. Decode(t) = [ok |-> TRUE, num |-> -Value(d)]
    BY <1>4, <1>7, Zenon DEF Decode
  <2> QED
    BY <1>4, <1>8, <2>1
<1>10. NoLeadingZero(t)
  <2> SUFFICES ASSUME NEW k \in DOMAIN t, t[k] = 0
               PROVE  \E i \in 1 .. k - 1 : t[i] \notin {0, Minus}
    BY DEF NoLeadingZero
  <2>1. k # 1 /\ k # 2 /\ k \in Nat /\ k >= 1
    BY <1>4, <1>7 DEF Minus
  <2>2. 2 \in 1 .. k - 1
    BY <2>1
  <2> QED
    BY <1>4, <1>7, <2>2
<1> QED
  BY <1>2, <1>3, <1>4, <1>5, <1>9, <1>10

LEMMA ZeroDecodes ==
    ASSUME Least < 0
    PROVE  /\ Encode(0) = [ok |-> TRUE, text |-> <<0>>]
           /\ Decode(<<0>>) = [ok |-> TRUE, num |-> 0]
           /\ NoLeadingZero(<<0>>)
<1>1. Encode(0) = [ok |-> TRUE, text |-> <<0>>]
  BY WordTyped DEF Encode
<1>2. Value(<<0>>) = 0
  <2>1. <<0>> = Append(<<>>, 0) /\ <<>> \in Seq(Int) /\ 0 \in Int
    OBVIOUS
  <2>2. Value(<<0>>) = Int32(0 * Base + 0)
    BY <2>1, ValueOfOneMore, ValueOfNone
  <2>3. 0 * Base + 0 = 0
    BY CodecsAssumption
  <2>4. Int32(0) = 0
    BY WordTyped, Int32Keeps
  <2> QED
    BY <2>2, <2>3, <2>4
<1>3. PICK t \in Seq(Int) : t = <<0>>
  <2>1. <<0>> \in Seq(Int)
    OBVIOUS
  <2> QED
    BY <2>1
<1>4. t # <<>> /\ Head(t) # Minus /\ Len(t) = 1 /\ ~\E k \in DOMAIN t : t[k] \notin 0 .. Base - 1
  BY <1>3, CodecsAssumption DEF Minus
<1>5. Decode(t) = [ok |-> TRUE, num |-> Value(t)]
  BY <1>4, Zenon DEF Decode
<1>6. NoLeadingZero(t)
  BY <1>4 DEF NoLeadingZero
<1> QED
  BY <1>1, <1>2, <1>3, <1>5, <1>6

LEMMA NumberInverts == ASSUME Number PROVE CodecsInvert'
<1>1. PICK n \in Least .. -Least - 1 :
         /\ given' = n
         /\ LET e == Encode(n) IN
            IF e.ok THEN job' = "number" /\ made' = e.text /\ got' = Decode(e.text)
            ELSE job' = "refused" /\ UNCHANGED <<made, got>>
  BY DEF Number
<1>2. Least \in Int /\ Least <= 0 /\ n \in Int
  BY WordTyped
<1>3. CASE n = Least
  <2>1. Encode(n) = Failed
    BY <1>3 DEF Encode
  <2>2. job' = "refused"
    BY <1>1, <2>1 DEF Failed
  <2> QED
    BY <2>2 DEF CodecsInvert, NumbersInvert, RequestsInvert, RepliesInvert
<1>4. ASSUME NEW t, Encode(n) = [ok |-> TRUE, text |-> t],
             Decode(t) = [ok |-> TRUE, num |-> n], NoLeadingZero(t)
      PROVE  CodecsInvert'
  <2>1. job' = "number" /\ made' = t /\ got' = Decode(t) /\ given' = n
    BY <1>1, <1>4
  <2>2. NumbersInvert'
    BY <1>4, <2>1, Zenon DEF NumbersInvert, NoLeadingZero
  <2> QED
    BY <2>1, <2>2 DEF CodecsInvert, RequestsInvert, RepliesInvert
<1>5. CASE n \in 1 .. -Least - 1
  BY <1>4, <1>5, PositiveDecodes
<1>6. CASE n \in Least + 1 .. -1
  BY <1>4, <1>6, NegativeDecodes
<1>7. CASE n = 0
  <2>1. Least < 0
    BY <1>2, <1>7
  <2> QED
    BY <1>4, <1>7, <2>1, ZeroDecodes
<1>8. n = Least \/ n \in Least + 1 .. -1 \/ n = 0 \/ n \in 1 .. -Least - 1
  BY <1>2
<1> QED
  BY <1>3, <1>5, <1>6, <1>7, <1>8

-----------------------------------------------------------------------------
(* Words: four bytes of one, read back.                                     *)

Byte == 0 .. ByteCount - 1

LEMMA DivTwice ==
    ASSUME NEW n \in Int, NEW a \in Nat \ {0}, NEW b \in Nat \ {0}
    PROVE  n \div (a * b) = (n \div a) \div b
<1>1. PICK q \in Int, r \in 0 .. a - 1 : q = n \div a /\ n = q * a + r
  BY Division
<1>2. PICK p \in Int, s \in 0 .. b - 1 : p = q \div b /\ q = p * b + s
  BY Division
<1>3. PICK k \in Nat \ {0} : k = a * b
  <2>1. a * b \in Nat \ {0}
    BY SMT
  <2> QED
    BY <2>1
<1>4. PICK t \in Int : t = s * a + r
  <2>1. s * a + r \in Int
    BY SMT
  <2> QED
    BY <2>1
<1>5. t \in 0 .. k - 1
  <2>1. s * a \in Int /\ b * a \in Int /\ s * a + a <= b * a
    BY IntGap
  <2>2. s * a >= 0
    BY SMT
  <2>3. b * a = k
    BY <1>3, SMT
  <2> QED
    BY <1>3, <1>4, <2>1, <2>2, <2>3
<1>6. n = p * k + t
  <2>1. n = (p * b + s) * a + r
    BY <1>1, <1>2
  <2>2. (p * b + s) * a + r = p * (a * b) + (s * a + r)
    BY SMT
  <2> QED
    BY <1>3, <1>4, <2>1, <2>2
<1>7. n \div k = p
  BY <1>5, <1>6, QuotientIs
<1> QED
  BY <1>1, <1>2, <1>3, <1>7

LEMMA Horner ==
    ASSUME NEW b \in Int, NEW q \in Int, NEW b1 \in Int, NEW b2 \in Int, NEW b3 \in Int,
           NEW b4 \in Int
    PROVE  (((q * b + b1) * b + b2) * b + b3) * b + b4
           = q * (b * b * b * b) + (((b1 * b + b2) * b + b3) * b + b4)
BY SMT

LEMMA BytesOfWord ==
    ASSUME NEW n \in Int
    PROVE  /\ ToBytes(n) \in Seq(Byte) /\ Len(ToBytes(n)) = 4
           /\ \E q \in Int :
                 n = q * WordCount
                     + (((ToBytes(n)[1] * ByteCount + ToBytes(n)[2]) * ByteCount
                         + ToBytes(n)[3]) * ByteCount + ToBytes(n)[4])
<1>1. PICK b \in Nat \ {0} : b = ByteCount
  BY CodecsAssumption
<1>2. PICK q1 \in Int, b4 \in 0 .. b - 1 : q1 = n \div b /\ b4 = n % b /\ n = q1 * b + b4
  BY Division
<1>3. PICK q2 \in Int, b3 \in 0 .. b - 1 : q2 = q1 \div b /\ b3 = q1 % b /\ q1 = q2 * b + b3
  BY Division
<1>4. PICK q3 \in Int, b2 \in 0 .. b - 1 : q3 = q2 \div b /\ b2 = q2 % b /\ q2 = q3 * b + b2
  BY Division
<1>5. PICK q4 \in Int, b1 \in 0 .. b - 1 : q4 = q3 \div b /\ b1 = q3 % b /\ q3 = q4 * b + b1
  BY Division
<1>6. b * b \in Nat \ {0}
  BY SMT
<1>7. n \div (b * b) = q2
  BY <1>2, <1>3, DivTwice
<1>8. n \div (b * b * b) = q3
  BY <1>4, <1>6, <1>7, DivTwice
<1>9. PICK t : t = <<b1, b2, b3, b4>>
  OBVIOUS
<1>10. ToBytes(n) = t
  BY <1>1, <1>2, <1>3, <1>4, <1>5, <1>7, <1>8, <1>9, Zenon DEF ToBytes
<1>11. t \in Seq(Byte) /\ Len(t) = 4 /\ t[1] = b1 /\ t[2] = b2 /\ t[3] = b3 /\ t[4] = b4
  <2>1. <<b1, b2, b3, b4>> \in Seq(0 .. b - 1)
    OBVIOUS
  <2> QED
    BY <1>1, <1>9, <2>1 DEF Byte
<1>12. n = q4 * (b * b * b * b) + (((b1 * b + b2) * b + b3) * b + b4)
  <2>1. n = (((q4 * b + b1) * b + b2) * b + b3) * b + b4
    BY <1>2, <1>3, <1>4, <1>5, Zenon
  <2>2. b \in Int /\ b1 \in Int /\ b2 \in Int /\ b3 \in Int /\ b4 \in Int
    OBVIOUS
  <2> QED
    BY <2>1, <2>2, Horner
<1>13. WordCount = b * b * b * b
  BY <1>1 DEF WordCount
<1>14. n = q4 * WordCount + (((t[1] * b + t[2]) * b + t[3]) * b + t[4])
  BY <1>11, <1>12, <1>13, Zenon
<1>15. t[1] = b1 /\ ToBytes(n)[1] = t[1] /\ ToBytes(n)[2] = t[2] /\ ToBytes(n)[3] = t[3] /\ ToBytes(n)[4] = t[4]
  BY <1>10, <1>11
<1> QED
  BY <1>1, <1>10, <1>11, <1>14, <1>15, Zenon

(* The word at a place of some data, if its bytes are there.                *)
WordAt(data, at, n) ==
    \A k \in 1 .. 4 : data[at + k - 1] = ToBytes(n)[k]

LEMMA WordComesBack ==
    ASSUME NEW n \in Int, Least <= n, n < -Least, NEW data, NEW at \in Nat,
           WordAt(data, at, n)
    PROVE  FromBytes(data, at) = n
<1>1. PICK b \in Nat \ {0} : b = ByteCount
  BY CodecsAssumption
<1>2. PICK t \in Seq(Byte), q \in Int :
         /\ t = ToBytes(n) /\ Len(t) = 4
         /\ n = q * WordCount + (((t[1] * b + t[2]) * b + t[3]) * b + t[4])
  BY <1>1, BytesOfWord
<1>3. t[1] \in Int /\ t[2] \in Int /\ t[3] \in Int /\ t[4] \in Int
  <2>1. t[1] \in Byte /\ t[2] \in Byte /\ t[3] \in Byte /\ t[4] \in Byte
    BY <1>2
  <2> QED
    BY <1>1, <2>1 DEF Byte
<1>4. PICK h \in Int : h = ((t[1] * b + t[2]) * b + t[3]) * b + t[4]
  <2>1. PICK a1 \in Int, a2 \in Int, a3 \in Int, a4 \in Int :
            a1 = t[1] /\ a2 = t[2] /\ a3 = t[3] /\ a4 = t[4]
    BY <1>3
  <2>2. ((a1 * b + a2) * b + a3) * b + a4 \in Int
    BY SMT
  <2> QED
    BY <2>1, <2>2
<1>5. data[at] = t[1] /\ data[at + 1] = t[2] /\ data[at + 2] = t[3] /\ data[at + 3] = t[4]
  <2>1. data[at + 1 - 1] = t[1] /\ data[at + 2 - 1] = t[2] /\ data[at + 3 - 1] = t[3]
        /\ data[at + 4 - 1] = t[4]
    BY <1>2 DEF WordAt
  <2>2. at + 1 - 1 = at /\ at + 2 - 1 = at + 1 /\ at + 3 - 1 = at + 2 /\ at + 4 - 1 = at + 3
    OBVIOUS
  <2> QED
    BY <2>1, <2>2
<1>6. FromBytes(data, at) = Int32(h)
  BY <1>1, <1>4, <1>5, Zenon DEF FromBytes
<1>7. PICK w \in Nat \ {0}, l \in Int : w = WordCount /\ l = Least /\ l <= 0 /\ -l - l <= w
  BY WordTyped
<1>8. PICK r \in 0 .. w - 1 : r = n - l
  BY <1>7
<1>9. PICK p \in Int : p = -q
  OBVIOUS
<1>10. h - l \in Int /\ h - l = p * w + r
  <2>1. n = q * w + h
    BY <1>2, <1>4, <1>7
  <2>2. q * w \in Int /\ p * w = -(q * w)
    BY <1>9, SMT
  <2> QED
    BY <1>8, <2>1, <2>2
<1>11. (h - l) % w = r
  BY <1>10, QuotientIs
<1> QED
  BY <1>6, <1>7, <1>8, <1>11 DEF Int32

-----------------------------------------------------------------------------
(* Signatures: not one of their elements is a byte.                         *)

OneHashed == [q \in Int \X Int |-> (q[1] * 3 + q[2] + 7) % 97]

LEMMA OneHashedTyped ==
    /\ OneHashed \in [Int \X Int -> Int]
    /\ \A a, b \in Int : /\ OneHashed[<<a, b>>] = (a * 3 + b + 7) % 97
                         /\ (a * 3 + b + 7) % 97 \in Nat
<1>1. ASSUME NEW a \in Int, NEW b \in Int PROVE (a * 3 + b + 7) % 97 \in Nat
  BY SMT
<1>2. ASSUME NEW q \in Int \X Int PROVE (q[1] * 3 + q[2] + 7) % 97 \in Int
  BY <1>1
<1>3. ASSUME NEW a \in Int, NEW b \in Int
      PROVE  OneHashed[<<a, b>>] = (a * 3 + b + 7) % 97
  <2> DEFINE q == <<a, b>>
  <2>1. q \in Int \X Int /\ q[1] = a /\ q[2] = b
    OBVIOUS
  <2>2. OneHashed[q] = (q[1] * 3 + q[2] + 7) % 97
    BY <2>1, Zenon DEF OneHashed
  <2> QED
    BY <2>1, <2>2
<1> QED
  BY <1>1, <1>2, <1>3 DEF OneHashed

LEMMA SignatureIs ==
    ASSUME NEW d \in Seq(Int)
    PROVE  /\ SignatureOf(d) \in Seq(Int) /\ Len(SignatureOf(d)) = SignatureLen
           /\ \A k \in 1 .. SignatureLen : SignatureOf(d)[k] \notin Byte
<1> DEFINE D == 0 .. Len(d)
           Eq(e) == e = [k \in D |-> IF k = 0 THEN 0 ELSE (e[k - 1] * 3 + d[k] + 7) % 97]
           v == CHOOSE e : Eq(e)
<1>1. Len(d) \in Nat /\ Len(d) \in D /\ 0 \in Int
  OBVIOUS
<1>2. PICK s \in [D -> Int] : Along(s, Len(d), 0, OneHashed, d)
  BY <1>1, OneHashedTyped, AlongExists
<1>3. ASSUME NEW k \in D
      PROVE  s[k] = (IF k = 0 THEN 0 ELSE (s[k - 1] * 3 + d[k] + 7) % 97) /\ s[k] \in Nat
  <2>1. s[k] = IF k = 0 THEN 0 ELSE OneHashed[<<s[k - 1], d[k]>>]
    BY <1>2 DEF Along
  <2>2. k # 0 => k \in 1 .. Len(d) /\ k - 1 \in D
    BY <1>1
  <2>3. k # 0 => s[k - 1] \in Int /\ d[k] \in Int
    BY <1>1, <2>2
  <2>4. CASE k = 0
    BY <2>1, <2>4
  <2>5. CASE k # 0
    <3>1. PICK a \in Int, b \in Int : a = s[k - 1] /\ b = d[k]
      BY <2>3, <2>5
    <3>2. s[k] = OneHashed[<<a, b>>]
      BY <2>1, <2>5, <3>1
    <3>3. OneHashed[<<a, b>>] = (a * 3 + b + 7) % 97 /\ (a * 3 + b + 7) % 97 \in Nat
      BY OneHashedTyped
    <3>4. s[k] = (s[k - 1] * 3 + d[k] + 7) % 97
      BY <3>1, <3>2, <3>3, Zenon
    <3>5. s[k] \in Nat
      BY <3>2, <3>3, Zenon
    <3> QED
      BY <2>5, <3>4, <3>5, Zenon
  <2> QED
    BY <2>4, <2>5
<1>4. Eq(s)
  BY <1>3
<1>5. Eq(v)
  <2> HIDE DEF Eq
  <2> QED
    BY <1>4
<1>6. SignatureOf(d) = [k \in 1 .. SignatureLen |-> ByteCount + v[Len(d)] * k]
  BY DEF SignatureOf
<1> HIDE DEF v
<1> DEFINE A == {n \in Nat : n \in D => v[n] = s[n]}
<1>7. 0 \in A
  <2>1. 0 \in D
    BY <1>1
  <2>2. v[0] = 0 /\ s[0] = 0
    BY <1>3, <1>5, <2>1, Zenon
  <2> QED
    BY <2>2
<1>8. ASSUME NEW n \in Nat, n \in A PROVE n + 1 \in A
  <2> SUFFICES ASSUME n + 1 \in D PROVE v[n + 1] = s[n + 1]
    OBVIOUS
  <2>1. PICK k \in D : k = n + 1
    OBVIOUS
  <2>2. k # 0 /\ k - 1 = n /\ n \in D
    BY <1>1, <2>1
  <2>3. v[k] = (v[k - 1] * 3 + d[k] + 7) % 97
    BY <1>5, <2>2, Zenon
  <2>4. s[k] = (s[k - 1] * 3 + d[k] + 7) % 97
    BY <1>3, <2>2
  <2>5. v[k] = s[k]
    BY <1>8, <2>2, <2>3, <2>4
  <2> QED
    BY <2>1, <2>5
<1> HIDE DEF A
<1>9. Nat \subseteq A
  BY <1>7, <1>8, AllNumbers
<1>10. PICK h \in Nat : h = v[Len(d)]
  <2>1. Len(d) \in A
    BY <1>1, <1>9
  <2>2. v[Len(d)] = s[Len(d)]
    BY <1>1, <2>1 DEF A
  <2> QED
    BY <1>1, <1>3, <2>2
<1>11. PICK b \in Nat, n \in Nat : b = ByteCount /\ n = SignatureLen
  BY CodecsAssumption
<1>12. PICK g : g = [k \in 1 .. n |-> b + h * k]
  OBVIOUS
<1>13. SignatureOf(d) = g
  BY <1>6, <1>10, <1>11, <1>12
<1>14. ASSUME NEW k \in 1 .. n PROVE b + h * k \in Int /\ b + h * k >= b
  <2>1. h * k \in Nat
    BY SMT
  <2> QED
    BY <2>1
<1>15. g \in [1 .. n -> Int]
  BY <1>12, <1>14
<1>16. g \in Seq(Int) /\ Len(g) = n
  BY <1>15
<1>17. \A k \in 1 .. n : g[k] \notin Byte
  BY <1>11, <1>12, <1>14 DEF Byte
<1> QED
  BY <1>11, <1>13, <1>16, <1>17

-----------------------------------------------------------------------------
(* The meta data at the start of a packet.                                  *)

MetaBytes(t, id, ts) == <<t>> \o ToBytes(id) \o ToBytes(ts)
MetaOf(t, id, ts) == [ok |-> TRUE, msgType |-> t, requestId |-> id, timestamp |-> ts]

Joins(s, t, w, S) ==
    /\ w \in Seq(S) /\ Len(w) = Len(s) + Len(t)
    /\ \A k \in 1 .. Len(s) : w[k] = s[k]
    /\ \A k \in 1 .. Len(t) : w[Len(s) + k] = t[k]

LEMMA Joined ==
    ASSUME NEW S, NEW s \in Seq(S), NEW t \in Seq(S)
    PROVE  Joins(s, t, s \o t, S)
<1>1. s \o t \in Seq(S) /\ Len(s \o t) = Len(s) + Len(t)
  OBVIOUS
<1>2. \A k \in 1 .. Len(s) : (s \o t)[k] = s[k]
  OBVIOUS
<1>3. \A k \in 1 .. Len(t) : (s \o t)[Len(s) + k] = t[k]
  OBVIOUS
<1> QED
  BY <1>1, <1>2, <1>3 DEF Joins

LEMMA Offsets == \A k \in 1 .. 4 : 2 + k - 1 \in 1 .. 9 /\ 6 + k - 1 \in 1 .. 9
OBVIOUS

LEMMA ByteTyped == Byte \subseteq Int /\ 1 \in Byte /\ 0 \in Byte
BY CodecsAssumption DEF Byte

LEMMA MetaIs ==
    ASSUME NEW t \in Byte, NEW id \in Int, NEW ts \in Int
    PROVE  /\ MetaBytes(t, id, ts) \in Seq(Byte) /\ Len(MetaBytes(t, id, ts)) = 9
           /\ MetaBytes(t, id, ts)[1] = t
           /\ WordAt(MetaBytes(t, id, ts), 2, id) /\ WordAt(MetaBytes(t, id, ts), 6, ts)
<1>1. PICK y \in Seq(Byte), z \in Seq(Byte) :
          y = ToBytes(id) /\ z = ToBytes(ts) /\ Len(y) = 4 /\ Len(z) = 4
  BY BytesOfWord
<1>2. PICK x \in Seq(Byte) : x = <<t>> /\ Len(x) = 1 /\ x[1] = t
  <2>1. <<t>> \in Seq(Byte) /\ Len(<<t>>) = 1 /\ <<t>>[1] = t
    OBVIOUS
  <2> QED
    BY <2>1
<1>3. PICK u \in Seq(Byte) : /\ u = x \o y /\ Len(u) = 5 /\ u[1] = t
                             /\ \A k \in 1 .. 4 : u[1 + k] = y[k]
  <2>0. Joins(x, y, x \o y, Byte)
    BY Joined
  <2>1. /\ x \o y \in Seq(Byte) /\ Len(x \o y) = 5 /\ (x \o y)[1] = x[1]
        /\ \A k \in 1 .. 4 : (x \o y)[1 + k] = y[k]
    BY <1>1, <1>2, <2>0 DEF Joins
  <2> QED
    BY <1>2, <2>1
<1>4. PICK m \in Seq(Byte) : /\ m = u \o z /\ Len(m) = 9
                             /\ \A k \in 1 .. 5 : m[k] = u[k]
                             /\ \A k \in 1 .. 4 : m[5 + k] = z[k]
  <2>0. Joins(u, z, u \o z, Byte)
    BY Joined
  <2>1. /\ u \o z \in Seq(Byte) /\ Len(u \o z) = 9
        /\ \A k \in 1 .. 5 : (u \o z)[k] = u[k]
        /\ \A k \in 1 .. 4 : (u \o z)[5 + k] = z[k]
    BY <1>1, <1>3, <2>0 DEF Joins
  <2> QED
    BY <2>1
<1>5. MetaBytes(t, id, ts) = m
  BY <1>1, <1>2, <1>3, <1>4 DEF MetaBytes
<1>6. m[1] = t
  BY <1>3, <1>4
<1>7. ASSUME NEW k \in 1 .. 4 PROVE m[2 + k - 1] = y[k]
  <2>1. 2 + k - 1 = 1 + k /\ 1 + k \in 1 .. 5
    OBVIOUS
  <2>2. m[1 + k] = u[1 + k] /\ u[1 + k] = y[k]
    BY <1>3, <1>4, <2>1
  <2> QED
    BY <2>1, <2>2
<1>8. ASSUME NEW k \in 1 .. 4 PROVE m[6 + k - 1] = z[k]
  <2>1. 6 + k - 1 = 5 + k
    OBVIOUS
  <2> QED
    BY <1>4, <2>1
<1>9. WordAt(m, 2, id)
  BY <1>1, <1>7 DEF WordAt
<1>10. WordAt(m, 6, ts)
  BY <1>1, <1>8 DEF WordAt
<1> QED
  BY <1>4, <1>5, <1>6, <1>9, <1>10

(* Data of at least nine bytes that starts with meta data gives them.       *)
LEMMA MetaRead ==
    ASSUME NEW t \in Byte, NEW id \in Words, NEW ts \in Words, NEW data \in Seq(Int),
           Len(data) >= 9, \A k \in 1 .. 9 : data[k] = MetaBytes(t, id, ts)[k]
    PROVE  GetMeta(data) = MetaOf(t, id, ts)
<1>1. id \in Int /\ Least <= id /\ id < -Least /\ ts \in Int /\ Least <= ts /\ ts < -Least
  BY CodecsAssumption
<1>2. PICK m \in Seq(Byte) : /\ m = MetaBytes(t, id, ts) /\ m[1] = t
                             /\ WordAt(m, 2, id) /\ WordAt(m, 6, ts)
  BY <1>1, MetaIs
<1>3. data[1] = t
  <2>1. 1 \in 1 .. 9
    OBVIOUS
  <2> QED
    BY <1>2, <2>1
<1>4. WordAt(data, 2, id)
  <2> SUFFICES ASSUME NEW k \in 1 .. 4 PROVE data[2 + k - 1] = ToBytes(id)[k]
    BY DEF WordAt
  <2>1. 2 + k - 1 \in 1 .. 9
    BY Offsets
  <2>2. m[2 + k - 1] = ToBytes(id)[k]
    BY <1>2 DEF WordAt
  <2> QED
    BY <1>2, <2>1, <2>2
<1>5. WordAt(data, 6, ts)
  <2> SUFFICES ASSUME NEW k \in 1 .. 4 PROVE data[6 + k - 1] = ToBytes(ts)[k]
    BY DEF WordAt
  <2>1. 6 + k - 1 \in 1 .. 9
    BY Offsets
  <2>2. m[6 + k - 1] = ToBytes(ts)[k]
    BY <1>2 DEF WordAt
  <2> QED
    BY <1>2, <2>1, <2>2
<1>6. FromBytes(data, 2) = id /\ FromBytes(data, 6) = ts
  BY <1>1, <1>4, <1>5, WordComesBack
<1>7. ~(Len(data) < MetaLength)
  BY DEF MetaLength
<1> QED
  BY <1>3, <1>6, <1>7, Zenon DEF GetMeta, MetaOf

-----------------------------------------------------------------------------
(* What a packet carries after its meta data.                               *)

Carried(ciphered, payload) ==
    IF ciphered THEN Encrypt(Marshal(payload)) ELSE Marshal(payload)

LEMMA CipherInverts ==
    ASSUME NEW b \in Byte
    PROVE  /\ (b + 1) % ByteCount \in Byte
           /\ (((b + 1) % ByteCount) + ByteCount - 1) % ByteCount = b
<1>1. PICK n \in Nat \ {0} : n = ByteCount /\ 2 <= n /\ b \in 0 .. n - 1
  BY CodecsAssumption DEF Byte
<1>2. CASE b + 1 < n
  <2>1. b + 1 \in 0 .. n - 1 /\ b + 1 \in Int /\ 0 \in Int /\ b + 1 = 0 * n + (b + 1)
    BY <1>1, <1>2
  <2>2. (b + 1) % n = b + 1
    BY <2>1, QuotientIs
  <2>3. PICK m \in Int : m = ((b + 1) % n) + n - 1
    BY <2>1, <2>2
  <2>4. 1 \in Int /\ m = 1 * n + b
    BY <1>1, <2>1, <2>2, <2>3
  <2>5. m % n = b
    BY <1>1, <2>4, QuotientIs
  <2> QED
    BY <1>1, <2>1, <2>2, <2>3, <2>5 DEF Byte
<1>3. CASE b + 1 = n
  <2>1. PICK a \in Int : a = b + 1
    BY <1>1
  <2>2. 0 \in 0 .. n - 1 /\ 1 \in Int /\ 0 \in Int /\ a = 1 * n + 0
    BY <1>1, <1>3, <2>1
  <2>3. a % n = 0
    BY <2>2, QuotientIs
  <2>4. PICK m \in Int : m = (a % n) + n - 1
    BY <2>3
  <2>5. m = 0 * n + b
    BY <1>1, <1>3, <2>3, <2>4
  <2>6. m % n = b
    BY <1>1, <2>2, <2>5, QuotientIs
  <2> QED
    BY <1>1, <2>1, <2>2, <2>3, <2>4, <2>6 DEF Byte
<1> QED
  BY <1>1, <1>2, <1>3

LEMMA SeqsEqual ==
    ASSUME NEW S, NEW n \in Nat, NEW s \in Seq(S), NEW t \in Seq(S),
           Len(s) = n, Len(t) = n, SameFrom(1, n, s, t)
    PROVE  s = t
<1>1. s \in [1 .. n -> S] /\ t \in [1 .. n -> S]
  OBVIOUS
<1>2. s = [k \in 1 .. n |-> s[k]] /\ t = [k \in 1 .. n |-> t[k]]
  BY <1>1
<1> QED
  BY <1>2 DEF SameFrom

LEMMA MarshalIs ==
    ASSUME NEW payload \in Payloads \cup {NoPayload}
    PROVE  /\ Marshal(payload) \in Seq(Byte)
           /\ Marshal(payload) = <<>> <=> payload = NoPayload
<1>1. CASE payload = NoPayload
  BY <1>1 DEF Marshal
<1>2. CASE payload # NoPayload
  <2>1. Marshalled[payload] \in Seq(Byte) \ {<<>>}
    BY <1>2, CodecsAssumption DEF Byte
  <2> QED
    BY <1>2, <2>1 DEF Marshal
<1> QED
  BY <1>1, <1>2

(* Byte by byte, w is what the cipher makes of t or t itself.               *)
CarriesTo(ciphered, t, w) ==
    /\ Len(w) = Len(t)
    /\ \A k \in 1 .. Len(t) : w[k] = IF ciphered THEN (t[k] + 1) % ByteCount ELSE t[k]

LEMMA CarriedIs ==
    ASSUME NEW c \in BOOLEAN, NEW payload \in Payloads \cup {NoPayload}
    PROVE  /\ Carried(c, payload) \in Seq(Byte)
           /\ CarriesTo(c, Marshal(payload), Carried(c, payload))
<1>1. PICK t \in Seq(Byte) : t = Marshal(payload)
  BY MarshalIs
<1>2. PICK n \in Nat : n = Len(t)
  OBVIOUS
<1>3. CASE c
  <2>1. PICK w : w = [k \in 1 .. n |-> (t[k] + 1) % ByteCount]
    OBVIOUS
  <2>2. DOMAIN t = 1 .. n
    BY <1>2
  <2>3. Carried(c, payload) = w
    BY <1>1, <1>3, <2>1, <2>2 DEF Carried, Encrypt
  <2>4. \A k \in 1 .. n : w[k] = (t[k] + 1) % ByteCount
    BY <2>1
  <2>5. \A k \in 1 .. n : w[k] \in Byte
    <3> SUFFICES ASSUME NEW k \in 1 .. n PROVE w[k] \in Byte
      OBVIOUS
    <3>1. PICK x \in Byte : x = t[k]
      BY <1>2
    <3> QED
      BY <2>4, <3>1, CipherInverts
  <2>6. w \in [1 .. n -> Byte]
    BY <2>1, <2>5
  <2>7. w \in Seq(Byte) /\ Len(w) = n
    BY <2>6
  <2> QED
    BY <1>1, <1>2, <1>3, <2>3, <2>4, <2>7 DEF CarriesTo
<1>4. CASE ~c
  <2>1. Carried(c, payload) = t
    BY <1>1, <1>4 DEF Carried
  <2> QED
    BY <1>1, <1>4, <2>1 DEF CarriesTo
<1> QED
  BY <1>3, <1>4

LEMMA BodyWithout ==
    ASSUME NEW meta, NEW p
    PROVE  Body(meta, p, <<>>) = [ok |-> TRUE, meta |-> meta, payload |-> NoPayload]
BY DEF Body

(* What a body is decoded to of which the first m bytes arrived.            *)
DecodesPart(meta, payload, m, b) ==
    \/ b = Failed /\ m # Len(Marshal(payload))
    \/ \E x \in Payloads \cup {NoPayload} :
          /\ b = [ok |-> TRUE, meta |-> meta, payload |-> x]
          /\ IsPrefix(Marshal(x), Marshal(payload))
          /\ m = Len(Marshal(payload)) => x = payload

(* The bytes that the marshaler is given.                                   *)
Plain(p, v) == IF p.cryptor THEN Decrypt(v) ELSE v

LEMMA PlainPart ==
    ASSUME NEW p \in Protocols, NEW t \in Seq(Byte), NEW w \in Seq(Byte),
           CarriesTo(p.cryptor, t, w), NEW m \in 0 .. Len(t)
    PROVE  Plain(p, SubSeq(w, 1, m)) = SubSeq(t, 1, m)
<1>0. PICK v : v = SubSeq(w, 1, m)
  OBVIOUS
<1>1. /\ Len(w) = Len(t) /\ m \in Nat
      /\ \A k \in 1 .. Len(t) : w[k] = IF p.cryptor THEN (t[k] + 1) % ByteCount ELSE t[k]
  BY DEF CarriesTo
<1>2. v \in Seq(Byte) /\ Len(v) = m /\ \A k \in 1 .. m : v[k] = w[k]
  BY <1>0, <1>1
<1>3. PICK u \in Seq(Byte) : u = SubSeq(t, 1, m) /\ Len(u) = m /\ \A k \in 1 .. m : u[k] = t[k]
  <2>1. SubSeq(t, 1, m) \in Seq(Byte) /\ Len(SubSeq(t, 1, m)) = m
    BY <1>1
  <2>2. \A k \in 1 .. m : SubSeq(t, 1, m)[k] = t[k]
    BY <1>1
  <2> QED
    BY <2>1, <2>2
<1>4. \A k \in 1 .. m : k \in 1 .. Len(t)
  BY <1>1
<1>5. CASE p.cryptor
  <2>1. PICK d : d = [k \in 1 .. m |-> (v[k] + ByteCount - 1) % ByteCount]
    OBVIOUS
  <2>2. DOMAIN v = 1 .. m
    BY <1>1, <1>2
  <2>3. Decrypt(v) = d
    BY <2>1, <2>2 DEF Decrypt
  <2>4. \A k \in 1 .. m : d[k] = t[k] /\ d[k] \in Byte
    <3> SUFFICES ASSUME NEW k \in 1 .. m PROVE d[k] = t[k] /\ d[k] \in Byte
      OBVIOUS
    <3>1. PICK x \in Byte : x = t[k]
      BY <1>4
    <3>2. v[k] = (x + 1) % ByteCount
      BY <1>1, <1>2, <1>4, <1>5, <3>1
    <3>3. d[k] = (v[k] + ByteCount - 1) % ByteCount
      BY <2>1
    <3> QED
      BY <3>1, <3>2, <3>3, CipherInverts
  <2>5. d \in [1 .. m -> Byte]
    BY <2>1, <2>4
  <2>6. d \in Seq(Byte) /\ Len(d) = m
    BY <1>1, <2>5
  <2>7. SameFrom(1, m, d, u)
    BY <1>3, <2>4 DEF SameFrom
  <2>8. d = u
    BY <1>1, <1>3, <2>6, <2>7, SeqsEqual
  <2> QED
    BY <1>0, <1>3, <1>5, <2>3, <2>8 DEF Plain
<1>6. CASE ~p.cryptor
  <2>1. SameFrom(1, m, v, u)
    BY <1>1, <1>2, <1>3, <1>4, <1>6 DEF SameFrom
  <2>2. v = u
    BY <1>1, <1>2, <1>3, <2>1, SeqsEqual
  <2> QED
    BY <1>0, <1>3, <1>6, <2>2 DEF Plain
<1> QED
  BY <1>5, <1>6

LEMMA PartBegins ==
    ASSUME NEW t \in Seq(Byte), NEW m \in 0 .. Len(t), NEW u, u = SubSeq(t, 1, m)
    PROVE  IsPrefix(u, t) /\ Len(u) = m
<1>1. u \in Seq(Byte) /\ Len(u) = m /\ m <= Len(t)
  OBVIOUS
<1>2. SubSeq(u, 1, Len(u)) = u
  BY <1>1
<1>3. SubSeq(t, 1, Len(u)) = u
  BY <1>1
<1>4. Len(u) <= Len(t)
  BY <1>1
<1> QED
  BY <1>1, <1>2, <1>3, <1>4, Zenon DEF IsPrefix

LEMMA BodyOfPart ==
    ASSUME NEW meta, NEW p \in Protocols, NEW payload \in Payloads \cup {NoPayload},
           NEW m \in 0 .. Len(Marshal(payload)),
           NEW w, w = SubSeq(Carried(p.cryptor, payload), 1, m)
    PROVE  DecodesPart(meta, payload, m, Body(meta, p, w))
<1>0. p.cryptor \in BOOLEAN
  BY DEF Protocols
<1>1. PICK t \in Seq(Byte) : t = Marshal(payload) /\ (t = <<>> <=> payload = NoPayload)
  BY MarshalIs
<1>2. PICK s \in Seq(Byte) : s = Carried(p.cryptor, payload) /\ CarriesTo(p.cryptor, t, s)
  BY <1>0, <1>1, CarriedIs
<1>3. m \in 0 .. Len(t) /\ w = SubSeq(s, 1, m)
  BY <1>1, <1>2
<1>4. PICK u : u = SubSeq(t, 1, m)
  OBVIOUS
<1>5. Plain(p, w) = u
  <2>1. CarriesTo(p.cryptor, t, s) /\ m \in 0 .. Len(t)
    BY <1>2, <1>3
  <2>2. Plain(p, SubSeq(s, 1, m)) = SubSeq(t, 1, m)
    BY <2>1, PlainPart
  <2> QED
    BY <1>3, <1>4, <2>2, Zenon
<1>6. IsPrefix(u, t) /\ Len(u) = m
  BY <1>3, <1>4, PartBegins
<1>7. CASE m = 0
  <2>1. Len(w) = 0 /\ w \in Seq(Byte)
    BY <1>3, <1>7
  <2>2. w = <<>>
    BY <2>1
  <2>3. Len(u) = 0 /\ u \in Seq(Byte)
    BY <1>3, <1>4, <1>7
  <2>4. u = <<>>
    BY <2>3
  <2>5. Body(meta, p, w) = [ok |-> TRUE, meta |-> meta, payload |-> NoPayload]
    BY <2>2, BodyWithout
  <2>6. IsPrefix(Marshal(NoPayload), Marshal(payload))
    BY <1>1, <1>6, <2>4 DEF Marshal
  <2>7. m = Len(Marshal(payload)) => NoPayload = payload
    <3> SUFFICES ASSUME 0 = Len(t) PROVE t = <<>>
      BY <1>1, <1>7
    <3> QED
      OBVIOUS
  <2> QED
    BY <2>5, <2>6, <2>7 DEF DecodesPart
<1>8. CASE m # 0
  <2>1. w # <<>>
    <3>1. Len(w) = m
      BY <1>2, <1>3 DEF CarriesTo
    <3> QED
      BY <1>8, <3>1
  <2>2. u # <<>>
    BY <1>6, <1>8
  <2>3. payload # NoPayload /\ payload \in Payloads
    <3>1. t # <<>>
      BY <1>3, <1>8
    <3> QED
      BY <1>1, <3>1
  <2>4. Marshalled[payload] = t
    BY <1>1, <2>3 DEF Marshal
  <2>5. CASE \E q \in Payloads : Marshalled[q] = u
    <3>1. PICK q \in Payloads : /\ q = CHOOSE r \in Payloads : Marshalled[r] = u
                                /\ Marshalled[q] = u
      BY <2>5
    <3>2. Unmarshal(u) = [ok |-> TRUE, payload |-> q]
      BY <2>5, <3>1 DEF Unmarshal
    <3>3. Unmarshal(u).ok /\ Unmarshal(u).payload = q
      BY <3>2
    <3>4. Body(meta, p, w) = [ok |-> TRUE, meta |-> meta, payload |-> q]
      BY <1>5, <2>1, <3>3, Zenon DEF Body, Plain
    <3>5. q # NoPayload
      BY CodecsAssumption
    <3>6. Marshal(q) = u
      BY <3>1, <3>5 DEF Marshal
    <3>7. IsPrefix(Marshal(q), Marshal(payload))
      BY <1>1, <1>6, <3>6
    <3>8. ASSUME m = Len(Marshal(payload)) PROVE q = payload
      <4>1. m = Len(t)
        BY <1>1, <3>8
      <4>2. u = t
        BY <1>4, <4>1
      <4>3. Marshalled[q] = Marshalled[payload]
        BY <2>4, <3>1, <4>2
      <4> QED
        BY <2>3, <4>3, CodecsAssumption
    <3> QED
      BY <3>4, <3>7, <3>8 DEF DecodesPart
  <2>6. CASE ~(\E q \in Payloads : Marshalled[q] = u)
    <3>1. Unmarshal(u) = Failed
      BY <2>6 DEF Unmarshal
    <3>2. ~Unmarshal(u).ok
      BY <3>1 DEF Failed
    <3>3. Body(meta, p, w) = Failed
      BY <1>5, <2>1, <3>2, Zenon DEF Body, Plain
    <3>4. ASSUME m = Len(Marshal(payload)) PROVE FALSE
      <4>1. u = t
        BY <1>1, <1>4, <3>4
      <4> QED
        BY <2>3, <2>4, <2>6, <4>1
    <3> QED
      BY <3>3, <3>4 DEF DecodesPart
  <2> QED
    BY <2>5, <2>6
<1> QED
  BY <1>7, <1>8

(* The bytes of a packet before its signature.                              *)
Unsigned(t, id, ts, tail) == MetaBytes(t, id, ts) \o tail

LEMMA UnsignedIs ==
    ASSUME NEW t \in Byte, NEW id \in Int, NEW ts \in Int, NEW tail \in Seq(Byte)
    PROVE  /\ Unsigned(t, id, ts, tail) \in Seq(Byte)
           /\ Len(Unsigned(t, id, ts, tail)) = 9 + Len(tail)
           /\ \A k \in 1 .. 9 : Unsigned(t, id, ts, tail)[k] = MetaBytes(t, id, ts)[k]
           /\ \A k \in 1 .. Len(tail) : Unsigned(t, id, ts, tail)[9 + k] = tail[k]
<1>1. PICK m \in Seq(Byte) : m = MetaBytes(t, id, ts) /\ Len(m) = 9
  BY MetaIs
<1>2. Joins(m, tail, m \o tail, Byte)
  BY Joined
<1> QED
  BY <1>1, <1>2 DEF Joins, Unsigned

LEMMA RequestIs ==
    ASSUME NEW p \in Protocols, NEW id \in Int, NEW ts \in Int,
           NEW payload \in Payloads \cup {NoPayload}, NEW out,
           out = Unsigned(1, id, ts, Carried(p.cryptor, payload))
    PROVE  Request(p, 1, id, ts, payload)
           = IF p.signer THEN out \o SignatureOf(out) ELSE out
BY DEF Request, Unsigned, MetaBytes, Carried

-----------------------------------------------------------------------------
(* Requests that arrive whole or cut off.                                   *)

IsSlice(s, from, to, w, S) ==
    w \in Seq(S) /\ Len(w) = to - from /\ \A k \in 1 .. to - from : w[k] = s[from + k]

LEMMA Sliced ==
    ASSUME NEW S, NEW s \in Seq(S), NEW from \in 0 .. Len(s), NEW to \in from .. Len(s)
    PROVE  IsSlice(s, from, to, Slice(s, from, to), S)
<1> DEFINE w == SubSeq(s, from + 1, to)
<1>1. w \in Seq(S) /\ Len(w) = to - from
  OBVIOUS
<1>2. \A k \in 1 .. to - from : w[k] = s[from + k]
  OBVIOUS
<1> QED
  BY <1>1, <1>2 DEF IsSlice, Slice

RightRequest(p, id, ts, payload, full, n, g) ==
    /\ g # Panicked
    /\ n = full \/ p.signer => (g.ok <=> n = full)
    /\ g.ok => /\ g.meta.requestId = id
               /\ g.meta.timestamp = ts
               /\ IsPrefix(Marshal(g.payload), Marshal(payload))
    /\ g.ok /\ n = full => g.payload = payload

LEMMA RightRefused ==
    ASSUME NEW p, NEW id, NEW ts, NEW payload, NEW full, NEW n, n # full, NEW g, g = Failed
    PROVE  RightRequest(p, id, ts, payload, full, n, g)
BY DEF RightRequest, Failed, Panicked

LEMMA RightAccepted ==
    ASSUME NEW p, NEW id, NEW ts, NEW payload, NEW full, NEW n, NEW t, NEW x, NEW g,
           g = [ok |-> TRUE, meta |-> MetaOf(t, id, ts), payload |-> x],
           IsPrefix(Marshal(x), Marshal(payload)),
           (n = full /\ x = payload) \/ (n # full /\ ~p.signer)
    PROVE  RightRequest(p, id, ts, payload, full, n, g)
<1>1. g.ok = TRUE /\ g.payload = x /\ g.meta = MetaOf(t, id, ts)
  OBVIOUS
<1>2. g.meta.requestId = id /\ g.meta.timestamp = ts
  BY <1>1 DEF MetaOf
<1>3. g # Panicked
  BY <1>1 DEF Panicked
<1> QED
  BY <1>1, <1>2, <1>3 DEF RightRequest

CutDecodes(p, id, ts, payload, n) ==
    LET whole == Request(p, 1, id, ts, payload)
        data == SubSeq(whole, 1, n)
    IN  Len(data) = n /\ RightRequest(p, id, ts, payload, Len(whole), n, DecodeReq(p, data))

LEMMA RequestDecodes ==
    ASSUME NEW p \in Protocols, NEW id \in Words, NEW ts \in Words,
           NEW payload \in Payloads \cup {NoPayload},
           NEW n \in 0 .. Len(Request(p, 1, id, ts, payload))
    PROVE  CutDecodes(p, id, ts, payload, n)
<1>0. PICK whole, data : whole = Request(p, 1, id, ts, payload) /\ data = SubSeq(whole, 1, n)
  OBVIOUS
<1> DEFINE meta == MetaOf(1, id, ts)
<1>1. p.signer \in BOOLEAN /\ p.cryptor \in BOOLEAN /\ id \in Int /\ ts \in Int /\ 1 \in Byte
      /\ Byte \subseteq Int
  BY CodecsAssumption, ByteTyped DEF Protocols
<1>2. PICK c \in Seq(Byte) : /\ c = Carried(p.cryptor, payload)
                             /\ Len(c) = Len(Marshal(payload))
  <2>1. Carried(p.cryptor, payload) \in Seq(Byte)
    BY <1>1, CarriedIs
  <2>2. Len(Carried(p.cryptor, payload)) = Len(Marshal(payload))
    BY <1>1, CarriedIs DEF CarriesTo
  <2> QED
    BY <2>1, <2>2
<1>13. ASSUME NEW m \in 0 .. Len(c), NEW w, w = SubSeq(c, 1, m)
       PROVE  DecodesPart(meta, payload, m, Body(meta, p, w))
  BY <1>2, <1>13, BodyOfPart
<1> HIDE DEF meta
<1>3. PICK out \in Seq(Byte) :
         /\ out = Unsigned(1, id, ts, c) /\ Len(out) = 9 + Len(c)
         /\ \A k \in 1 .. 9 : out[k] = MetaBytes(1, id, ts)[k]
         /\ \A k \in 1 .. Len(c) : out[9 + k] = c[k]
  BY <1>1, UnsignedIs
<1>4. whole = IF p.signer THEN out \o SignatureOf(out) ELSE out
  BY <1>0, <1>1, <1>2, <1>3, RequestIs
<1>5. out \in Seq(Int) /\ c \in Seq(Int)
  BY <1>1, SeqWider
<1>6. PICK sig \in Seq(Int) : sig = SignatureOf(out) /\ Len(sig) = SignatureLen
  BY <1>5, SignatureIs
<1>7. PICK s \in Nat \ {0}, l \in Nat, full \in Nat :
         /\ s = SignatureLen /\ l = Len(out) /\ full = l + (IF p.signer THEN s ELSE 0)
         /\ 9 <= l /\ Len(c) = l - 9
  <2>1. Len(c) \in Nat
    OBVIOUS
  <2>2. PICK l \in Nat : l = 9 + Len(c)
    BY <2>1
  <2>3. PICK s \in Nat \ {0} : s = SignatureLen
    BY CodecsAssumption
  <2>4. PICK full \in Nat : full = l + (IF p.signer THEN s ELSE 0)
    OBVIOUS
  <2>5. l = Len(out) /\ 9 <= l /\ Len(c) = l - 9
    BY <1>3, <2>1, <2>2
  <2> QED
    BY <2>3, <2>4, <2>5, Zenon
<1>8. /\ whole \in Seq(Int) /\ Len(whole) = full
      /\ \A k \in 1 .. l : whole[k] = out[k]
      /\ p.signer => \A k \in 1 .. s : whole[l + k] = sig[k]
  <2>1. CASE p.signer
    <3>1. whole = out \o sig
      BY <1>4, <1>6, <2>1
    <3>2. Joins(out, sig, whole, Int)
      BY <1>5, <3>1, Joined
    <3> QED
      BY <1>6, <1>7, <2>1, <3>2 DEF Joins
  <2>2. CASE ~p.signer
    <3>1. whole = out
      BY <1>4, <2>2
    <3> QED
      BY <1>5, <1>7, <2>2, <3>1
  <2> QED
    BY <2>1, <2>2
<1>9. n \in 0 .. full
  BY <1>0, <1>8
<1>10. data \in Seq(Int) /\ Len(data) = n /\ \A k \in 1 .. n : data[k] = whole[k]
  <2>1. 0 \in 0 .. Len(whole) /\ n \in 0 .. Len(whole)
    BY <1>8, <1>9
  <2>2. IsSlice(whole, 0, n, Slice(whole, 0, n), Int)
    BY <1>8, <2>1, Sliced
  <2>3. data = Slice(whole, 0, n)
    BY <1>0 DEF Slice
  <2> QED
    BY <1>9, <2>2, <2>3 DEF IsSlice
<1> SUFFICES RightRequest(p, id, ts, payload, full, n, DecodeReq(p, data))
  BY <1>0, <1>8, <1>10, Zenon DEF CutDecodes
<1>11. CASE n < 9
  <2>1. GetMeta(data) = Failed
    BY <1>10, <1>11 DEF GetMeta, MetaLength
  <2>2. DecodeReq(p, data) = Failed
    BY <2>1 DEF DecodeReq, Failed
  <2>3. n # full
    BY <1>7, <1>11
  <2> QED
    BY <2>2, <2>3, RightRefused
<1>12. CASE n >= 9
  <2>1. GetMeta(data) = meta /\ meta.ok
    <3>1. PICK t \in Byte : t = 1
      BY <1>1
    <3>2. Len(data) >= 9
      BY <1>10, <1>12
    <3>3. \A k \in 1 .. 9 : data[k] = MetaBytes(t, id, ts)[k]
      <4> SUFFICES ASSUME NEW k \in 1 .. 9 PROVE data[k] = MetaBytes(t, id, ts)[k]
        OBVIOUS
      <4>1. k \in 1 .. n /\ k \in 1 .. l
        BY <1>7, <1>12
      <4> QED
        BY <1>3, <1>8, <1>10, <3>1, <4>1
    <3>4. GetMeta(data) = MetaOf(t, id, ts)
      BY <1>10, <3>2, <3>3, MetaRead
    <3> QED
      BY <3>1, <3>4 DEF MetaOf, meta
  <2>2. ASSUME NEW to \in 9 .. n, to <= l, NEW w, w = Slice(data, 9, to)
        PROVE  \/ Body(meta, p, w) = Failed /\ to # l
               \/ \E x \in Payloads \cup {NoPayload} :
                     /\ Body(meta, p, w) = [ok |-> TRUE, meta |-> meta, payload |-> x]
                     /\ IsPrefix(Marshal(x), Marshal(payload))
                     /\ to = l => x = payload
    <3>1. 9 \in 0 .. Len(data) /\ to \in 9 .. Len(data)
      BY <1>10, <1>12
    <3>2. IsSlice(data, 9, to, w, Int)
      BY <1>10, <2>2, <3>1, Sliced
    <3>3. w \in Seq(Int) /\ Len(w) = to - 9 /\ \A k \in 1 .. to - 9 : w[k] = data[9 + k]
      BY <3>2 DEF IsSlice
    <3>4. PICK m \in Nat : m = to - 9
      <4>1. to - 9 \in Nat
        OBVIOUS
      <4> QED
        BY <4>1
    <3>5. 0 \in 0 .. Len(c) /\ m \in 0 .. Len(c) /\ (to = l <=> m = Len(c))
      BY <1>7, <2>2, <3>4
    <3>6. PICK v \in Seq(Int) : v = SubSeq(c, 1, m) /\ Len(v) = m /\ \A k \in 1 .. m : v[k] = c[k]
      <4>1. SubSeq(c, 1, m) \in Seq(Int) /\ Len(SubSeq(c, 1, m)) = m
        BY <1>5, <3>5
      <4>2. \A k \in 1 .. m : SubSeq(c, 1, m)[k] = c[k]
        BY <1>5, <3>5
      <4> QED
        BY <4>1, <4>2
    <3>7. ASSUME NEW k \in 1 .. m PROVE w[k] = v[k]
      <4>1. k \in 1 .. to - 9 /\ k \in 1 .. Len(c) /\ 9 + k \in 1 .. n /\ 9 + k \in 1 .. l
        BY <1>7, <2>2, <3>4
      <4>2. w[k] = whole[9 + k]
        BY <1>10, <3>3, <4>1
      <4>3. out[9 + k] = c[k]
        BY <1>3, <4>1
      <4> QED
        BY <1>8, <3>6, <4>1, <4>2, <4>3
    <3>8. SameFrom(1, m, w, v)
      BY <3>7 DEF SameFrom
    <3>9. Len(w) = m
      BY <3>3, <3>4
    <3>10. w = v
      BY <3>3, <3>6, <3>8, <3>9, SeqsEqual
    <3>11. DecodesPart(meta, payload, m, Body(meta, p, w))
      BY <1>13, <3>5, <3>6, <3>10
    <3> QED
      BY <1>2, <3>5, <3>11 DEF DecodesPart
  <2>3. CASE ~p.signer
    <3>1. PICK w : w = Slice(data, 9, n)
      OBVIOUS
    <3>2. DecodeReq(p, data) = Body(meta, p, w)
      BY <1>10, <2>1, <2>3, <3>1 DEF DecodeReq, MetaLength
    <3>3. n \in 9 .. n /\ full = l /\ n <= l
      BY <1>7, <1>9, <1>12, <2>3
    <3>4. CASE Body(meta, p, w) = Failed /\ n # l
      BY <3>2, <3>3, <3>4, RightRefused
    <3>5. ASSUME NEW x \in Payloads \cup {NoPayload},
                 Body(meta, p, w) = [ok |-> TRUE, meta |-> meta, payload |-> x],
                 IsPrefix(Marshal(x), Marshal(payload)), n = l => x = payload
          PROVE  RightRequest(p, id, ts, payload, full, n, DecodeReq(p, data))
      BY <2>3, <3>2, <3>3, <3>5, RightAccepted DEF meta
    <3> QED
      BY <2>2, <3>1, <3>3, <3>4, <3>5
  <2>4. CASE p.signer /\ n - s < 9
    <3>1. DecodeReq(p, data) = Failed
      BY <1>7, <1>10, <2>1, <2>4 DEF DecodeReq, MetaLength
    <3>2. n # full
      BY <1>7, <2>4
    <3> QED
      BY <3>1, <3>2, RightRefused
  <2>5. CASE p.signer /\ n - s >= 9
    <3>0. PICK start \in Nat : start = n - s /\ 9 <= start /\ start < n /\ full = l + s
      BY <1>7, <2>5
    <3>1. PICK low : low = Slice(data, 0, start)
      OBVIOUS
    <3>2. PICK high : high = Slice(data, start, n)
      OBVIOUS
    <3>3. PICK mid : mid = Slice(data, 9, start)
      OBVIOUS
    <3>4. DecodeReq(p, data) = IF high = SignatureOf(low) THEN Body(meta, p, mid) ELSE Failed
      <4>1. start = Len(data) - SignatureLen
        BY <1>7, <1>10, <3>0
      <4>2. InRange(data, MetaLength, start) /\ ~(start >= Len(data) \/ start < MetaLength)
        BY <1>10, <3>0 DEF InRange, MetaLength
      <4>3. Slice(data, start, Len(data)) = high
        BY <1>10, <3>2
      <4>4. Slice(data, MetaLength, start) = mid
        BY <3>3 DEF MetaLength
      <4> QED
        BY <2>1, <2>5, <3>1, <4>1, <4>2, <4>3, <4>4, Zenon DEF DecodeReq
    <3>5. low \in Seq(Int) /\ Len(low) = start /\ \A k \in 1 .. start : low[k] = data[k]
      <4>1. 0 \in 0 .. Len(data) /\ start \in 0 .. Len(data)
        BY <1>10, <3>0
      <4>2. IsSlice(data, 0, start, low, Int)
        BY <1>10, <3>1, <4>1, Sliced
      <4> QED
        BY <3>0, <4>2 DEF IsSlice
    <3>6. high \in Seq(Int) /\ Len(high) = s /\ \A k \in 1 .. s : high[k] = data[start + k]
      <4>1. start \in 0 .. Len(data) /\ n \in start .. Len(data)
        BY <1>10, <3>0
      <4>2. IsSlice(data, start, n, high, Int)
        BY <1>10, <3>2, <4>1, Sliced
      <4>3. n - start = s
        BY <3>0
      <4> QED
        BY <4>2, <4>3 DEF IsSlice
    <3>7. CASE n = full
      <4>1. start = l
        BY <3>0, <3>7
      <4>2. low = out
        <5>1. ASSUME NEW k \in 1 .. l PROVE low[k] = out[k]
          <6>1. k \in 1 .. n
            BY <3>0, <4>1
          <6> QED
            BY <1>8, <1>10, <3>5, <4>1, <6>1
        <5>2. SameFrom(1, l, low, out)
          BY <5>1 DEF SameFrom
        <5>3. Len(low) = l /\ Len(out) = l
          BY <1>7, <3>5, <4>1
        <5> QED
          BY <1>5, <3>5, <5>2, <5>3, SeqsEqual
      <4>3. high = sig
        <5>1. ASSUME NEW k \in 1 .. s PROVE high[k] = sig[k]
          <6>1. start + k \in 1 .. n
            BY <3>0
          <6>2. high[k] = whole[l + k]
            BY <1>10, <3>6, <4>1, <6>1
          <6> QED
            BY <1>8, <2>5, <6>2
        <5>2. SameFrom(1, s, high, sig)
          BY <5>1 DEF SameFrom
        <5>3. Len(high) = s /\ Len(sig) = s
          BY <1>6, <1>7, <3>6
        <5> QED
          BY <1>6, <3>6, <5>2, <5>3, SeqsEqual
      <4>4. start \in 9 .. n /\ start <= l
        BY <3>0, <4>1
      <4>5. PICK x \in Payloads \cup {NoPayload} :
               /\ Body(meta, p, mid) = [ok |-> TRUE, meta |-> meta, payload |-> x]
               /\ IsPrefix(Marshal(x), Marshal(payload))
               /\ start = l => x = payload
        BY <2>2, <3>3, <4>1, <4>4
      <4>6. DecodeReq(p, data) = [ok |-> TRUE, meta |-> meta, payload |-> payload]
        BY <1>6, <3>4, <4>1, <4>2, <4>3, <4>5
      <4> QED
        BY <3>7, <4>1, <4>5, <4>6, RightAccepted DEF meta
    <3>8. CASE n # full
      <4>1. start + 1 \in 1 .. l /\ start + 1 \in 1 .. n /\ 1 \in 1 .. s
        BY <1>9, <3>0, <3>8
      <4>2. high[1] = out[start + 1]
        BY <1>8, <1>10, <3>6, <4>1
      <4>3. high[1] \in Byte
        BY <1>7, <4>1, <4>2
      <4>4. SignatureOf(low)[1] \notin Byte
        BY <1>7, <3>5, <4>1, SignatureIs
      <4>5. DecodeReq(p, data) = Failed
        BY <3>4, <4>3, <4>4
      <4> QED
        BY <3>8, <4>5, RightRefused
    <3> QED
      BY <3>7, <3>8
  <2> QED
    BY <1>7, <2>3, <2>4, <2>5
<1> QED
  BY <1>9, <1>11, <1>12

LEMMA RequestInverts == ASSUME Receive PROVE CodecsInvert'
<1>1. PICK p \in Protocols, id \in Words, ts \in Words, payload \in Payloads \cup {NoPayload} :
         LET whole == Request(p, 1, id, ts, payload) IN
         /\ given' = [p |-> p, requestId |-> id, timestamp |-> ts, payload |-> payload,
                      size |-> Len(whole)]
         /\ \E n \in 0 .. Len(whole) : made' = SubSeq(whole, 1, n)
         /\ got' = DecodeReq(p, made')
  BY DEF Receive
<1>2. job' = "request"
  BY DEF Receive
<1>3. PICK whole : whole = Request(p, 1, id, ts, payload)
  OBVIOUS
<1>4. PICK n \in 0 .. Len(whole) : made' = SubSeq(whole, 1, n)
  BY <1>1, <1>3
<1>5. PICK g : g = got' /\ g = DecodeReq(p, made')
  BY <1>1
<1>6. PICK v : v = given' /\ v = [p |-> p, requestId |-> id, timestamp |-> ts,
                                  payload |-> payload, size |-> Len(whole)]
  BY <1>1, <1>3
<1>7. v.p = p /\ v.requestId = id /\ v.timestamp = ts /\ v.payload = payload
      /\ v.size = Len(whole)
  BY <1>6
<1>8. PICK d : d = made' /\ d = SubSeq(whole, 1, n)
  BY <1>4
<1>9. Len(d) = n /\ RightRequest(p, id, ts, payload, Len(whole), n, DecodeReq(p, d))
  <2>1. CutDecodes(p, id, ts, payload, n)
    BY <1>3, RequestDecodes
  <2> QED
    BY <1>3, <1>8, <2>1, Zenon DEF CutDecodes
<1>10. RightRequest(p, id, ts, payload, Len(whole), Len(d), g)
  BY <1>5, <1>8, <1>9
<1>11. RequestsInvert'
  BY <1>5, <1>6, <1>7, <1>8, <1>10, Zenon DEF RequestsInvert, RightRequest
<1> QED
  BY <1>2, <1>11 DEF CodecsInvert, NumbersInvert, RepliesInvert

-----------------------------------------------------------------------------
(* Replies: their meta data.                                                *)

LEMMA OverflowedType == (ByteCount + 1) % ByteCount = 1
<1>1. PICK n \in Nat \ {0} : n = ByteCount /\ 2 <= n
  BY CodecsAssumption
<1>2. PICK m \in Int : m = n + 1
  OBVIOUS
<1>3. 1 \in 0 .. n - 1 /\ 1 \in Int /\ m = 1 * n + 1
  BY <1>1, <1>2
<1>4. m % n = 1
  BY <1>3, QuotientIs
<1> QED
  BY <1>1, <1>2, <1>4

LEMMA ReplyInverts == ASSUME Respond PROVE CodecsInvert'
<1>1. PICK p \in Protocols, id \in Words, ts \in Words, payload \in Payloads \cup {NoPayload} :
         /\ given' = [p |-> p, requestId |-> id, timestamp |-> ts, payload |-> payload]
         /\ made' = EncodeResp(p, ByteCount + 1, id, ts, 1, payload)
         /\ got' = GetMeta(made')
  BY DEF Respond
<1>2. job' = "reply"
  BY DEF Respond
<1>3. id \in Int /\ ts \in Int /\ p.cryptor \in BOOLEAN /\ p.signer \in BOOLEAN
      /\ 1 \in Byte /\ Byte \subseteq Int
  BY CodecsAssumption, ByteTyped DEF Protocols
<1>4. PICK t \in Byte : t = 1 /\ t = (ByteCount + 1) % ByteCount
  BY <1>3, OverflowedType
<1>5. PICK m \in Seq(Byte) : m = MetaBytes(t, id, ts) /\ Len(m) = 9
  <2>1. MetaBytes(t, id, ts) \in Seq(Byte)
    BY <1>3, MetaIs
  <2>2. Len(MetaBytes(t, id, ts)) = 9
    BY <1>3, MetaIs
  <2> QED
    BY <2>1, <2>2
<1>6. PICK c \in Seq(Byte) : c = IF p.cryptor THEN Encrypt(Marshal(payload)) ELSE <<>>
  <2>1. CASE p.cryptor
    <3>1. Carried(TRUE, payload) \in Seq(Byte)
      BY CarriedIs
    <3>2. Carried(TRUE, payload) = Encrypt(Marshal(payload))
      BY DEF Carried
    <3> QED
      BY <2>1, <3>1, <3>2
  <2>2. CASE ~p.cryptor
    <3>1. <<>> \in Seq(Byte)
      OBVIOUS
    <3> QED
      BY <2>2, <3>1
  <2> QED
    BY <2>1, <2>2
<1>7. PICK code \in Seq(Byte) : code = <<1>>
  <2>1. <<1>> \in Seq(Byte)
    BY <1>3
  <2> QED
    BY <2>1
<1>8. PICK head \in Seq(Byte) : head = m \o code /\ Joins(m, code, head, Byte)
  <2>1. Joins(m, code, m \o code, Byte)
    BY Joined
  <2>2. m \o code \in Seq(Byte)
    BY <2>1 DEF Joins
  <2> QED
    BY <2>1, <2>2
<1>9. PICK out \in Seq(Byte) : out = head \o c /\ Joins(head, c, out, Byte)
  <2>1. Joins(head, c, head \o c, Byte)
    BY Joined
  <2>2. head \o c \in Seq(Byte)
    BY <2>1 DEF Joins
  <2> QED
    BY <2>1, <2>2
<1>10. Len(out) >= 9 /\ \A k \in 1 .. 9 : out[k] = m[k]
  <2>1. Len(head) >= 9 /\ \A k \in 1 .. 9 : head[k] = m[k]
    BY <1>5, <1>8 DEF Joins
  <2>2. Len(out) >= Len(head) /\ \A k \in 1 .. Len(head) : out[k] = head[k]
    BY <1>9 DEF Joins
  <2>3. \A k \in 1 .. 9 : k \in 1 .. Len(head)
    BY <2>1
  <2> QED
    BY <2>1, <2>2, <2>3
<1>11. PICK w : w = made' /\ w = IF p.signer THEN out \o SignatureOf(out) ELSE out
  BY <1>1, <1>4, <1>5, <1>6, <1>7, <1>8, <1>9, Zenon DEF EncodeResp, MetaBytes
<1>12. w \in Seq(Int) /\ Len(w) >= 9 /\ \A k \in 1 .. 9 : w[k] = m[k]
  <2>1. out \in Seq(Int)
    BY <1>3, SeqWider
  <2>2. CASE p.signer
    <3>1. PICK sig \in Seq(Int) : sig = SignatureOf(out)
      BY <2>1, SignatureIs
    <3>2. w = out \o sig
      BY <1>11, <2>2, <3>1
    <3>3. Joins(out, sig, w, Int)
      BY <2>1, <3>2, Joined
    <3>4. w \in Seq(Int) /\ Len(w) >= Len(out) /\ \A k \in 1 .. Len(out) : w[k] = out[k]
      BY <3>3 DEF Joins
    <3>5. \A k \in 1 .. 9 : k \in 1 .. Len(out)
      BY <1>10
    <3> QED
      BY <1>10, <3>4, <3>5
  <2>3. CASE ~p.signer
    BY <1>10, <1>11, <2>1, <2>3
  <2> QED
    BY <1>3, <2>2, <2>3
<1>13. GetMeta(w) = MetaOf(t, id, ts)
  BY <1>5, <1>12, MetaRead
<1>14. got' = [ok |-> TRUE, msgType |-> 1, requestId |-> id, timestamp |-> ts]
  BY <1>1, <1>4, <1>11, <1>13 DEF MetaOf
<1>15. PICK v : /\ v = given'
                /\ v = [p |-> p, requestId |-> id, timestamp |-> ts, payload |-> payload]
  BY <1>1
<1>16. v.requestId = id /\ v.timestamp = ts
  BY <1>15
<1>17. RepliesInvert'
  BY <1>14, <1>15, <1>16, Zenon DEF RepliesInvert
<1> QED
  BY <1>2, <1>17 DEF CodecsInvert, NumbersInvert, RequestsInvert

-----------------------------------------------------------------------------
LEMMA CodingStep == CodecsInvert /\ [PartsNext]_all => CodecsInvert'
<1> SUFFICES ASSUME CodecsInvert, [PartsNext]_all PROVE CodecsInvert'
  OBVIOUS
<1>1. CASE CodecNext
  BY <1>1, NumberInverts, RequestInverts, ReplyInverts DEF CodecNext
<1>2. CASE UNCHANGED codecVars
  BY <1>2 DEF codecVars, CodecsInvert, NumbersInvert, RequestsInvert, RepliesInvert
<1> QED
  BY <1>1, <1>2 DEF PartsNext, all, Users, Rankings, LogWriters, Collecting, Coding

(* Whatever the words, the bytes, the digits, the payloads, their bytes and *)
(* the length of the signature: decoding gives back what was encoded; a     *)
(* request that was cut off is refused if it was signed, and otherwise      *)
(* nothing is made up: its meta data is right and its payload is one whose  *)
(* bytes begin those that were sent.                                        *)
THEOREM DecodingInverts == PartsSpec => []CodecsInvert
<1>1. PartsInit => CodecsInvert
  BY DEF PartsInit, CodecInit, CodecsInvert, NumbersInvert, RequestsInvert, RepliesInvert
<1> QED
  BY <1>1, CodingStep, PTL DEF PartsSpec
=============================================================================
