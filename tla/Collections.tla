----------------------------- MODULE Collections ------------------------------
(***************************************************************************)
(* pkg/collection: FastQueue and FastStack, linked lists behind a lock,    *)
(* and Set, a map behind a lock.  Every method holds the lock throughout,  *)
(* so each is one step.  Nodes are numbers, Nil is no node.                *)
(***************************************************************************)
EXTENDS Naturals, Sequences

CONSTANTS
    Values,
    MaxNodes        \* bound: nodes allocated

ASSUME CollectionsAssumption == MaxNodes \in Nat

Nil == 0
Nodes == 1 .. MaxNodes

VARIABLES
    value, next,        \* the fields of the nodes
    used,               \* nodes allocated so far
    first, last, size,  \* FastQueue
    top, height,        \* FastStack, height is its size
    underlying,         \* Set
    inQueue, onStack,   \* history: what the queue and the stack should hold,
                        \* each value with the node made for it
    popped              \* history: what Out or Pop returned, and should have

collVars == <<value, next, used, first, last, size, top, height, underlying,
              inQueue, onStack, popped>>

CollInit ==
    /\ value = [n \in Nodes |-> Nil] /\ next = [n \in Nodes |-> Nil]
    /\ used = 0
    /\ first = Nil /\ last = Nil /\ size = 0
    /\ top = Nil /\ height = 0
    /\ underlying = {}
    /\ inQueue = <<>> /\ onStack = <<>>
    /\ popped = <<Nil, Nil>>

queueVars == <<first, last, size, inQueue>>
stackVars == <<top, height, onStack>>

(* The node of the k-th of some new values, and the values with their nodes. *)
Allocated(k) == used + k

Entered(vals) == [k \in DOMAIN vals |-> [node |-> Allocated(k), value |-> vals[k]]]

Fits(vals) == used + Len(vals) <= MaxNodes

-----------------------------------------------------------------------------
(* FastQueue.                                                               *)
In(vals) ==
    /\ Fits(vals)
    /\ LET new == {Allocated(k) : k \in DOMAIN vals} IN
       /\ value' = [n \in Nodes |-> IF n \in new THEN vals[n - used] ELSE value[n]]
       /\ next' = [n \in Nodes |->
                     IF n \in new THEN IF n - used < Len(vals) THEN n + 1 ELSE Nil
                     ELSE IF n = last THEN Allocated(1) ELSE next[n]]
    /\ used' = used + Len(vals)
    /\ last' = Allocated(Len(vals))
    /\ first' = IF first = Nil THEN Allocated(1) ELSE first
    /\ size' = size + Len(vals)
    /\ inQueue' = inQueue \o Entered(vals)
    /\ UNCHANGED <<stackVars, underlying, popped>>

(* Mutant: last is reset with the node that is taken out.                   *)
OutResetsLast ==
    /\ first # Nil
    /\ popped' = <<value[first], Head(inQueue).value>>
    /\ first' = next[first]
    /\ last' = Nil
    /\ size' = size - 1
    /\ inQueue' = Tail(inQueue)
    /\ UNCHANGED <<value, next, used, stackVars, underlying>>

(* The last node taken out stays behind in last.                            *)
Out ==
    /\ first # Nil
    /\ popped' = <<value[first], Head(inQueue).value>>
    /\ first' = next[first]
    /\ size' = size - 1
    /\ inQueue' = Tail(inQueue)
    /\ UNCHANGED <<value, next, used, last, stackVars, underlying>>

ClearQueue ==
    /\ first' = Nil /\ last' = Nil /\ size' = 0
    /\ inQueue' = <<>>
    /\ UNCHANGED <<value, next, used, stackVars, underlying, popped>>

-----------------------------------------------------------------------------
(* FastStack.                                                               *)
Push(vals) ==
    /\ Fits(vals)
    /\ LET new == {Allocated(k) : k \in DOMAIN vals} IN
       /\ value' = [n \in Nodes |-> IF n \in new THEN vals[n - used] ELSE value[n]]
       /\ next' = [n \in Nodes |->
                     IF n \in new THEN IF n = Allocated(1) THEN top ELSE n - 1
                     ELSE next[n]]
    /\ used' = used + Len(vals)
    /\ top' = Allocated(Len(vals))
    /\ height' = height + Len(vals)
    /\ onStack' = onStack \o Entered(vals)
    /\ UNCHANGED <<queueVars, underlying, popped>>

(* Pop; Peek is its answer without the rest.                                *)
Pop ==
    /\ top # Nil
    /\ popped' = <<value[top], onStack[Len(onStack)].value>>
    /\ top' = next[top]
    /\ height' = height - 1
    /\ onStack' = SubSeq(onStack, 1, Len(onStack) - 1)
    /\ UNCHANGED <<value, next, used, queueVars, underlying>>

ClearStack ==
    /\ top' = Nil /\ height' = 0
    /\ onStack' = <<>>
    /\ UNCHANGED <<value, next, used, queueVars, underlying, popped>>

-----------------------------------------------------------------------------
(* Set: Add and Remove, and Clear as the removal of everything.             *)
SetChange ==
    /\ \/ \E items \in SUBSET Values : underlying' = underlying \cup items
       \/ \E items \in SUBSET Values : underlying' = underlying \ items
    /\ UNCHANGED <<value, next, used, queueVars, stackVars, popped>>

CollNext ==
    \/ \E vals \in {<<v>> : v \in Values} \cup (Values \X Values) : In(vals) \/ Push(vals)
    \/ Out \/ ClearQueue \/ Pop \/ ClearStack \/ SetChange

-----------------------------------------------------------------------------
(* From first, next leads through the nodes of inQueue and ends.            *)
QueueLinked ==
    /\ first = IF inQueue = <<>> THEN Nil ELSE inQueue[1].node
    /\ \A k \in DOMAIN inQueue :
          /\ value[inQueue[k].node] = inQueue[k].value
          /\ next[inQueue[k].node] = IF k = Len(inQueue) THEN Nil ELSE inQueue[k + 1].node

(* From top, next leads through the nodes of onStack, the last one first.   *)
StackLinked ==
    /\ top = IF onStack = <<>> THEN Nil ELSE onStack[Len(onStack)].node
    /\ \A k \in DOMAIN onStack :
          /\ value[onStack[k].node] = onStack[k].value
          /\ next[onStack[k].node] = IF k = 1 THEN Nil ELSE onStack[k - 1].node

(* The nodes of the queue from first and of the stack from top hold just    *)
(* the values put in and not taken out, in the order of a queue and of a    *)
(* stack, size counts them, and what was taken out was the right value; the *)
(* node that Out leaves behind in last does no harm.                        *)
ListsAreExact ==
    /\ QueueLinked /\ size = Len(inQueue)
    /\ StackLinked /\ height = Len(onStack)
    /\ popped[1] = popped[2]
=============================================================================
