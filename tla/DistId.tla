------------------------------- MODULE DistId ---------------------------------
(***************************************************************************)
(* pkg/distribute/id.go: ids from a counter in Redis, shared by processes  *)
(* that each have an Id with a generator per key.  One key; every process  *)
(* may ask for a different start.                                          *)
(***************************************************************************)
EXTENDS Integers, Sequences

CONSTANTS
    Processes,
    Starts,         \* start of NewGenerator
    MaxIds,         \* bound: calls of Next
    IdFaults        \* bound: commands that fail

StartsFit == Starts \subseteq Int

VARIABLES
    exists,     \* Redis: does the key exist?
    counter,    \* Redis: its value
    generator,  \* the processes with a generator for the key
    open,       \* the processes whose client is open
    idLog,      \* history: the ids returned, in order
    idFaults

idVars == <<exists, counter, generator, open, idLog, idFaults>>

IdInit ==
    /\ exists = FALSE /\ counter = 0
    /\ generator = {}
    /\ open = Processes
    /\ idLog = <<>>
    /\ idFaults = 0

(* External: a command fails; one that failed may have been executed.       *)
Fault == idFaults < IdFaults /\ idFaults' = idFaults + 1

(* Mutant: init sets the key whether or not it exists.                      *)
SetNXAlways(start) == exists' = TRUE /\ counter' = start

SetNX(start) == exists' = TRUE /\ counter' = IF exists THEN counter ELSE start

NewGenerator(p) ==
    /\ p \in open \ generator
    /\ \E start \in Starts :
       \/ /\ SetNX(start)
          /\ generator' = generator \cup {p}
          /\ UNCHANGED idFaults
       \/ /\ Fault
          /\ SetNX(start) \/ UNCHANGED <<exists, counter>>
          /\ UNCHANGED generator
    /\ UNCHANGED <<open, idLog>>

(* INCRBY; a caller may keep its generator after Close, which clears the map. *)
Next(p) ==
    /\ p \in generator \cap open
    /\ counter < MaxIds
    /\ \/ /\ counter' = counter + 1
          /\ idLog' = Append(idLog, counter')
          /\ UNCHANGED idFaults
       \/ /\ Fault
          /\ counter' \in {counter, counter + 1}
          /\ UNCHANGED idLog
    /\ UNCHANGED <<exists, generator, open>>

Close(p) ==
    /\ p \in open
    /\ open' = open \ {p}
    /\ generator' = generator \ {p}
    /\ UNCHANGED <<exists, counter, idLog, idFaults>>

(* External: the process is started again.                                  *)
Restart(p) ==
    /\ p \notin open
    /\ open' = open \cup {p}
    /\ UNCHANGED <<exists, counter, generator, idLog, idFaults>>

IdNext == \E p \in Processes : NewGenerator(p) \/ Next(p) \/ Close(p) \/ Restart(p)

-----------------------------------------------------------------------------
(* No id is returned twice and they increase, in every process together,    *)
(* whoever creates a generator again or with another start, whichever       *)
(* commands fail or are executed without an answer.                         *)
IdsIncrease == \A i, j \in DOMAIN idLog : i < j => idLog[i] < idLog[j]
=============================================================================
