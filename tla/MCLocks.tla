------------------------------- MODULE MCLocks --------------------------------
(***************************************************************************)
(* RedLock and EtcdLock for TLC, one or the other from the first state on, *)
(* and the proof obligation they share: both implement AbstractLock.       *)
(***************************************************************************)
EXTENDS RedLock, EtcdLock

ASSUME EtcdAssumption == NoCaller \notin EtcdCallers

VARIABLE which

vars == <<which, redVars, etcdVars>>

Init == which \in {"red", "etcd"} /\ RedInit /\ EtcdInit

Next ==
    \/ which = "red" /\ RedNext /\ UNCHANGED <<which, etcdVars>>
    \/ which = "etcd" /\ EtcdNext /\ UNCHANGED <<which, redVars>>

Spec == Init /\ [][Next]_vars /\ EtcdFair

MCProcOf == [c \in EtcdCallers |-> IF c = 3 THEN 2 ELSE 1]

RedAbstract == INSTANCE AbstractLock WITH
    Callers <- RedCallers, None <- NoCaller, owner <- key.by, inside <- RedInside

EtcdOwner ==
    IF \E c \in EtcdCallers : Oldest(c) THEN CHOOSE c \in EtcdCallers : Oldest(c) ELSE NoCaller

EtcdAbstract == INSTANCE AbstractLock WITH
    Callers <- EtcdCallers, None <- NoCaller,
    owner <- EtcdOwner, inside <- EtcdInside

(* The key in Redis and the callers that hold a RedLock, extend it and have *)
(* not been told of a failed extension keep the promise of AbstractLock.    *)
RedImplementsLock == RedAbstract!LockInit /\ [][RedAbstract!LockNext]_(RedAbstract!lockVars)

(* So do the oldest key in etcd and the callers between Lock and Unlock.    *)
EtcdImplementsLock == EtcdAbstract!LockInit /\ [][EtcdAbstract!LockNext]_(EtcdAbstract!lockVars)
=============================================================================
