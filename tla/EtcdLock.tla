------------------------------- MODULE EtcdLock -------------------------------
(***************************************************************************)
(* pkg/distribute/etcdlock.go: a lock is a session, whose lease the etcd   *)
(* client keeps alive, and a key under that lease; of the callers' keys    *)
(* the one created first, by its create revision, has the lock.  Each      *)
(* caller locks once; the callers of a process share its EtcdLocker.       *)
(* Keep-alives get through: a lease lapses only when nobody renews it.     *)
(***************************************************************************)
EXTENDS Naturals

CONSTANTS
    EtcdCallers,
    ProcOf,         \* the process of a caller
    EtcdFaults      \* bound: commands that fail

VARIABLES
    revision,   \* etcd: the create revision of each caller's key, 0 if there is none
    lastRevision,   \* etcd: the revision of the key created last
    lease,      \* etcd: the callers whose lease has neither lapsed nor been revoked
    renewed,    \* the callers whose session keeps its lease alive
    pc,         \* where each caller is
    down,       \* the processes whose client was closed or that crashed
    etcdFaults

etcdVars == <<revision, lastRevision, lease, renewed, pc, down, etcdFaults>>

Procs == {ProcOf[c] : c \in EtcdCallers}

EtcdInit ==
    /\ revision = [c \in EtcdCallers |-> 0] /\ lastRevision = 0
    /\ lease = {} /\ renewed = {}
    /\ pc = [c \in EtcdCallers |-> "idle"]
    /\ down = {}
    /\ etcdFaults = 0

Go(c, at) == pc' = [pc EXCEPT ![c] = at]

Put(c) ==
    /\ lastRevision' = lastRevision + 1
    /\ revision' = [revision EXCEPT ![c] = lastRevision']

Delete(c) == revision' = [revision EXCEPT ![c] = 0] /\ UNCHANGED lastRevision

keys == <<revision, lastRevision>>

(* The key of the caller is the oldest.                                     *)
Oldest(c) ==
    /\ revision[c] # 0
    /\ \A d \in EtcdCallers : revision[d] # 0 => revision[c] <= revision[d]

(* External: a command fails, on a closed client always.                    *)
Fails(c) ==
    \/ ProcOf[c] \in down /\ UNCHANGED etcdFaults
    \/ etcdFaults < EtcdFaults /\ etcdFaults' = etcdFaults + 1

Works(c) == ProcOf[c] \notin down /\ UNCHANGED etcdFaults

-----------------------------------------------------------------------------
NewSession(c) ==
    /\ pc[c] = "idle"
    /\ \/ /\ Works(c)
          /\ lease' = lease \cup {c} /\ renewed' = renewed \cup {c}
          /\ Go(c, "put")
       \/ /\ Fails(c)
          /\ Go(c, "failed")
          /\ UNCHANGED <<lease, renewed>>
    /\ UNCHANGED <<keys, down>>

(* mutex.Lock creates the key, waits until it is the oldest, and on an      *)
(* error or the timeout tries to delete it; Lock then closes the session.   *)
CreateKey(c) ==
    /\ pc[c] = "put"
    /\ \/ Works(c) /\ Put(c) /\ Go(c, "wait")
       \/ Fails(c) /\ (Put(c) \/ UNCHANGED keys) /\ Go(c, "close")
    /\ UNCHANGED <<lease, renewed, down>>

Acquired(c) ==
    /\ pc[c] = "wait"
    /\ Oldest(c)
    /\ Works(c)
    /\ Go(c, "held")
    /\ UNCHANGED <<keys, lease, renewed, down>>

(* Mutant: the error of mutex.Lock is not looked at.                        *)
LockTimeoutIgnored(c) ==
    /\ pc[c] = "wait"
    /\ \/ Works(c) /\ Delete(c)
       \/ Fails(c) /\ UNCHANGED keys
    /\ Go(c, "held")
    /\ UNCHANGED <<lease, renewed, down>>

LockTimeout(c) ==
    /\ pc[c] = "wait"
    /\ \/ Works(c) /\ Delete(c)
       \/ Fails(c) /\ UNCHANGED keys
    /\ Go(c, "close")
    /\ UNCHANGED <<lease, renewed, down>>

(* Mutant: the session of a failed Lock is left open.                       *)
CloseFailedNot(c) ==
    /\ pc[c] = "close"
    /\ Go(c, "failed")
    /\ UNCHANGED <<keys, lease, renewed, down, etcdFaults>>

(* session.Close() ends the renewal, then revokes the lease with its key.   *)
Revoke(c) ==
    /\ renewed' = renewed \ {c}
    /\ \/ Works(c) /\ lease' = lease \ {c} /\ Delete(c)
       \/ Fails(c) /\ UNCHANGED <<lease, keys>>
    /\ UNCHANGED down

CloseFailed(c) == pc[c] = "close" /\ Revoke(c) /\ Go(c, "failed")

-----------------------------------------------------------------------------
(* mutex.Unlock deletes the key.  When it fails the session stays open, its *)
(* lease is renewed, and the lock has forgotten both.                       *)
UnlockKey(c) ==
    /\ pc[c] = "leaving"
    /\ \/ Works(c) /\ Delete(c) /\ Go(c, "session")
       \/ Fails(c) /\ (Delete(c) \/ UNCHANGED keys) /\ Go(c, "stuck")
    /\ UNCHANGED <<lease, renewed, down>>

EtcdUnlock(c) ==
    /\ pc[c] = "held"
    /\ Go(c, "leaving")
    /\ UNCHANGED <<keys, lease, renewed, down, etcdFaults>>

UnlockSession(c) == pc[c] = "session" /\ Revoke(c) /\ Go(c, "unlocked")

(* EtcdLocker.Close waits for the calls of Lock, which hold localMut, and   *)
(* closes the client, so that nothing renews the leases of its sessions.    *)
(* It is left to the application to do so with no lock held.                *)
Stopped(p) ==
    /\ down' = down \cup {p}
    /\ renewed' = {c \in renewed : ProcOf[c] # p}

EtcdClose(p) ==
    /\ p \notin down
    /\ \A c \in EtcdCallers : ProcOf[c] = p => pc[c] \notin {"put", "wait", "close", "held"}
    /\ Stopped(p)
    /\ UNCHANGED <<keys, lease, pc, etcdFaults>>

(* External: the process crashes.                                           *)
EtcdCrash(p) ==
    /\ p \notin down
    /\ Stopped(p)
    /\ pc' = [c \in EtcdCallers |-> IF ProcOf[c] = p THEN "crashed" ELSE pc[c]]
    /\ UNCHANGED <<keys, lease, etcdFaults>>

(* External: a lease nobody renews lapses, and its key with it.             *)
Lapse(c) ==
    /\ c \in lease \ renewed
    /\ lease' = lease \ {c}
    /\ Delete(c)
    /\ UNCHANGED <<renewed, pc, down, etcdFaults>>

EtcdWork(c) ==
    \/ CreateKey(c) \/ Acquired(c) \/ LockTimeout(c) \/ CloseFailed(c)
    \/ UnlockKey(c) \/ UnlockSession(c)

EtcdNext ==
    \/ \E c \in EtcdCallers : NewSession(c) \/ EtcdUnlock(c) \/ EtcdWork(c) \/ Lapse(c)
    \/ \E p \in Procs : EtcdClose(p) \/ EtcdCrash(p)

EtcdFair == \A c \in EtcdCallers : WF_etcdVars(EtcdWork(c)) /\ WF_etcdVars(Lapse(c))

-----------------------------------------------------------------------------
EtcdInside == {c \in EtcdCallers : pc[c] = "held"}

(* Once Lock has failed, Unlock has succeeded or the process has crashed,   *)
(* the caller's key goes away, whichever of its commands failed: a closed   *)
(* session is not renewed.  (After an Unlock that failed it may stay.)      *)
KeyGoesAway ==
    \A c \in EtcdCallers :
        pc[c] \in {"failed", "unlocked", "crashed"} ~> revision[c] = 0
=============================================================================
