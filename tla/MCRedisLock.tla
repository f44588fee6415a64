----------------------------- MODULE MCRedisLock -----------------------------
(* Instances of RedisLock for TLC. *)
EXTENDS RedisLock, TLC

CONSTANTS a, b, c

TwoCallers   == {a, b}
ThreeCallers == {a, b, c}

Symmetric2 == Permutations(TwoCallers)
Symmetric3 == Permutations(ThreeCallers)

(* Each caller has a Locker of its own, named like the caller.              *)
OwnLocker == [p \in TwoCallers |-> p]

=============================================================================
