---------------------------- MODULE MCRedisQueue -----------------------------
(* Instances of RedisQueue for TLC. *)
EXTENDS RedisQueue

CONSTANTS s1, s2, n1, n2, n3

OneSub  == {s1}
TwoSubs == {s1, s2}

OneName  == [s \in OneSub |-> n1]
TwoNames == [s \in TwoSubs |-> IF s = s1 THEN n1 ELSE n2]

=============================================================================
