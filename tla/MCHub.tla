-------------------------------- MODULE MCHub --------------------------------
(* Instances of Hub for TLC: the lines of one user, each with its own id.   *)
EXTENDS Hub

CONSTANTS l1, l2, u1, s1, s2

OneLine  == {l1}
TwoLines == {l1, l2}

OneUserOf1 == [l \in OneLine |-> u1]
OneUserOf2 == [l \in TwoLines |-> u1]

OwnIds1 == [l \in OneLine |-> l]
OwnIds2 == [l \in TwoLines |-> l]

=============================================================================
