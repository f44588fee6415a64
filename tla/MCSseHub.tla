------------------------------- MODULE MCSseHub -------------------------------
(* An instance of SseHub for TLC: two lines of one user, with the same id.  *)
EXTENDS SseHub

CONSTANTS u1

MCIdOf == [l \in Lines |-> 1]
MCUserOf == [l \in Lines |-> u1]
=============================================================================
