----------------------------- MODULE AbstractLock -----------------------------
(***************************************************************************)
(* What the distributed locks of pkg/distribute promise: the lock belongs  *)
(* to at most one caller, only the caller it belongs to is inside, and it  *)
(* is not taken from a caller that is inside.                              *)
(***************************************************************************)
CONSTANTS Callers, None

VARIABLES
    owner,      \* the caller the lock belongs to
    inside      \* the callers that rely on the lock

lockVars == <<owner, inside>>

LockInit == owner = None /\ inside = {}

(* The lock passes to a caller or to nobody, not while its owner is inside. *)
Pass ==
    /\ owner \notin inside
    /\ owner' \in Callers \cup {None}
    /\ UNCHANGED inside

Enter(c) == owner = c /\ inside' = inside \cup {c} /\ UNCHANGED owner

Leave(c) == c \in inside /\ inside' = inside \ {c} /\ UNCHANGED owner

LockNext == Pass \/ \E c \in Callers : Enter(c) \/ Leave(c)
=============================================================================
