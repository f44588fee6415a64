------------------------------- MODULE MCParts --------------------------------
(***************************************************************************)
(* Parts that do not interact, for TLC: UserCache, Ranking, LogWriter,     *)
(* Collections or Codecs, one of them from the first state on.  The counts *)
(* of score ranges, which nothing else in Ranking reads or changes, are a  *)
(* part of their own.                                                      *)
(***************************************************************************)
EXTENDS UserCache, Ranking, LogWriter, Collections, Codecs, TLC

VARIABLE which

all == <<which, userVars, rankVars, logVars, collVars, codecVars>>

(* Two increments of one member, one below 0, one of another, and an        *)
(* UpdateScore: members 1, 2 and 3 can have the same points.                *)
MCAsked ==
    <<[member |-> 1, points |-> 1, add |-> FALSE], [member |-> 2, points |-> 1, add |-> FALSE],
      [member |-> 3, points |-> 1, add |-> TRUE], [member |-> 1, points |-> -2, add |-> FALSE]>>
MCWords == {-128, -1, 0, 77}
(* The first payload is what the second one begins with; the third one cut  *)
(* off after a byte or two is none.                                         *)
MCMarshalled == [q \in Payloads |-> CASE q = "12" -> <<1, 2>> [] q = "123" -> <<1, 2, 3>>
                                       [] OTHER -> <<0, 1, 0>>]
MCBounds == <<4, 2, 0>>

MCSymmetry == Permutations(Readers) \cup Permutations(Logins) \cup Permutations(Ips)

PartsInit ==
    /\ which \in {"users", "ranking", "ranges", "logs", "collections", "codecs"}
    /\ UserInit /\ RankInit /\ LogInit /\ CollInit /\ CodecInit

Users(A) == which = "users" /\ A
              /\ UNCHANGED <<which, rankVars, logVars, collVars, codecVars>>
Rankings(part, A) == which = part /\ A
              /\ UNCHANGED <<which, userVars, logVars, collVars, codecVars>>
LogWriters(A) == which = "logs" /\ A
              /\ UNCHANGED <<which, userVars, rankVars, collVars, codecVars>>
Collecting(A) == which = "collections" /\ A
              /\ UNCHANGED <<which, userVars, rankVars, logVars, codecVars>>
Coding(A) == which = "codecs" /\ A
              /\ UNCHANGED <<which, userVars, rankVars, logVars, collVars>>

PartsNext ==
    \/ Users(UserNext) \/ Rankings("ranking", RankChange) \/ Rankings("ranges", FuzzySet)
    \/ LogWriters(LogNext)
    \/ Collecting(CollNext) \/ Coding(CodecNext)

PartsSpec == PartsInit /\ [][PartsNext]_all
=============================================================================
