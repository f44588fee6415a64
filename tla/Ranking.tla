------------------------------- MODULE Ranking --------------------------------
(***************************************************************************)
(* pkg/services/ranking.go: a ranking kept in a sorted set of Redis.  A    *)
(* change reads the clock in the caller's process and then sends a script, *)
(* which the network may delay, lose or deliver again; callers repeat a    *)
(* request they have no answer to under the same request id.  The other    *)
(* calls are a script or a command each.  All clocks show the same second. *)
(*                                                                         *)
(* A score is the number of points and a fraction that decreases with time *)
(* (Frac), so that of two equals the earlier one should be ahead.          *)
(***************************************************************************)
EXTENDS Integers, Sequences, FiniteSets, FiniteSetsExt, SequencesExt

CONSTANTS
    Members,        \* numbers; Redis orders equal scores by member
    Requests,       \* request ids
    Asked,          \* what a request asks: member, points, whether it is an
                    \* UpdateScore (or an Increment)
    Future,         \* seconds until rankingTimeFuture, when the model starts
    LastSecond,     \* bound: seconds that pass
    IdempotentSecs, \* idempotentExpSecs
    MaxCalls,       \* bound: calls altogether
    Sizes, Batches, \* arguments of Truncate
    FuzzyBounds,    \* the bounds of the score ranges, descending
    FuzzyCounts     \* counts of a range

(* The times until rankingTimeFuture have at most nine digits.              *)
Billion == 1000000000

ASSUME RankingAssumption ==
    /\ Members \subseteq Int /\ IsFiniteSet(Members)
    /\ Asked \in [Requests -> [member : Members, points : Int, add : BOOLEAN]]
    /\ Future \in Nat /\ Future < Billion /\ LastSecond \in Nat /\ IdempotentSecs \in Nat
    /\ Sizes \subseteq Nat /\ Batches \subseteq Int
    /\ FuzzyBounds \in Seq(Int) /\ FuzzyCounts \subseteq Nat
    /\ \A j, k \in 1 .. Len(FuzzyBounds) : j < k => FuzzyBounds[j] > FuzzyBounds[k]

VARIABLES
    second,     \* external: seconds since the start
    board,      \* Redis: the score of each member that is ranked
    seen,       \* Redis: when the idempotency key of a request expires, 0 if unset
    fuzzy,      \* Redis: the count of each range, by the number of the range
    stamps,     \* callers: when the calls of each request read the clock
    truncating, \* Truncate in progress: its arguments
    credit,     \* history: the requests that made up the points of a member
    reached     \* history: the call that gave a member its points: when it read
                \* the clock (asked), and when its script ran (at)

rankVars == <<second, board, seen, fuzzy, stamps, truncating, credit, reached>>

NoTruncate == [size |-> 0, batch |-> 0, on |-> FALSE]

RankInit ==
    /\ second = 0
    /\ board = <<>>
    /\ seen = [q \in Requests |-> 0]
    /\ fuzzy = <<>>
    /\ stamps = [q \in Requests |-> {}]
    /\ truncating = NoTruncate
    /\ credit = [m \in Members |-> {}]
    /\ reached = [m \in Members |-> [asked |-> 0, at |-> 0]]

-----------------------------------------------------------------------------
(* Mutant: the fraction grows with time.                                    *)
FracGrowing(t) == Billion - t

Tens == {10, 100, 1000, 10000, 100000, 1000000, 10000000, 100000000, Billion}

(* The power of ten above t: as many noughts as t has digits.               *)
Above(t) == CHOOSE p \in Tens : t < p /\ \A r \in Tens : t < r => p <= r

(* fmt.Sprintf("0.%d", timestamp) read as a number, in billionths: the      *)
(* digits are put behind the point, however many there are.                 *)
Frac(t) == t * (Billion \div Above(t))

Score(points, stamp) == [points |-> points, frac |-> Frac(Future - stamp)]

Ahead(m, n) ==
    LET a == board[m]
        b == board[n]
    IN  \/ a.points > b.points
        \/ a.points = b.points /\ a.frac > b.frac
        \/ a.points = b.points /\ a.frac = b.frac /\ m > n

(* Who has a score from 0 on: the fraction is below 1.                      *)
Paged == {m \in DOMAIN board : board[m].points >= 0}

(* ZRANGE BYSCORE REV from 0 on: the highest score first.                   *)
Ranked ==
    CHOOSE s \in [1 .. Cardinality(Paged) -> Paged] :
        \A i, j \in DOMAIN s : i < j => Ahead(s[i], s[j])

Rank(m) ==
    IF m \in DOMAIN board THEN Cardinality({n \in DOMAIN board : Ahead(n, m)}) ELSE -1

Paginate(offset, limit) == SubSeq(Ranked, offset + 1, Min({offset + limit, Len(Ranked)}))

-----------------------------------------------------------------------------
With(m, score) == [k \in DOMAIN board \cup {m} |-> IF k = m THEN score ELSE board[k]]

(* Mutant: the key is not set, only looked at.                              *)
NewRequestKeyUnset(q) == seen[q] <= second /\ UNCHANGED seen

(* SET key NX EX: the key is set for some time if it was not.               *)
NewRequestKey(q) ==
    /\ seen[q] <= second
    /\ seen' = [seen EXCEPT ![q] = second + IdempotentSecs]

PointsOf(m) == IF m \in DOMAIN board THEN board[m].points ELSE 0

(* luaIncr and luaAdd: nothing is done for a request that was seen.         *)
Scripted(q, points, stamp) ==
    LET m == Asked[q].member IN
    \/ /\ NewRequestKey(q)
       /\ board' = With(m, Score(points, stamp))
       /\ credit' = [credit EXCEPT ![m] = IF Asked[q].add THEN {q}
                        ELSE IF m \in DOMAIN board THEN @ \cup {q} ELSE {q}]
       /\ reached' = [reached EXCEPT ![m] = [asked |-> stamp, at |-> second]]
    \/ seen[q] > second /\ UNCHANGED <<seen, board, credit, reached>>

luaIncr(q, stamp) ==
    Scripted(q, PointsOf(Asked[q].member) + Asked[q].points, stamp)

luaAdd(q, stamp) == Scripted(q, Asked[q].points, stamp)

(* The key of a request lives for some time from when its script runs: it   *)
(* lives for as long after the first call, if a script ran by then.         *)
WhileKeyLives(q) == \A s \in stamps[q] : second < s + IdempotentSecs

(* Increment or UpdateScore begins, for the first time or, if the caller    *)
(* had no answer, again: it reads the clock.  After rankingTimeFuture it    *)
(* fails, as a minus behind the point is no number.                         *)
Call(q) ==
    /\ second <= Future
    /\ MapThenSumSet(LAMBDA r : Cardinality(stamps[r]), Requests) < MaxCalls
    /\ WhileKeyLives(q)
    /\ stamps' = [stamps EXCEPT ![q] = @ \cup {second}]
    /\ UNCHANGED <<second, board, seen, fuzzy, truncating, credit, reached>>

(* Eval: the script of a call that was made arrives, at some time, perhaps  *)
(* again or never.  That it does not arrive after the life of the key,      *)
(* where it would count again, is what the callers rely on.                 *)
Eval(q) ==
    /\ WhileKeyLives(q)
    /\ \E stamp \in stamps[q] : IF Asked[q].add THEN luaAdd(q, stamp) ELSE luaIncr(q, stamp)
    /\ UNCHANGED <<second, fuzzy, stamps, truncating>>

-----------------------------------------------------------------------------
(* The members from the rank size on, count of them, all if it is negative. *)
Elements(size, count) ==
    {m \in DOMAIN board : Rank(m) >= size /\ (count < 0 \/ Rank(m) < size + count)}

(* Mutant: the offset is one too low.                                       *)
luaTruncateOneMore(size, count) ==
    board' = [m \in DOMAIN board \ Elements(size - 1, count) |-> board[m]]

luaTruncate(size, count) ==
    board' = [m \in DOMAIN board \ Elements(size, count) |-> board[m]]

(* Truncate starts; TruncateAll is one script with the count -1.            *)
Truncate ==
    /\ ~truncating.on
    /\ \E s \in Sizes, b \in Batches \cup {-1} :
       truncating' = [size |-> s, batch |-> b, on |-> TRUE]
    /\ UNCHANGED <<second, board, seen, fuzzy, stamps, credit, reached>>

(* One batch.  A batch size that is not positive ends the loop at once, and *)
(* so does a batch that removed nothing.                                    *)
TruncateBatch ==
    /\ truncating.on
    /\ luaTruncate(truncating.size, truncating.batch)
    /\ truncating' = IF truncating.batch <= 0 \/ board' = board THEN NoTruncate ELSE truncating
    /\ UNCHANGED <<second, seen, fuzzy, stamps, credit, reached>>

-----------------------------------------------------------------------------
Ranges == 1 .. Len(FuzzyBounds) - 1

(* HMSet of the count of every range.                                       *)
FuzzySet ==
    /\ fuzzy' \in [Ranges -> FuzzyCounts]
    /\ UNCHANGED <<second, board, seen, stamps, truncating, credit, reached>>

RangeStart(k) == FuzzyBounds[k + 1]
RangeEnd(k) == FuzzyBounds[k]

OwnRange(score) == {k \in Ranges : RangeStart(k) <= score /\ score < RangeEnd(k)}

(* The ranges from the highest to the one of the score: the counts of those *)
(* above, and the share of its own range, which rounds to 0, or to 1 at the *)
(* start of the range.                                                      *)
FuzzyAbove(score) ==
    LET own == OwnRange(score)
        ahead == IF own = {} THEN Ranges ELSE {k \in Ranges : \E o \in own : k < o}
    IN  MapThenSumSet(LAMBDA k : fuzzy[k], ahead)
        + MapThenSumSet(LAMBDA k : (RangeEnd(k) - score) \div (RangeEnd(k) - RangeStart(k)), own)

FuzzyRank(m, score, accurate) ==
    CASE Rank(m) \in 0 .. accurate - 1 -> Rank(m)
      [] fuzzy = <<>> -> -1
      [] OTHER -> FuzzyAbove(score)

(* External: time.                                                          *)
RankTick ==
    /\ second < LastSecond
    /\ second' = second + 1
    /\ UNCHANGED <<board, seen, fuzzy, stamps, truncating, credit, reached>>

RankChange ==
    \/ RankTick \/ Truncate \/ TruncateBatch
    \/ \E q \in Requests : Call(q) \/ Eval(q)

RankNext == RankChange \/ FuzzySet

-----------------------------------------------------------------------------
(* However often a request is repeated while its key lives, its points are  *)
(* given once: a ranked member has the points of the requests made since it *)
(* was set by UpdateScore or removed by Truncate, each counted once.        *)
CountedOnce ==
    \A m \in DOMAIN board :
        board[m].points = MapThenSumSet(LAMBDA q : Asked[q].points, credit[m])

(* Of two members with the same points the one that had them before the     *)
(* other's call began is ahead, however long scripts were on their way and  *)
(* whoever Truncate removed in between.  Calls that overlap come in the     *)
(* order of their clocks.  The times that remained had the same number of   *)
(* digits: Increment and UpdateScore order no others.                       *)
EarlierAhead ==
    \A m, n \in DOMAIN board :
        /\ board[m].points = board[n].points
        /\ reached[m].at < reached[n].asked
        /\ Above(Future - reached[m].asked) = Above(Future - reached[n].asked)
        => Rank(m) < Rank(n)

(* The pages of Paginate, here of two members, follow the rank, and who has *)
(* points below 0 is on none.                                               *)
PagesFollowRank ==
    \A offset \in 0 .. Cardinality(DOMAIN board) :
        LET page == Paginate(offset, 2) IN
        \A k \in DOMAIN page : Rank(page[k]) = offset + k - 1 /\ board[page[k]].points >= 0

(* A lower score never has the better fuzzy rank than a score whose range   *)
(* has a member, such as the score of a member that FuzzySet counted, for   *)
(* scores below the end of the highest range.                               *)
FuzzyMonotone ==
    fuzzy # <<>> =>
        \A s, t \in FuzzyBounds[Len(FuzzyBounds)] - 1 .. FuzzyBounds[1] - 1 :
            s < t /\ (\A k \in OwnRange(t) : fuzzy[k] > 0)
                => FuzzyRank(0, t, 0) <= FuzzyRank(0, s, 0)

(* Every way of asking for a rank agrees with the points, and among equals  *)
(* with who had them first: Rank, Paginate and the estimate from ranges.    *)
RanksAgree == EarlierAhead /\ PagesFollowRank /\ FuzzyMonotone

(* Truncate removes nobody of the first size ranks, whatever is updated     *)
(* between its batches, and in batches it goes on until no more are left.   *)
TruncateKeepsTop ==
    [][/\ \A m \in DOMAIN board \ DOMAIN board' : truncating.on /\ Rank(m) >= truncating.size
       /\ truncating.on /\ ~truncating'.on /\ truncating.batch # 0
             => Cardinality(DOMAIN board') <= truncating.size]_rankVars
=============================================================================
