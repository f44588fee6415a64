------------------------------ MODULE IdsProofs -------------------------------
(***************************************************************************)
(* Proofs about the id generators.                                         *)
(*                                                                         *)
(* First Snowflake, for every set of workers, field widths, horizon and    *)
(* (unless said otherwise) any amount of clock rollback.  Then the ids of  *)
(* a counter in Redis (D), and NewID (S).                                  *)
(***************************************************************************)
EXTENDS MCIds, FiniteSetTheorems, TLAPS

USE SnowflakeAssumption

-----------------------------------------------------------------------------
(* Arithmetic of the id layout.                                             *)

(* Products of naturals are naturals and multiplication by a positive       *)
(* number keeps a gap of one as a gap of that number.                       *)
LEMMA MulGap ==
    ASSUME NEW a \in Nat, NEW b \in Nat, NEW k \in Nat \ {0}, a < b
    PROVE  /\ a * k \in Nat
           /\ b * k \in Nat
           /\ a * k + k <= b * k
<1>1. /\ a * k \in Nat
      /\ b * k \in Nat
  BY SMT
<1>2. PICK d \in Nat : b = a + 1 + d
  BY b - a - 1 \in Nat, b = a + 1 + (b - a - 1), SMT
<1>3. d * k \in Nat
  BY SMT
<1>4. b * k = a * k + k + d * k
  BY <1>2, SMT
<1> QED
  BY <1>1, <1>3, <1>4, SMT

(* What Encode builds from fields in range is a natural number.             *)
LEMMA EncodeNat ==
    ASSUME NEW t \in Nat, NEW w \in Workers, NEW s \in 0 .. (SeqCount - 1)
    PROVE  Encode(t, w, s) \in Nat
<1>1. w \in Nat
  OBVIOUS
<1>2. t * WorkerCount \in Nat
  BY SMT
<1>3. (t * WorkerCount + w) \in Nat
  BY <1>1, <1>2
<1> DEFINE x == t * WorkerCount + w
<1>4. \A y \in Nat : y * SeqCount + s \in Nat
  BY SMT
<1> QED
  BY <1>3, <1>4 DEF Encode

(* Ids of one worker are ordered by time first, whatever their sequence.    *)
LEMMA EncodeLater ==
    ASSUME NEW t \in Nat, NEW u \in Nat, t < u, NEW w \in Workers,
           NEW r \in 0 .. (SeqCount - 1), NEW s \in 0 .. (SeqCount - 1)
    PROVE  Encode(t, w, r) < Encode(u, w, s)
<1> DEFINE x == t * WorkerCount + w
           y == u * WorkerCount + w
<1>1. /\ x \in Nat
      /\ y \in Nat
      /\ x < y
  <2>1. w \in Nat
    OBVIOUS
  <2>2. /\ t * WorkerCount \in Nat
        /\ u * WorkerCount \in Nat
        /\ t * WorkerCount + WorkerCount <= u * WorkerCount
    BY MulGap
  <2> QED
    BY <2>1, <2>2
<1> HIDE DEF x, y
<1>2. /\ x * SeqCount \in Nat
      /\ y * SeqCount \in Nat
      /\ x * SeqCount + SeqCount <= y * SeqCount
  BY <1>1, MulGap
<1>3. x * SeqCount + r < y * SeqCount + s
  BY <1>2
<1> QED
  BY <1>3 DEF Encode, x, y

(* Within one time, ids are ordered by sequence.                            *)
LEMMA EncodeSameTime ==
    ASSUME NEW t \in Nat, NEW w \in Workers,
           NEW r \in 0 .. (SeqCount - 1), NEW s \in 0 .. (SeqCount - 1), r < s
    PROVE  Encode(t, w, r) < Encode(t, w, s)
<1>1. (t * WorkerCount + w) * SeqCount \in Nat
  <2>1. t * WorkerCount + w \in Nat
    BY SMT
  <2>2. \A y \in Nat : y * SeqCount \in Nat
    BY SMT
  <2> QED
    BY <2>1, <2>2
<1> QED
  BY <1>1 DEF Encode

(* Two numbers in base k with equal values have equal leading parts.        *)
LEMMA LeadingPart ==
    ASSUME NEW a \in Nat, NEW b \in Nat, NEW k \in Nat \ {0},
           NEW r \in 0 .. (k - 1), NEW s \in 0 .. (k - 1),
           a * k + r = b * k + s
    PROVE  a = b /\ r = s
<1>1. ~ (a < b)
  <2> SUFFICES ASSUME a < b PROVE FALSE
    OBVIOUS
  <2>1. /\ a * k \in Nat
        /\ b * k \in Nat
        /\ a * k + k <= b * k
    BY MulGap
  <2> QED
    BY <2>1
<1>2. ~ (b < a)
  <2> SUFFICES ASSUME b < a PROVE FALSE
    OBVIOUS
  <2>1. /\ b * k \in Nat
        /\ a * k \in Nat
        /\ b * k + k <= a * k
    BY MulGap
  <2> QED
    BY <2>1
<1>3. a = b
  BY <1>1, <1>2
<1>4. a * k \in Nat
  BY SMT
<1> QED
  BY <1>3, <1>4

(* Equal ids come from equal workers.                                       *)
LEMMA EncodeWorker ==
    ASSUME NEW t \in Nat, NEW u \in Nat, NEW v \in Workers, NEW w \in Workers,
           NEW r \in 0 .. (SeqCount - 1), NEW s \in 0 .. (SeqCount - 1),
           Encode(t, v, r) = Encode(u, w, s)
    PROVE  v = w
<1> DEFINE x == t * WorkerCount + v
           y == u * WorkerCount + w
<1>1. x \in Nat /\ y \in Nat
  BY SMT
<1>2. x * SeqCount + r = y * SeqCount + s
  BY DEF Encode
<1>3. x = y
  <2> HIDE DEF x, y
  <2> QED
    BY <1>1, <1>2, LeadingPart
<1>4. v \in 0 .. (WorkerCount - 1) /\ w \in 0 .. (WorkerCount - 1)
  OBVIOUS
<1> QED
  BY <1>3, <1>4, LeadingPart

-----------------------------------------------------------------------------
(* Type correctness.                                                        *)

(* The masked sequence stays within its field.                              *)
LEMMA NextSequenceRange ==
    ASSUME TypeOK, NEW w \in Workers
    PROVE  /\ NextSequence(w) \in 0 .. (SeqCount - 1)
           /\ NextSequence(w) # 0 => NextSequence(w) = sequence[w] + 1
<1>1. sequence[w] \in 0 .. (SeqCount - 1)
  BY DEF TypeOK
<1>2. \A x \in 0 .. (SeqCount - 1) :
        /\ (x + 1) % SeqCount \in 0 .. (SeqCount - 1)
        /\ x + 1 < SeqCount => (x + 1) % SeqCount = x + 1
        /\ x + 1 = SeqCount => (x + 1) % SeqCount = 0
  BY SMT
<1> QED
  BY <1>1, <1>2 DEF NextSequence

(* Returning an id keeps the types.                                         *)
LEMMA ReturnType ==
    ASSUME TypeOK, NEW w \in Workers, NEW s \in 0 .. (SeqCount - 1),
           Return(w, s)
    PROVE  TypeOK'
<1>1. clock[w] \in 0 .. MaxTime
  BY DEF TypeOK
<1>2. Encode(clock[w], w, s) \in Nat
  BY <1>1, EncodeNat
<1>3. handed' \in [Workers -> Seq(Nat)]
  BY <1>2 DEF TypeOK, Return
<1> QED
  BY <1>1, <1>3 DEF TypeOK, Return

LEMMA TypeStep == TypeOK /\ [Next]_vars => TypeOK'
<1> SUFFICES ASSUME TypeOK, [Next]_vars PROVE TypeOK'
  OBVIOUS
<1>1. ASSUME NEW w \in Workers, NextSame(w) PROVE TypeOK'
  BY <1>1, NextSequenceRange, ReturnType DEF NextSame
<1>2. ASSUME NEW w \in Workers, NextExhausted(w) PROVE TypeOK'
  BY <1>2 DEF NextExhausted, TypeOK
<1>3. ASSUME NEW w \in Workers, NextBehind(w) PROVE TypeOK'
  BY <1>3 DEF NextBehind, TypeOK
<1>4. ASSUME NEW w \in Workers, NextLater(w) PROVE TypeOK'
  BY <1>4, 0 \in 0 .. (SeqCount - 1), ReturnType DEF NextLater
<1>5. ASSUME NEW w \in Workers, ExhaustedDone(w) PROVE TypeOK'
  BY <1>5, sequence[w] \in 0 .. (SeqCount - 1), ReturnType
     DEF ExhaustedDone, TypeOK
<1>6. ASSUME NEW w \in Workers, BehindDone(w) PROVE TypeOK'
  BY <1>6, 0 \in 0 .. (SeqCount - 1), ReturnType DEF BehindDone
<1>7. ASSUME NEW w \in Workers, Tick(w) PROVE TypeOK'
  BY <1>7 DEF Tick, TypeOK
<1>8. ASSUME NEW w \in Workers, StepBack(w) PROVE TypeOK'
  <2>1. PICK d \in 1 .. (MaxBack - backs[w]) :
          /\ d <= clock[w]
          /\ clock' = [clock EXCEPT ![w] = clock[w] - d]
          /\ backs' = [backs EXCEPT ![w] = backs[w] + d]
          /\ UNCHANGED <<relativeTimestamp, sequence, pc, handed>>
    BY <1>8 DEF StepBack
  <2>2. clock[w] \in 0 .. MaxTime /\ backs[w] \in 0 .. MaxBack
    BY DEF TypeOK
  <2>3. clock[w] - d \in 0 .. MaxTime /\ backs[w] + d \in 0 .. MaxBack
    BY <2>1, <2>2
  <2> QED
    BY <2>1, <2>3 DEF TypeOK
<1>9. CASE Horizon
  BY <1>9 DEF Horizon, vars, TypeOK
<1>10. CASE UNCHANGED vars
  BY <1>10 DEF vars, TypeOK
<1> QED
  BY <1>1, <1>2, <1>3, <1>4, <1>5, <1>6, <1>7, <1>8, <1>9, <1>10
     DEF Next, Call, Wake

(* Every reachable state of the generators is well typed: the sequence      *)
(* stays in its field and ids are non-negative.                             *)
THEOREM TypeCorrect == Spec => []TypeOK
<1>1. Init => TypeOK
  BY DEF Init, TypeOK
<1> QED
  BY <1>1, TypeStep, PTL DEF Spec

-----------------------------------------------------------------------------
(* Ids of different generators.                                             *)

(* Every id a generator handed out carries its worker id.                   *)
OwnIds ==
    \A w \in Workers : \A i \in DOMAIN handed[w] :
        \E t \in Nat, s \in 0 .. (SeqCount - 1) : handed[w][i] = Encode(t, w, s)

(* Returning an id of the generator keeps OwnIds.                           *)
LEMMA ReturnOwnIds ==
    ASSUME TypeOK, OwnIds, NEW w \in Workers, NEW s \in 0 .. (SeqCount - 1),
           Return(w, s)
    PROVE  OwnIds'
<1> SUFFICES ASSUME NEW v \in Workers, NEW i \in DOMAIN handed'[v]
             PROVE  \E t \in Nat, r \in 0 .. (SeqCount - 1) :
                        handed'[v][i] = Encode(t, v, r)
  BY DEF OwnIds, Encode
<1>1. CASE v # w
  BY <1>1 DEF Return, TypeOK, OwnIds
<1>2. CASE v = w
  <2>1. handed'[w] = Append(handed[w], Encode(clock[w], w, s))
    BY DEF Return, TypeOK
  <2>2. handed[w] \in Seq(Nat) /\ clock[w] \in Nat
    BY DEF TypeOK
  <2>3. Encode(clock[w], w, s) \in Nat
    BY <2>2, EncodeNat
  <2>4. CASE i \in DOMAIN handed[w]
    <3>1. handed'[w][i] = handed[w][i]
      BY <2>1, <2>2, <2>3, <2>4
    <3> QED
      BY <1>2, <2>4, <3>1 DEF OwnIds
  <2>5. CASE i \notin DOMAIN handed[w]
    <3>1. handed'[w][i] = Encode(clock[w], w, s)
      BY <1>2, <2>1, <2>2, <2>3, <2>5
    <3> QED
      BY <1>2, <2>2, <3>1
  <2> QED
    BY <2>4, <2>5
<1> QED
  BY <1>1, <1>2

LEMMA OwnIdsStep == TypeOK /\ OwnIds /\ [Next]_vars => OwnIds'
<1> SUFFICES ASSUME TypeOK, OwnIds, [Next]_vars PROVE OwnIds'
  OBVIOUS
<1>1. CASE handed' = handed
  BY <1>1 DEF OwnIds, Encode
<1>2. ASSUME NEW w \in Workers, NextSame(w) PROVE OwnIds'
  BY <1>2, NextSequenceRange, ReturnOwnIds DEF NextSame
<1>3. ASSUME NEW w \in Workers, NextLater(w) PROVE OwnIds'
  BY <1>3, 0 \in 0 .. (SeqCount - 1), ReturnOwnIds DEF NextLater
<1>4. ASSUME NEW w \in Workers, ExhaustedDone(w) PROVE OwnIds'
  BY <1>4, sequence[w] \in 0 .. (SeqCount - 1), ReturnOwnIds
     DEF ExhaustedDone, TypeOK
<1>5. ASSUME NEW w \in Workers, BehindDone(w) PROVE OwnIds'
  BY <1>5, 0 \in 0 .. (SeqCount - 1), ReturnOwnIds DEF BehindDone
<1> QED
  BY <1>1, <1>2, <1>3, <1>4, <1>5
     DEF Next, Call, Wake, NextExhausted, NextBehind, Tick, StepBack, Horizon,
         vars

(* Two generators with different worker ids never return the same id, for   *)
(* any field widths and any clocks, rollbacks included.                     *)
THEOREM WorkersNeverCollide == Spec => []NoSharedId
<1>1. Init => OwnIds
  BY DEF Init, OwnIds
<1>2. TypeOK /\ OwnIds => NoSharedId
  <2> SUFFICES ASSUME OwnIds, NEW v \in Workers, NEW w \in Workers,
                      NEW i \in DOMAIN handed[v], NEW j \in DOMAIN handed[w],
                      handed[v][i] = handed[w][j]
               PROVE  v = w
    BY DEF NoSharedId
  <2>1. PICK t \in Nat, r \in 0 .. (SeqCount - 1) :
          handed[v][i] = Encode(t, v, r)
    BY DEF OwnIds
  <2>2. PICK u \in Nat, s \in 0 .. (SeqCount - 1) :
          handed[w][j] = Encode(u, w, s)
    BY DEF OwnIds
  <2> QED
    BY <2>1, <2>2, EncodeWorker
<1> QED
  BY <1>1, <1>2, OwnIdsStep, TypeCorrect, PTL DEF Spec

-----------------------------------------------------------------------------
(* One generator as long as its clock was not set back.                     *)

(* The clock never lags the generator, no call is in the rollback loop, and *)
(* every id handed out is at most the one of the remembered time and        *)
(* sequence; when the sequence has wrapped, it is below every id of a later *)
(* time.                                                                    *)
Steady ==
    \A w \in Workers : backs[w] = 0 =>
        /\ pc[w] # "behind"
        /\ relativeTimestamp[w] <= clock[w]
        /\ \A i \in DOMAIN handed[w] :
              handed[w][i] <= Encode(relativeTimestamp[w], w, SeqCount - 1)
        /\ pc[w] = "exhausted" => sequence[w] = 0
        /\ pc[w] = "idle" =>
              \A i \in DOMAIN handed[w] :
                 handed[w][i] <= Encode(relativeTimestamp[w], w, sequence[w])

SteadyInv == Steady /\ Increasing

(* Returning an id above every earlier one, with the time and sequence it   *)
(* leaves behind, keeps the invariant.                                      *)
LEMMA ReturnSteady ==
    ASSUME TypeOK, SteadyInv, NEW w \in Workers,
           NEW s \in 0 .. (SeqCount - 1), Return(w, s),
           backs[w] = 0 =>
              \A i \in DOMAIN handed[w] : handed[w][i] < Encode(clock[w], w, s)
    PROVE  SteadyInv'
<1> DEFINE id == Encode(clock[w], w, s)
<1>1. /\ clock[w] \in Nat
      /\ handed[w] \in Seq(Nat)
      /\ handed \in [Workers -> Seq(Nat)]
      /\ relativeTimestamp \in [Workers -> 0 .. MaxTime]
      /\ sequence \in [Workers -> 0 .. (SeqCount - 1)]
      /\ pc \in [Workers -> {"idle", "exhausted", "behind"}]
  BY DEF TypeOK
<1>2. id \in Nat
  BY <1>1, EncodeNat
<1>3. /\ handed'[w] = Append(handed[w], id)
      /\ relativeTimestamp'[w] = clock[w]
      /\ sequence'[w] = s
      /\ pc'[w] = "idle"
      /\ clock' = clock
      /\ backs' = backs
      /\ \A v \in Workers : v # w =>
            /\ handed'[v] = handed[v]
            /\ relativeTimestamp'[v] = relativeTimestamp[v]
            /\ sequence'[v] = sequence[v]
            /\ pc'[v] = pc[v]
  BY <1>1 DEF Return
<1> HIDE DEF id
<1>4. \A i \in DOMAIN handed[w] :
        handed[w][i] \in Nat /\ (backs[w] = 0 => handed[w][i] < id)
  BY <1>1 DEF id
<1>5. \A i \in DOMAIN handed'[w] :
        \/ i \in DOMAIN handed[w] /\ handed'[w][i] = handed[w][i]
        \/ i = Len(handed[w]) + 1 /\ handed'[w][i] = id
  BY <1>1, <1>2, <1>3
<1>6. backs[w] = 0 => \A i \in DOMAIN handed'[w] : handed'[w][i] <= id
  BY <1>2, <1>4, <1>5
<1>7. /\ Encode(clock[w], w, SeqCount - 1) \in Nat
      /\ id <= Encode(clock[w], w, SeqCount - 1)
  <2>1. Encode(clock[w], w, SeqCount - 1) \in Nat
    BY <1>1, EncodeNat, SeqCount - 1 \in 0 .. (SeqCount - 1)
  <2>2. CASE s = SeqCount - 1
    BY <2>1, <2>2 DEF id
  <2>3. CASE s # SeqCount - 1
    BY <1>1, <1>2, <2>1, <2>3, EncodeSameTime, s < SeqCount - 1,
       SeqCount - 1 \in 0 .. (SeqCount - 1) DEF id
  <2> QED
    BY <2>1, <2>2, <2>3
<1>8. Steady'
  <2> SUFFICES ASSUME NEW v \in Workers, backs'[v] = 0
               PROVE  /\ pc'[v] # "behind"
                      /\ relativeTimestamp'[v] <= clock'[v]
                      /\ \A i \in DOMAIN handed'[v] :
                            handed'[v][i] <=
                              Encode(relativeTimestamp'[v], v, SeqCount - 1)
                      /\ pc'[v] = "exhausted" => sequence'[v] = 0
                      /\ pc'[v] = "idle" =>
                            \A i \in DOMAIN handed'[v] :
                               handed'[v][i] <=
                                 Encode(relativeTimestamp'[v], v, sequence'[v])
    BY DEF Steady, Encode
  <2>1. CASE v # w
    BY <1>3, <2>1 DEF SteadyInv, Steady
  <2>2. CASE v = w
    <3>0. backs[w] = 0
      BY <1>3, <2>2
    <3>1. \A i \in DOMAIN handed'[w] : handed'[w][i] \in Nat
      BY <1>2, <1>4, <1>5
    <3>2. \A i \in DOMAIN handed'[w] :
            handed'[w][i] <= Encode(clock[w], w, SeqCount - 1)
      BY <1>2, <1>6, <1>7, <3>0, <3>1
    <3>3. \A i \in DOMAIN handed'[w] :
            handed'[w][i] <= Encode(clock[w], w, s)
      BY <1>6, <3>0 DEF id
    <3>4. relativeTimestamp'[w] <= clock'[w]
      BY <1>1, <1>3
    <3> QED
      BY <1>3, <2>2, <3>2, <3>3, <3>4, Zenon
  <2> QED
    BY <2>1, <2>2
<1>9. Increasing'
  <2> SUFFICES ASSUME NEW v \in Workers, backs'[v] = 0,
                      NEW j \in DOMAIN handed'[v], NEW i \in 1 .. (j - 1)
               PROVE  handed'[v][i] < handed'[v][j]
    BY DEF Increasing
  <2>1. CASE v # w
    BY <1>3, <2>1 DEF SteadyInv, Increasing
  <2>2. CASE v = w
    <3>1. /\ j \in 1 .. (Len(handed[w]) + 1)
          /\ DOMAIN handed[w] = 1 .. Len(handed[w])
          /\ Len(handed[w]) \in Nat
          /\ DOMAIN handed'[w] = 1 .. (Len(handed[w]) + 1)
      <4>1. DOMAIN handed[w] = 1 .. Len(handed[w]) /\ Len(handed[w]) \in Nat
        BY <1>1
      <4>2. DOMAIN Append(handed[w], id) = 1 .. (Len(handed[w]) + 1)
        BY <1>1, <1>2
      <4> QED
        BY <1>3, <2>2, <4>1, <4>2
    <3>2. i \in DOMAIN handed[w] /\ handed'[w][i] = handed[w][i]
      BY <1>5, <3>1, <2>2
    <3>3. CASE j \in DOMAIN handed[w]
      BY <1>3, <1>5, <2>2, <3>1, <3>2, <3>3 DEF SteadyInv, Increasing
    <3>4. CASE j = Len(handed[w]) + 1
      BY <1>3, <1>4, <1>5, <2>2, <3>1, <3>2, <3>4
    <3> QED
      BY <3>1, <3>3, <3>4
  <2> QED
    BY <2>1, <2>2
<1> QED
  BY <1>8, <1>9 DEF SteadyInv

(* A later time than the remembered one gives an id above all earlier ones. *)
LEMMA LaterIsAbove ==
    ASSUME TypeOK, Steady, NEW w \in Workers, NEW s \in 0 .. (SeqCount - 1),
           backs[w] = 0, clock[w] > relativeTimestamp[w]
    PROVE  \A i \in DOMAIN handed[w] : handed[w][i] < Encode(clock[w], w, s)
<1> DEFINE top == Encode(relativeTimestamp[w], w, SeqCount - 1)
           id  == Encode(clock[w], w, s)
<1>1. /\ clock[w] \in Nat
      /\ relativeTimestamp[w] \in Nat
      /\ SeqCount - 1 \in 0 .. (SeqCount - 1)
      /\ \A i \in DOMAIN handed[w] : handed[w][i] \in Nat
  BY DEF TypeOK
<1>2. top \in Nat /\ id \in Nat /\ top < id
  BY <1>1, EncodeNat, EncodeLater
<1>3. \A i \in DOMAIN handed[w] : handed[w][i] <= top
  BY DEF Steady
<1> HIDE DEF top, id
<1>4. \A i \in DOMAIN handed[w] : handed[w][i] < id
  BY <1>1, <1>2, <1>3
<1> QED
  BY <1>4 DEF id

LEMMA SteadyStep ==
    ASSUME TypeOK, SteadyInv, [Next]_vars
    PROVE  SteadyInv'
<1>1. ASSUME NEW w \in Workers, NextSame(w) PROVE SteadyInv'
  <2> DEFINE s == NextSequence(w)
  <2>1. s \in 0 .. (SeqCount - 1) /\ sequence[w] \in 0 .. (SeqCount - 1)
    BY NextSequenceRange DEF TypeOK
  <2>2. sequence[w] < s
    BY <1>1, <2>1, NextSequenceRange DEF NextSame
  <2>3. /\ clock[w] = relativeTimestamp[w]
        /\ pc[w] = "idle"
        /\ Return(w, s)
    BY <1>1 DEF NextSame
  <2>4. clock[w] \in Nat /\ \A i \in DOMAIN handed[w] : handed[w][i] \in Nat
    BY DEF TypeOK
  <2> HIDE DEF s
  <2> DEFINE last == Encode(clock[w], w, sequence[w])
             id   == Encode(clock[w], w, s)
  <2>5. last \in Nat /\ id \in Nat /\ last < id
    BY <2>1, <2>2, <2>4, EncodeNat, EncodeSameTime
  <2>6. backs[w] = 0 => \A i \in DOMAIN handed[w] : handed[w][i] <= last
    BY <2>3 DEF SteadyInv, Steady
  <2>7. backs[w] = 0 => \A i \in DOMAIN handed[w] : handed[w][i] < id
    <3> HIDE DEF last, id
    <3> QED
      BY <2>4, <2>5, <2>6
  <2> QED
    BY <2>1, <2>3, <2>7, ReturnSteady
<1>2. ASSUME NEW w \in Workers, NextExhausted(w) PROVE SteadyInv'
  <2>1. Steady'
    BY <1>2 DEF NextExhausted, SteadyInv, Steady, TypeOK, Encode
  <2> QED
    BY <1>2, <2>1 DEF NextExhausted, SteadyInv, Increasing
<1>3. ASSUME NEW w \in Workers, NextBehind(w) PROVE SteadyInv'
  <2>1. Steady'
    BY <1>3 DEF NextBehind, SteadyInv, Steady, TypeOK, Encode
  <2> QED
    BY <1>3, <2>1 DEF NextBehind, SteadyInv, Increasing
<1>4. ASSUME NEW w \in Workers, NextLater(w) PROVE SteadyInv'
  BY <1>4, 0 \in 0 .. (SeqCount - 1), LaterIsAbove, ReturnSteady
     DEF NextLater, SteadyInv
<1>5. ASSUME NEW w \in Workers, ExhaustedDone(w) PROVE SteadyInv'
  BY <1>5, sequence[w] \in 0 .. (SeqCount - 1), LaterIsAbove, ReturnSteady
     DEF ExhaustedDone, SteadyInv, TypeOK
<1>6. ASSUME NEW w \in Workers, BehindDone(w) PROVE SteadyInv'
  BY <1>6, 0 \in 0 .. (SeqCount - 1), ReturnSteady DEF BehindDone, SteadyInv, Steady
<1>7. ASSUME NEW w \in Workers, Tick(w) PROVE SteadyInv'
  <2>1. Steady'
    BY <1>7 DEF Tick, SteadyInv, Steady, TypeOK, Encode
  <2> QED
    BY <1>7, <2>1 DEF Tick, SteadyInv, Increasing
<1>8. ASSUME NEW w \in Workers, StepBack(w) PROVE SteadyInv'
  <2>1. /\ backs'[w] # 0
        /\ \A v \in Workers : v # w => backs'[v] = backs[v] /\ clock'[v] = clock[v]
        /\ UNCHANGED <<relativeTimestamp, sequence, pc, handed>>
    BY <1>8 DEF StepBack, TypeOK
  <2>2. Steady'
    BY <2>1 DEF SteadyInv, Steady, Encode
  <2> QED
    BY <2>1, <2>2 DEF SteadyInv, Increasing
<1>9. CASE UNCHANGED vars
  BY <1>9 DEF vars, SteadyInv, Steady, Increasing, Encode
<1> QED
  BY <1>1, <1>2, <1>3, <1>4, <1>5, <1>6, <1>7, <1>8, <1>9
     DEF Next, Call, Wake, Horizon

(* As long as its clock was not set back a generator returns strictly       *)
(* increasing, hence pairwise different, ids: through every wrap of the     *)
(* sequence, for any width of it and any jumps of the clock forward.        *)
THEOREM GeneratorsIncrease == Spec => []Increasing
<1>1. Init => SteadyInv
  BY DEF Init, SteadyInv, Steady, Increasing
<1>2. TypeOK /\ SteadyInv /\ [Next]_vars => SteadyInv'
  BY SteadyStep
<1>3. SteadyInv => Increasing
  BY DEF SteadyInv
<1> QED
  BY <1>1, <1>2, <1>3, TypeCorrect, PTL DEF Spec

-----------------------------------------------------------------------------
(* The time in the ids of one generator, whatever its clock does.           *)

(* A quotient is determined by its remainder's range.                       *)
LEMMA DivUnique ==
    ASSUME NEW q \in Nat, NEW k \in Nat \ {0}, NEW r \in 0 .. (k - 1)
    PROVE  (q * k + r) \div k = q
<1> DEFINE n == q * k + r
           d == n \div k
           m == n % k
<1>1. n \in Nat
  BY SMT
<1>2. d \in Nat /\ m \in 0 .. (k - 1) /\ n = d * k + m
  <2> HIDE DEF n
  <2> QED
    BY <1>1, SMT
<1>3. q * k + r = d * k + m
  BY <1>2
<1> HIDE DEF d, m, n
<1>4. d = q
  BY <1>2, <1>3, LeadingPart
<1> QED
  BY <1>4 DEF d, n

(* GetTimestamp reads back the time that Encode put into an id.             *)
LEMMA GetTimestampOfEncode ==
    ASSUME NEW t \in Nat, NEW w \in Workers, NEW s \in 0 .. (SeqCount - 1)
    PROVE  GetTimestamp(Encode(t, w, s)) = t
<1> DEFINE k == SeqCount * WorkerCount
           r == w * SeqCount + s
<1>1. k \in Nat \ {0}
  BY SMT
<1>2. w \in Nat /\ w < WorkerCount
  OBVIOUS
<1>3. /\ w * SeqCount \in Nat
      /\ WorkerCount * SeqCount \in Nat
      /\ w * SeqCount + SeqCount <= WorkerCount * SeqCount
  BY <1>2, MulGap
<1>4. WorkerCount * SeqCount = k
  BY SMT
<1>5. r \in 0 .. (k - 1)
  <2> HIDE DEF k
  <2> QED
    BY <1>1, <1>3, <1>4
<1>6. Encode(t, w, s) = t * k + r
  <2>1. Encode(t, w, s) = (t * WorkerCount) * SeqCount + w * SeqCount + s
    BY <1>2, SMT DEF Encode
  <2>2. (t * WorkerCount) * SeqCount = t * k
    BY SMT
  <2> QED
    BY <1>2, <2>1, <2>2, SMT
<1>7. (t * k + r) \div k = t
  <2> HIDE DEF k, r
  <2> QED
    BY <1>1, <1>5, DivUnique
<1> QED
  BY <1>6, <1>7 DEF GetTimestamp

(* No id is from a later time than the generator remembers.                 *)
Past ==
    \A w \in Workers : \A i \in DOMAIN handed[w] :
        /\ GetTimestamp(handed[w][i]) \in Nat
        /\ GetTimestamp(handed[w][i]) <= relativeTimestamp[w]

PastInv == Past /\ TimestampsNeverRegress

(* Every return happens at a time not before the remembered one.            *)
LEMMA ReturnPast ==
    ASSUME TypeOK, PastInv, NEW w \in Workers, NEW s \in 0 .. (SeqCount - 1),
           Return(w, s), clock[w] >= relativeTimestamp[w]
    PROVE  PastInv'
<1> DEFINE id == Encode(clock[w], w, s)
<1>1. /\ clock[w] \in Nat
      /\ relativeTimestamp[w] \in Nat
      /\ handed[w] \in Seq(Nat)
      /\ handed \in [Workers -> Seq(Nat)]
      /\ relativeTimestamp \in [Workers -> 0 .. MaxTime]
  BY DEF TypeOK
<1>2. id \in Nat /\ GetTimestamp(id) = clock[w]
  BY <1>1, EncodeNat, GetTimestampOfEncode
<1>3. /\ handed'[w] = Append(handed[w], id)
      /\ relativeTimestamp'[w] = clock[w]
      /\ \A v \in Workers : v # w =>
            /\ handed'[v] = handed[v]
            /\ relativeTimestamp'[v] = relativeTimestamp[v]
  BY <1>1 DEF Return
<1> HIDE DEF id
<1>4. \A i \in DOMAIN handed'[w] :
        \/ i \in DOMAIN handed[w] /\ handed'[w][i] = handed[w][i]
        \/ i = Len(handed[w]) + 1 /\ handed'[w][i] = id
  BY <1>1, <1>2, <1>3
<1>5. \A i \in DOMAIN handed'[w] :
        /\ GetTimestamp(handed'[w][i]) \in Nat
        /\ GetTimestamp(handed'[w][i]) <= clock[w]
  <2> SUFFICES ASSUME NEW i \in DOMAIN handed'[w]
               PROVE  /\ GetTimestamp(handed'[w][i]) \in Nat
                      /\ GetTimestamp(handed'[w][i]) <= clock[w]
    OBVIOUS
  <2>1. CASE i \in DOMAIN handed[w] /\ handed'[w][i] = handed[w][i]
    <3>1. /\ GetTimestamp(handed[w][i]) \in Nat
          /\ GetTimestamp(handed[w][i]) <= relativeTimestamp[w]
      BY <2>1 DEF PastInv, Past
    <3> QED
      BY <1>1, <2>1, <3>1
  <2>2. CASE handed'[w][i] = id
    BY <1>1, <1>2, <2>2
  <2> QED
    BY <1>4, <2>1, <2>2
<1>6. Past'
  <2> SUFFICES ASSUME NEW v \in Workers, NEW i \in DOMAIN handed'[v]
               PROVE  /\ GetTimestamp(handed'[v][i]) \in Nat
                      /\ GetTimestamp(handed'[v][i]) <= relativeTimestamp'[v]
    BY DEF Past, GetTimestamp
  <2>1. CASE v # w
    BY <1>3, <2>1 DEF PastInv, Past
  <2>2. CASE v = w
    BY <1>3, <1>5, <2>2
  <2> QED
    BY <2>1, <2>2
<1>7. TimestampsNeverRegress'
  <2> SUFFICES ASSUME NEW v \in Workers, NEW j \in DOMAIN handed'[v],
                      NEW i \in 1 .. (j - 1)
               PROVE  GetTimestamp(handed'[v][i]) <= GetTimestamp(handed'[v][j])
    BY DEF TimestampsNeverRegress, GetTimestamp
  <2>1. CASE v # w
    BY <1>3, <2>1 DEF PastInv, TimestampsNeverRegress
  <2>2. CASE v = w
    <3>1. /\ DOMAIN handed[w] = 1 .. Len(handed[w])
          /\ Len(handed[w]) \in Nat
      BY <1>1
    <3>2. DOMAIN Append(handed[w], id) = 1 .. (Len(handed[w]) + 1)
      BY <1>1, <1>2
    <3>3. j \in 1 .. (Len(handed[w]) + 1) /\ i \in DOMAIN handed'[w]
      BY <1>3, <2>2, <3>1, <3>2
    <3>4. CASE j \in DOMAIN handed[w]
      <4>1. handed'[w][j] = handed[w][j] /\ handed'[w][i] = handed[w][i]
        BY <1>4, <2>2, <3>1, <3>3, <3>4
      <4> QED
        BY <2>2, <3>4, <4>1 DEF PastInv, TimestampsNeverRegress
    <3>5. CASE j = Len(handed[w]) + 1
      <4>1. handed'[w][j] = id
        BY <1>4, <2>2, <3>1, <3>5
      <4> QED
        BY <1>2, <1>5, <2>2, <3>3, <4>1
    <3>6. j \in DOMAIN handed[w] \/ j = Len(handed[w]) + 1
      BY <3>1, <3>3
    <3> QED
      BY <3>4, <3>5, <3>6
  <2> QED
    BY <2>1, <2>2
<1> QED
  BY <1>6, <1>7 DEF PastInv

LEMMA PastStep == TypeOK /\ PastInv /\ [Next]_vars => PastInv'
<1> SUFFICES ASSUME TypeOK, PastInv, [Next]_vars PROVE PastInv'
  OBVIOUS
<1>1. CASE handed' = handed /\ relativeTimestamp' = relativeTimestamp
  BY <1>1 DEF PastInv, Past, TimestampsNeverRegress, GetTimestamp
<1>2. ASSUME NEW w \in Workers, NextSame(w) PROVE PastInv'
  <2>1. clock[w] >= relativeTimestamp[w]
    BY <1>2 DEF NextSame, TypeOK
  <2> QED
    BY <1>2, <2>1, NextSequenceRange, ReturnPast DEF NextSame
<1>3. ASSUME NEW w \in Workers, NextLater(w) PROVE PastInv'
  <2>1. clock[w] >= relativeTimestamp[w]
    BY <1>3 DEF NextLater, TypeOK
  <2> QED
    BY <1>3, <2>1, 0 \in 0 .. (SeqCount - 1), ReturnPast DEF NextLater
<1>4. ASSUME NEW w \in Workers, ExhaustedDone(w) PROVE PastInv'
  <2>1. clock[w] >= relativeTimestamp[w]
    BY <1>4 DEF ExhaustedDone, TypeOK
  <2> QED
    BY <1>4, <2>1, sequence[w] \in 0 .. (SeqCount - 1), ReturnPast
       DEF ExhaustedDone, TypeOK
<1>5. ASSUME NEW w \in Workers, BehindDone(w) PROVE PastInv'
  BY <1>5, 0 \in 0 .. (SeqCount - 1), ReturnPast DEF BehindDone
<1> QED
  BY <1>1, <1>2, <1>3, <1>4, <1>5
     DEF Next, Call, Wake, NextExhausted, NextBehind, Tick, StepBack, Horizon,
         vars

(* The time carried by a generator's ids never goes back, whatever its      *)
(* clock does: both wait loops of Next() return only at a time not before   *)
(* the one of the last id.                                                  *)
THEOREM TimeNeverRegresses == Spec => []TimestampsNeverRegress
<1>1. Init => PastInv
  BY DEF Init, PastInv, Past, TimestampsNeverRegress
<1>2. PastInv => TimestampsNeverRegress
  BY DEF PastInv
<1> QED
  BY <1>1, <1>2, PastStep, TypeCorrect, PTL DEF Spec

-----------------------------------------------------------------------------
(* The counter in Redis.                                                    *)
DistInv ==
    /\ exists \in BOOLEAN
    /\ counter \in Int
    /\ generator # {} => exists = TRUE
    /\ exists = FALSE => idLog = <<>>
    /\ idLog \in Seq(Int)
    /\ \A i \in 1 .. Len(idLog) : idLog[i] <= counter
    /\ \A i, j \in 1 .. Len(idLog) : i < j => idLog[i] < idLog[j]

LEMMA DistInitInv == D!IdInit => DistInv
<1> SUFFICES ASSUME D!IdInit PROVE DistInv
  OBVIOUS
<1>1. exists = FALSE /\ counter = 0 /\ generator = {} /\ idLog = <<>>
  BY DEF D!IdInit
<1>2. idLog \in Seq(Int) /\ Len(idLog) = 0
  BY <1>1
<1>3. exists \in BOOLEAN
  BY <1>1
<1>4. counter \in Int /\ \A i \in 1 .. Len(idLog) : FALSE
  BY <1>1, <1>2
<1> QED
  BY <1>1, <1>2, <1>3, <1>4, Zenon DEF DistInv

LEMMA DistKeepsLog ==
    ASSUME DistInv, UNCHANGED idLog, exists' \in BOOLEAN, counter' \in Int,
           generator' # {} => exists' = TRUE,
           exists = TRUE => exists' = TRUE /\ counter <= counter'
    PROVE  DistInv'
<1>1. CASE exists = FALSE
  BY <1>1 DEF DistInv
<1>2. CASE exists = TRUE
  BY <1>2 DEF DistInv
<1> QED
  BY <1>1, <1>2 DEF DistInv

LEMMA DistStep ==
    ASSUME DistInv, D!IdNext
    PROVE  DistInv'
<1>1. PICK p \in Processes : D!NewGenerator(p) \/ D!Next(p) \/ D!Close(p) \/ D!Restart(p)
  BY DEF D!IdNext
<1>2. CASE D!NewGenerator(p)
  <2>1. PICK start \in Starts :
          \/ D!SetNX(start)
          \/ UNCHANGED <<exists, counter, generator>>
    BY <1>2 DEF D!NewGenerator, D!Fault
  <2>2. start \in Int
    BY DistIdAssumption DEF D!StartsFit
  <2>3. CASE D!SetNX(start)
    <3>1. exists' = TRUE /\ counter' \in Int /\ (exists = TRUE => counter <= counter')
      BY <2>2, <2>3 DEF D!SetNX, DistInv
    <3> QED
      BY <1>2, <3>1, DistKeepsLog DEF D!NewGenerator
  <2>4. CASE UNCHANGED <<exists, counter, generator>>
    BY <1>2, <2>4 DEF D!NewGenerator, DistInv
  <2> QED
    BY <2>1, <2>3, <2>4
<1>3. CASE D!Next(p)
  <2>1. exists = TRUE /\ UNCHANGED <<exists, generator>> /\ counter \in Int
    BY <1>3 DEF D!Next, DistInv
  <2>2. CASE counter' = counter + 1 /\ idLog' = Append(idLog, counter')
    <3>1. /\ idLog \in Seq(Int) /\ counter + 1 \in Int /\ Len(idLog) \in Nat
      BY <2>1 DEF DistInv
    <3>2. /\ idLog' \in Seq(Int) /\ Len(idLog') = Len(idLog) + 1
          /\ idLog'[Len(idLog) + 1] = counter + 1
          /\ \A i \in 1 .. Len(idLog) : idLog'[i] = idLog[i]
      BY <2>2, <3>1
    <3>3. \A i \in 1 .. Len(idLog') : idLog'[i] <= counter'
      BY <2>1, <2>2, <3>1, <3>2 DEF DistInv
    <3>4. ASSUME NEW i \in 1 .. Len(idLog'), NEW j \in 1 .. Len(idLog'), i < j
          PROVE  idLog'[i] < idLog'[j]
      <4>1. i \in 1 .. Len(idLog) /\ idLog[i] \in Int /\ idLog[i] <= counter
        BY <3>1, <3>2, <3>4 DEF DistInv
      <4>2. CASE j = Len(idLog) + 1
        BY <2>1, <3>2, <4>1, <4>2
      <4>3. CASE j \in 1 .. Len(idLog)
        BY <3>2, <3>4, <4>1, <4>3 DEF DistInv
      <4> QED
        BY <3>1, <3>2, <4>2, <4>3
    <3> QED
      BY <2>1, <2>2, <3>1, <3>2, <3>3, <3>4 DEF DistInv
  <2>3. CASE counter' \in {counter, counter + 1} /\ UNCHANGED idLog
    <3>1. counter' \in Int /\ counter <= counter'
      BY <2>1, <2>3
    <3> QED
      BY <2>1, <2>3, <3>1, DistKeepsLog
  <2> QED
    BY <1>3, <2>2, <2>3 DEF D!Next
<1>4. CASE D!Close(p) \/ D!Restart(p)
  BY <1>4 DEF D!Close, D!Restart, DistInv
<1> QED
  BY <1>1, <1>2, <1>3, <1>4

(* distribute.Id: the ids that all processes together take from a counter   *)
(* increase, whatever starts they ask for, whichever commands fail, and     *)
(* whoever closes its client or starts again.                               *)
THEOREM CounterIdsIncrease == IdsSpec => []IdsIncrease
<1>1. IdsInit => DistInv
  BY DistInitInv DEF IdsInit
<1>2. DistInv /\ [IdsNext]_all => DistInv'
  <2> SUFFICES ASSUME DistInv, [IdsNext]_all PROVE DistInv'
    OBVIOUS
  <2>1. CASE UNCHANGED distVars
    BY <2>1 DEF distVars, DistInv
  <2>2. CASE D!IdNext
    BY <2>2, DistStep
  <2> QED
    BY <2>1, <2>2 DEF IdsNext, Snow, NewIDs, Dist, all
<1>3. DistInv => IdsIncrease
  BY DEF DistInv, IdsIncrease, D!IdsIncrease
<1> QED
  BY <1>1, <1>2, <1>3, PTL DEF IdsSpec-----------------------------------------------------------------------------
(* NewID.  The fields of an id can be read back from it.                    *)
SnowTimes == 0 .. 3
SnowSeqs == 0 .. (SeqCount - 1)

LEMMA SnowConstants ==
    /\ NodeCount \in Nat \ {0} /\ NodeId \in 0 .. (NodeCount - 1)
    /\ SeqCount \in Nat \ {0}
    /\ SnowTimes = 0 .. (4 - 1)
  BY SnowIDAssumption DEF S!ConstantsFit, SnowTimes

LEMMA SnowEncodeNat ==
    ASSUME NEW t \in Nat, NEW k \in SnowTimes, NEW q \in SnowSeqs
    PROVE  S!Encode(t, k, q) \in Nat
<1>1. t * NodeCount + NodeId \in Nat
  BY SnowConstants, SMT
<1>2. \A y \in Nat : y * 4 + k \in Nat
  BY DEF SnowTimes
<1>3. \A y \in Nat : y * SeqCount + q \in Nat
  BY SnowConstants, SMT DEF SnowSeqs
<1>4. (t * NodeCount + NodeId) * 4 + k \in Nat
  BY <1>1, <1>2
<1>5. ((t * NodeCount + NodeId) * 4 + k) * SeqCount + q \in Nat
  BY <1>3, <1>4
<1> QED
  BY <1>5 DEF S!Encode, S!snowClockBackMaxTimes

LEMMA SnowEncodeInjective ==
    ASSUME NEW t \in Nat, NEW k \in SnowTimes, NEW q \in SnowSeqs,
           NEW u \in Nat, NEW l \in SnowTimes, NEW r \in SnowSeqs,
           S!Encode(t, k, q) = S!Encode(u, l, r)
    PROVE  t = u /\ k = l /\ q = r
<1> DEFINE x == t * NodeCount + NodeId
           y == u * NodeCount + NodeId
           v == x * 4 + k
           w == y * 4 + l
<1>1. x \in Nat /\ y \in Nat
  BY SnowConstants, SMT
<1>2. v \in Nat /\ w \in Nat
  <2> HIDE DEF x, y
  <2> QED
    BY <1>1 DEF SnowTimes
<1>3. v * SeqCount + q = w * SeqCount + r
  BY DEF S!Encode, S!snowClockBackMaxTimes
<1>4. v = w /\ q = r
  <2> HIDE DEF v, w
  <2> QED
    BY <1>2, <1>3, SnowConstants, LeadingPart DEF SnowSeqs
<1>5. x = y /\ k = l
  <2>1. x * 4 + k = y * 4 + l
    BY <1>4
  <2> HIDE DEF x, y
  <2> QED
    BY <1>1, <2>1 DEF SnowTimes
<1>6. t * NodeCount + NodeId = u * NodeCount + NodeId
  BY <1>5
<1>7. t = u
  BY <1>6, SnowConstants, LeadingPart
<1> QED
  BY <1>4, <1>5, <1>7

LEMMA SnowFields ==
    ASSUME NEW t \in Nat, NEW k \in SnowTimes, NEW q \in SnowSeqs
    PROVE  /\ S!IDGetTimestamp(S!Encode(t, k, q)) = t
           /\ S!IDGetClockBackwardTimes(S!Encode(t, k, q)) = k
<1> DEFINE m == SeqCount * 4 * NodeCount
           a == NodeId * 4 + k
           b == NodeCount * 4
           r == a * SeqCount + q
           v == (t * NodeCount + NodeId) * 4 + k
<1>1. m \in Nat \ {0} /\ b \in Nat /\ a \in Nat /\ a < b
  <2>1. m \in Nat /\ m # 0
    BY SnowConstants, SMT
  <2>2. b \in Nat /\ a \in Nat /\ a < b
    BY SnowConstants DEF SnowTimes
  <2> QED
    BY <2>1, <2>2
<1>2. a * SeqCount \in Nat /\ b * SeqCount \in Nat /\ a * SeqCount + SeqCount <= b * SeqCount
  <2> HIDE DEF a, b
  <2> QED
    BY <1>1, SnowConstants, MulGap
<1>3. b * SeqCount = m
  BY SnowConstants, SMT
<1>4. r \in 0 .. (m - 1)
  <2> HIDE DEF a, b, m
  <2> QED
    BY <1>1, <1>2, <1>3, SnowConstants DEF SnowSeqs
<1>5. S!Encode(t, k, q) = t * m + r
  <2>1. S!Encode(t, k, q) = (t * NodeCount) * 4 * SeqCount + a * SeqCount + q
    BY SnowConstants, SMT DEF S!Encode, S!snowClockBackMaxTimes, SnowTimes, SnowSeqs
  <2>2. (t * NodeCount) * 4 * SeqCount = t * m
    BY SnowConstants, SMT
  <2> QED
    BY <2>1, <2>2, <1>1, <1>2, SnowConstants, SMT DEF SnowSeqs
<1>6. (t * m + r) \div m = t
  <2> HIDE DEF m, r
  <2> QED
    BY <1>1, <1>4, DivUnique
<1>7. t * NodeCount + NodeId \in Nat
  BY SnowConstants, SMT
<1>8. v \in Nat /\ v % 4 = k
  BY <1>7 DEF SnowTimes
<1>9. S!Encode(t, k, q) = v * SeqCount + q
  BY DEF S!Encode, S!snowClockBackMaxTimes
<1>10. (v * SeqCount + q) \div SeqCount = v
  <2> HIDE DEF v
  <2> QED
    BY <1>8, SnowConstants, DivUnique DEF SnowSeqs
<1>11. S!IDGetTimestamp(S!Encode(t, k, q)) = t
  <2>1. S!IDGetTimestamp(S!Encode(t, k, q)) = S!Encode(t, k, q) \div m
    BY DEF S!IDGetTimestamp, S!snowClockBackMaxTimes
  <2> QED
    BY <1>5, <1>6, <2>1
<1>12. S!IDGetClockBackwardTimes(S!Encode(t, k, q)) = k
  <2>1. S!IDGetClockBackwardTimes(S!Encode(t, k, q)) = (S!Encode(t, k, q) \div SeqCount) % 4
    BY DEF S!IDGetClockBackwardTimes, S!snowClockBackMaxTimes
  <2> QED
    BY <1>8, <1>9, <1>10, <2>1
<1> QED
  BY <1>11, <1>12-----------------------------------------------------------------------------
(* NewID: what is in the package variables.                                 *)

(* Where the first rollback began, 0 if none is recorded.                   *)
FirstPoint == snowIDClockBackPoints[1]

SnowTyped ==
    /\ snowIDTimestamp \in Nat
    /\ snowIDSeq \in SnowSeqs
    /\ snowIDClockBackPoints \in [1 .. 3 -> Nat]
    /\ snowIDClockBackTimes \in 0 .. 4
    /\ idPc \in {"idle", "waiting", "dead"}
    /\ idClock \in Nat \ {0}
    /\ peak \in Nat
    /\ booted \in Nat \ {0} /\ booted <= idClock

(* Unless the process has ended: the remembered time is one of this process, *)
(* ahead of the clock only during an episode of rollbacks, whose recorded   *)
(* beginning is the time of the last id before it.                          *)
SnowShape ==
    idPc # "dead" =>
        /\ snowIDTimestamp = 0 \/ booted <= snowIDTimestamp
        /\ snowIDTimestamp = 0 => idPc = "idle" /\ FirstPoint = 0
        /\ FirstPoint = 0 <=> snowIDClockBackTimes = 0
        /\ snowIDClockBackTimes <= 3
        /\ snowIDTimestamp <= idClock \/ snowIDTimestamp <= peak
        /\ FirstPoint = 0 => peak <= snowIDTimestamp
        /\ FirstPoint # 0 => FirstPoint = peak
        /\ idPc = "waiting" => snowIDSeq = 0

(* The counter of time t is used up to q.                                   *)
UpTo(t, q) ==
    \/ t < snowIDTimestamp
    \/ t = snowIDTimestamp /\ (q <= snowIDSeq \/ idPc = "waiting")

(* What is true of the fields of every id returned so far: it is of an      *)
(* earlier process; or not of the future, and not past what the variables   *)
(* record for its number of rollbacks.  After an episode no other can begin. *)
Spent(t, k, q) ==
    \/ t < booted
    \/ idPc = "dead"
    \/ /\ t <= idClock \/ t <= peak
       /\ IF FirstPoint = 0
          THEN IF k = 0 THEN UpTo(t, q) ELSE peak # 0 /\ peak < idClock
          ELSE /\ k <= snowIDClockBackTimes
               /\ k = snowIDClockBackTimes => UpTo(t, q)
               /\ k = 0 => t <= FirstPoint

IssuedSpent ==
    \A id \in issued : \E t \in Nat, k \in SnowTimes, q \in SnowSeqs :
        id = S!Encode(t, k, q) /\ Spent(t, k, q)

CountExact == IsFiniteSet(issued) /\ returned \in Nat /\ Cardinality(issued) = returned

SnowInv == SnowTyped /\ SnowShape /\ IssuedSpent /\ CountExact

LEMMA SnowInitInv == S!Init => SnowInv
<1> SUFFICES ASSUME S!Init PROVE SnowInv
  OBVIOUS
<1>1. SnowTyped
  BY SnowConstants DEF S!Init, S!NoPoints, S!snowClockBackMaxTimes, SnowTyped, SnowSeqs
<1>2. SnowShape
  BY DEF S!Init, S!NoPoints, S!snowClockBackMaxTimes, SnowShape, FirstPoint
<1>3. IssuedSpent /\ CountExact
  BY FS_EmptySet DEF S!Init, IssuedSpent, CountExact
<1> QED
  BY <1>1, <1>2, <1>3 DEF SnowInv

(* An id whose fields are not spent is new.                                 *)
LEMMA IssueNew ==
    ASSUME SnowInv, NEW now \in Nat, NEW times \in SnowTimes, NEW seq \in SnowSeqs,
           ~ Spent(now, times, seq),
           Spent(now, times, seq)',
           \A t \in Nat, k \in SnowTimes, q \in SnowSeqs : Spent(t, k, q) => Spent(t, k, q)',
           issued' = issued \union {S!Encode(now, times, seq)},
           returned' = returned + 1
    PROVE  IssuedSpent' /\ CountExact'
<1> DEFINE new == S!Encode(now, times, seq)
<1>1. new \notin issued
  <2> SUFFICES ASSUME new \in issued PROVE FALSE
    OBVIOUS
  <2>1. PICK t \in Nat, k \in SnowTimes, q \in SnowSeqs :
          new = S!Encode(t, k, q) /\ Spent(t, k, q)
    BY DEF SnowInv, IssuedSpent
  <2>2. t = now /\ k = times /\ q = seq
    BY <2>1, SnowEncodeInjective
  <2> QED
    BY <2>1, <2>2
<1>2. CountExact'
  <2>1. /\ IsFiniteSet(issued \union {new})
        /\ Cardinality(issued \union {new}) = Cardinality(issued) + 1
    BY <1>1, FS_AddElement DEF SnowInv, CountExact
  <2> QED
    BY <2>1 DEF SnowInv, CountExact
<1>3. IssuedSpent'
  <2> SUFFICES ASSUME NEW id \in issued'
               PROVE  \E t \in Nat, k \in SnowTimes, q \in SnowSeqs :
                         id = S!Encode(t, k, q) /\ Spent(t, k, q)'
    BY DEF IssuedSpent, S!Encode
  <2>1. CASE id \in issued
    BY <2>1 DEF SnowInv, IssuedSpent
  <2>2. CASE id = new
    BY <2>2
  <2> QED
    BY <2>1, <2>2
<1> QED
  BY <1>2, <1>3

(* No id is returned.                                                       *)
LEMMA IssueNone ==
    ASSUME SnowInv,
           \A t \in Nat, k \in SnowTimes, q \in SnowSeqs : Spent(t, k, q) => Spent(t, k, q)',
           UNCHANGED <<issued, returned>>
    PROVE  IssuedSpent' /\ CountExact'
<1>1. CountExact'
  BY DEF SnowInv, CountExact
<1>2. IssuedSpent'
  <2> SUFFICES ASSUME NEW id \in issued
               PROVE  \E t \in Nat, k \in SnowTimes, q \in SnowSeqs :
                         id = S!Encode(t, k, q) /\ Spent(t, k, q)'
    BY DEF IssuedSpent, S!Encode
  <2> QED
    BY DEF SnowInv, IssuedSpent
<1> QED
  BY <1>1, <1>2-----------------------------------------------------------------------------
(* NewID: the three ways to return an id.                                   *)

(* What RollbackIsFlagged says of a step.                                   *)
FlaggedStep ==
    \A id \in issued' \ issued :
        (\E old \in issued : S!IDGetTimestamp(id) < S!IDGetTimestamp(old)) =>
            S!IDGetClockBackwardTimes(id) > 0

LEMMA FlagNew ==
    ASSUME SnowInv, NEW now \in Nat, NEW times \in SnowTimes, NEW seq \in SnowSeqs,
           issued' = issued \union {S!Encode(now, times, seq)},
           times = 0 => \A t \in Nat, k \in SnowTimes, q \in SnowSeqs : Spent(t, k, q) => t <= now
    PROVE  FlaggedStep
<1> SUFFICES ASSUME NEW id \in issued' \ issued, NEW old \in issued,
                    S!IDGetTimestamp(id) < S!IDGetTimestamp(old)
             PROVE  S!IDGetClockBackwardTimes(id) > 0
  BY DEF FlaggedStep
<1>1. S!IDGetTimestamp(id) = now /\ S!IDGetClockBackwardTimes(id) = times
  BY SnowFields
<1>2. PICK t \in Nat, k \in SnowTimes, q \in SnowSeqs : old = S!Encode(t, k, q) /\ Spent(t, k, q)
  BY DEF SnowInv, IssuedSpent
<1>3. now < t
  BY <1>1, <1>2, SnowFields
<1>4. times # 0
  BY <1>2, <1>3
<1> QED
  BY <1>1, <1>4 DEF SnowTimes

(* Outside an episode of rollbacks, or at its end: at the time of the clock. *)
LEMMA ReturnFree ==
    ASSUME SnowInv, idPc # "dead", FirstPoint < idClock, NEW seq \in SnowSeqs,
           \/ snowIDTimestamp < idClock
           \/ snowIDTimestamp = idClock /\ idPc = "idle" /\ snowIDSeq < seq,
           S!Return(idClock, 0, seq),
           snowIDClockBackPoints' \in [1 .. 3 -> Nat], FirstPoint' = 0
    PROVE  SnowInv' /\ FlaggedStep
<1>1. /\ snowIDTimestamp' = idClock /\ snowIDClockBackTimes' = 0 /\ snowIDSeq' = seq
      /\ idPc' = "idle" /\ UNCHANGED <<idClock, peak, booted>>
      /\ issued' = issued \union {S!Encode(idClock, 0, seq)}
      /\ returned' = returned + 1
  BY DEF S!Return, S!envVars
<1>2. SnowTyped'
  BY <1>1 DEF SnowInv, SnowTyped
<1>3. SnowShape'
  BY <1>1 DEF SnowInv, SnowTyped, SnowShape, FirstPoint
<1>4. idClock \in Nat /\ 0 \in SnowTimes
  BY DEF SnowInv, SnowTyped, SnowTimes
<1>5. ASSUME NEW t \in Nat, NEW k \in SnowTimes, NEW q \in SnowSeqs, Spent(t, k, q)
      PROVE  t <= idClock /\ Spent(t, k, q)' /\ ~ (t = idClock /\ k = 0 /\ q = seq)
  <2>1. CASE t < booted
    BY <1>1, <2>1 DEF SnowInv, SnowTyped, Spent
  <2>2. CASE t >= booted /\ FirstPoint = 0
    BY <1>1, <1>5, <2>2 DEF SnowInv, SnowTyped, SnowShape, Spent, UpTo, FirstPoint, SnowTimes, SnowSeqs
  <2>3. CASE t >= booted /\ FirstPoint # 0
    BY <1>1, <1>5, <2>3 DEF SnowInv, SnowTyped, SnowShape, Spent, UpTo, FirstPoint, SnowTimes, SnowSeqs
  <2> QED
    BY <2>1, <2>2, <2>3 DEF SnowInv, SnowTyped
<1>6. Spent(idClock, 0, seq)'
  BY <1>1 DEF SnowInv, SnowTyped, Spent, UpTo, SnowSeqs
<1>7. IssuedSpent' /\ CountExact'
  <2>1. ~ Spent(idClock, 0, seq)
    BY <1>4, <1>5
  <2> QED
    BY <1>1, <1>4, <1>5, <1>6, <2>1, IssueNew
<1>8. FlaggedStep
  BY <1>1, <1>4, <1>5, FlagNew
<1> QED
  BY <1>2, <1>3, <1>7, <1>8 DEF SnowInv

(* Inside an episode: later than the last id of the same number of rollbacks. *)
LEMMA ReturnInside ==
    ASSUME SnowInv, idPc # "dead", FirstPoint # 0, NEW now \in Nat, NEW seq \in SnowSeqs,
           \/ snowIDTimestamp < now /\ now = idClock
           \/ snowIDTimestamp = now /\ idPc = "idle" /\ snowIDSeq < seq,
           S!Return(now, snowIDClockBackTimes, seq),
           UNCHANGED snowIDClockBackPoints
    PROVE  SnowInv' /\ FlaggedStep
<1>1. PICK times \in SnowTimes : times = snowIDClockBackTimes /\ times # 0
  BY DEF SnowInv, SnowTyped, SnowShape, SnowTimes
<1>2. /\ snowIDTimestamp' = now /\ UNCHANGED snowIDClockBackTimes /\ snowIDSeq' = seq
      /\ idPc' = "idle" /\ UNCHANGED <<idClock, peak, booted>>
      /\ issued' = issued \union {S!Encode(now, times, seq)}
      /\ returned' = returned + 1
  BY <1>1 DEF S!Return, S!envVars
<1>3. SnowTyped'
  BY <1>2 DEF SnowInv, SnowTyped
<1>4. SnowShape'
  BY <1>2 DEF SnowInv, SnowTyped, SnowShape, FirstPoint
<1>5. ASSUME NEW t \in Nat, NEW k \in SnowTimes, NEW q \in SnowSeqs, Spent(t, k, q)
      PROVE  Spent(t, k, q)' /\ ~ (t = now /\ k = times /\ q = seq)
  <2>1. CASE t < booted
    BY <1>1, <1>2, <2>1 DEF SnowInv, SnowTyped, SnowShape, Spent
  <2>2. CASE t >= booted
    BY <1>1, <1>2, <1>5, <2>2 DEF SnowInv, SnowTyped, SnowShape, Spent, UpTo, FirstPoint, SnowTimes, SnowSeqs
  <2> QED
    BY <2>1, <2>2 DEF SnowInv, SnowTyped
<1>6. Spent(now, times, seq)'
  BY <1>1, <1>2 DEF SnowInv, SnowTyped, SnowShape, Spent, UpTo, FirstPoint, SnowSeqs
<1>7. IssuedSpent' /\ CountExact'
  <2>1. ~ Spent(now, times, seq)
    BY <1>1, <1>5
  <2> QED
    BY <1>1, <1>2, <1>5, <1>6, <2>1, IssueNew
<1>8. FlaggedStep
  BY <1>1, <1>2, FlagNew
<1> QED
  BY <1>3, <1>4, <1>7, <1>8 DEF SnowInv

(* The rollback that is recorded begins an episode, or is one more in it.   *)
LEMMA ReturnBack ==
    ASSUME SnowInv, idPc # "dead", idClock < snowIDTimestamp,
           NEW seq \in SnowSeqs,
           S!ClockBack(snowIDClockBackPoints, snowIDClockBackTimes, idClock, seq)
    PROVE  SnowInv' /\ FlaggedStep
<1>1. CASE snowIDClockBackTimes + 1 > 3
  <2>1. /\ idPc' = "dead" /\ snowIDClockBackTimes' = snowIDClockBackTimes + 1
        /\ UNCHANGED <<snowIDClockBackPoints, snowIDTimestamp, snowIDSeq, idClock, peak, booted,
                       issued, returned>>
    BY <1>1 DEF S!ClockBack, S!snowClockBackMaxTimes, S!envVars
  <2>2. SnowTyped' /\ SnowShape'
    BY <2>1 DEF SnowInv, SnowTyped, SnowShape
  <2>3. IssuedSpent' /\ CountExact'
    BY <2>1, IssueNone DEF Spent
  <2> QED
    BY <2>1, <2>2, <2>3 DEF SnowInv, FlaggedStep
<1>2. CASE snowIDClockBackTimes + 1 <= 3
  <2>1. PICK times \in SnowTimes : times = snowIDClockBackTimes + 1
    BY <1>2 DEF SnowInv, SnowTyped, SnowTimes
  <2>2. times # 0 /\ idClock \in Nat
    BY <2>1 DEF SnowInv, SnowTyped
  <2>3. /\ snowIDTimestamp' = idClock /\ snowIDClockBackTimes' = times /\ snowIDSeq' = seq
        /\ idPc' = "idle" /\ UNCHANGED <<idClock, peak, booted>>
        /\ snowIDClockBackPoints' = [snowIDClockBackPoints EXCEPT ![times] = snowIDTimestamp]
        /\ issued' = issued \union {S!Encode(idClock, times, seq)}
        /\ returned' = returned + 1
    BY <1>2, <2>1 DEF S!ClockBack, S!Return, S!snowClockBackMaxTimes, S!envVars, SnowInv, SnowTyped
  <2>4. /\ FirstPoint' = IF FirstPoint = 0 THEN snowIDTimestamp ELSE FirstPoint
        /\ FirstPoint' = peak /\ FirstPoint' # 0
    BY <2>1, <2>3 DEF SnowInv, SnowTyped, SnowShape, FirstPoint
  <2>5. SnowTyped'
    BY <2>1, <2>2, <2>3 DEF SnowInv, SnowTyped, SnowTimes
  <2>6. SnowShape'
    BY <2>1, <2>2, <2>3, <2>4 DEF SnowInv, SnowTyped, SnowShape, SnowTimes
  <2>7. ASSUME NEW t \in Nat, NEW k \in SnowTimes, NEW q \in SnowSeqs, Spent(t, k, q)
        PROVE  Spent(t, k, q)' /\ ~ (t = idClock /\ k = times /\ q = seq)
    <3>1. CASE t < booted
      BY <2>1, <2>3, <3>1 DEF SnowInv, SnowTyped, SnowShape, Spent
    <3>2. CASE t >= booted
      <4>1. (t <= idClock \/ t <= peak) /\ k < times /\ (k = 0 => t <= FirstPoint')
        BY <2>1, <2>2, <2>4, <2>7, <3>2
           DEF SnowInv, SnowTyped, SnowShape, Spent, UpTo, FirstPoint, SnowTimes
      <4> QED
        BY <2>1, <2>2, <2>3, <2>4, <4>1 DEF Spent, SnowTimes
    <3> QED
      BY <3>1, <3>2 DEF SnowInv, SnowTyped
  <2>8. Spent(idClock, times, seq)'
    BY <2>1, <2>2, <2>3, <2>4 DEF SnowInv, SnowTyped, Spent, UpTo, SnowSeqs
  <2>9. IssuedSpent' /\ CountExact'
    <3>1. ~ Spent(idClock, times, seq)
      BY <2>2, <2>7
    <3> QED
      BY <2>1, <2>2, <2>3, <2>7, <2>8, <3>1, IssueNew
  <2>10. FlaggedStep
    BY <2>1, <2>2, <2>3, FlagNew
  <2> QED
    BY <2>5, <2>6, <2>9, <2>10 DEF SnowInv
<1> QED
  BY <1>1, <1>2 DEF SnowInv, SnowTyped-----------------------------------------------------------------------------
(* NewID: the steps.                                                        *)

(* The first `if` of NewID has three outcomes.                              *)
LEMMA SnowEntry ==
    ASSUME SnowInv, idPc = "idle"
    PROVE  \/ /\ FirstPoint = 0
              /\ S!EntryNow = idClock /\ S!EntryTimes = 0
              /\ S!EntryPoints = snowIDClockBackPoints
           \/ /\ FirstPoint # 0 /\ FirstPoint < idClock
              /\ S!EntryNow = idClock /\ S!EntryTimes = 0 /\ S!EntryPoints = [i \in 1 .. 3 |-> 0]
              /\ snowIDTimestamp <= idClock
           \/ /\ FirstPoint # 0 /\ idClock <= FirstPoint
              /\ S!EntryNow = snowIDTimestamp /\ S!EntryTimes = snowIDClockBackTimes
              /\ S!EntryPoints = snowIDClockBackPoints
  BY DEF SnowInv, SnowTyped, SnowShape, FirstPoint, S!EntryNow, S!EntryTimes, S!EntryPoints,
         S!Recovered, S!NoPoints, S!snowClockBackMaxTimes

LEMMA NextSeqValue ==
    ASSUME SnowInv
    PROVE  /\ S!NextSeq \in SnowSeqs
           /\ S!NextSeq # 0 => S!NextSeq = snowIDSeq + 1
<1>1. snowIDSeq \in 0 .. (SeqCount - 1) /\ SeqCount \in Nat \ {0}
  BY SnowConstants DEF SnowInv, SnowTyped, SnowSeqs
<1>2. CASE snowIDSeq + 1 < SeqCount
  <2>1. (snowIDSeq + 1) % SeqCount = snowIDSeq + 1
    BY <1>1, <1>2
  <2> QED
    BY <1>1, <1>2, <2>1 DEF S!NextSeq, SnowSeqs
<1>3. CASE snowIDSeq + 1 = SeqCount
  <2>1. (snowIDSeq + 1) % SeqCount = 0
    BY <1>1, <1>3
  <2> QED
    BY <1>1, <2>1 DEF S!NextSeq, SnowSeqs
<1> QED
  BY <1>1, <1>2, <1>3

LEMMA NewIDSameKeeps ==
    ASSUME SnowInv, S!NewIDSame
    PROVE  SnowInv' /\ FlaggedStep
<1>1. idPc = "idle" /\ snowIDClockBackPoints \in [1 .. 3 -> Nat] /\ idClock \in Nat \ {0}
      /\ snowIDTimestamp \in Nat /\ snowIDSeq \in Nat
  BY SnowConstants DEF S!NewIDSame, SnowInv, SnowTyped, SnowSeqs
<1>2. S!NextSeq \in SnowSeqs /\ S!NextSeq = snowIDSeq + 1
  BY NextSeqValue DEF S!NewIDSame
<1>3. PICK seq \in SnowSeqs : seq = S!NextSeq
  BY <1>2
<1>4. CASE FirstPoint < idClock /\ S!EntryNow = idClock /\ S!EntryTimes = 0
           /\ S!EntryPoints \in [1 .. 3 -> Nat] /\ S!EntryPoints[1] = 0
  <2>1. snowIDTimestamp = idClock /\ snowIDSeq < seq /\ S!Return(idClock, 0, seq)
    BY <1>1, <1>2, <1>3, <1>4 DEF S!NewIDSame
  <2>2. snowIDClockBackPoints' \in [1 .. 3 -> Nat] /\ FirstPoint' = 0
    BY <1>4 DEF S!NewIDSame, FirstPoint
  <2> QED
    BY <1>1, <1>4, <2>1, <2>2, ReturnFree
<1>5. CASE FirstPoint # 0 /\ S!EntryNow = snowIDTimestamp /\ S!EntryTimes = snowIDClockBackTimes
           /\ S!EntryPoints = snowIDClockBackPoints
  <2>1. PICK now \in Nat : now = snowIDTimestamp
    BY <1>1
  <2>2. S!Return(now, snowIDClockBackTimes, seq) /\ snowIDSeq < seq
    BY <1>1, <1>2, <1>3, <1>5, <2>1 DEF S!NewIDSame
  <2>3. UNCHANGED snowIDClockBackPoints
    BY <1>5 DEF S!NewIDSame
  <2> QED
    BY <1>1, <1>5, <2>1, <2>2, <2>3, ReturnInside
<1>6. [i \in 1 .. 3 |-> 0] \in [1 .. 3 -> Nat] /\ [i \in 1 .. 3 |-> 0][1] = 0
  OBVIOUS
<1> QED
  BY <1>1, <1>4, <1>5, <1>6, SnowEntry DEF FirstPoint

LEMMA NewIDLaterKeeps ==
    ASSUME SnowInv, S!NewIDLater
    PROVE  SnowInv' /\ FlaggedStep
<1>1. /\ idPc = "idle" /\ snowIDClockBackPoints \in [1 .. 3 -> Nat] /\ idClock \in Nat \ {0}
      /\ snowIDTimestamp \in Nat /\ S!EntryNow > snowIDTimestamp /\ 0 \in SnowSeqs
  BY SnowConstants DEF S!NewIDLater, SnowInv, SnowTyped, SnowSeqs
<1>2. [i \in 1 .. 3 |-> 0] \in [1 .. 3 -> Nat] /\ [i \in 1 .. 3 |-> 0][1] = 0
  OBVIOUS
<1>3. /\ FirstPoint < idClock /\ S!EntryNow = idClock /\ S!EntryTimes = 0
      /\ S!EntryPoints \in [1 .. 3 -> Nat] /\ S!EntryPoints[1] = 0
  BY <1>1, <1>2, SnowEntry DEF FirstPoint
<1>4. snowIDTimestamp < idClock /\ S!Return(idClock, 0, 0)
  BY <1>1, <1>3 DEF S!NewIDLater
<1>5. snowIDClockBackPoints' \in [1 .. 3 -> Nat] /\ FirstPoint' = 0
  BY <1>3 DEF S!NewIDLater, FirstPoint
<1> QED
  BY <1>1, <1>3, <1>4, <1>5, ReturnFree

LEMMA NewIDBackKeeps ==
    ASSUME SnowInv, S!NewIDBack
    PROVE  SnowInv' /\ FlaggedStep
<1>1. /\ idPc = "idle" /\ idClock \in Nat \ {0}
      /\ snowIDTimestamp \in Nat /\ S!EntryNow < snowIDTimestamp /\ 0 \in SnowSeqs
  BY SnowConstants DEF S!NewIDBack, SnowInv, SnowTyped, SnowSeqs
<1>2. /\ S!EntryNow = idClock /\ S!EntryTimes = 0 /\ FirstPoint = 0
      /\ S!EntryPoints = snowIDClockBackPoints
  BY <1>1, SnowEntry
<1>3. snowIDClockBackTimes = 0
  BY <1>1, <1>2 DEF SnowInv, SnowShape
<1>4. S!ClockBack(snowIDClockBackPoints, snowIDClockBackTimes, idClock, 0)
  BY <1>2, <1>3 DEF S!NewIDBack
<1> QED
  BY <1>1, <1>2, <1>4, ReturnBack

LEMMA NewIDExhaustedKeeps ==
    ASSUME SnowInv, S!NewIDExhausted
    PROVE  SnowInv' /\ FlaggedStep
<1>1. /\ idPc = "idle" /\ idClock \in Nat \ {0} /\ snowIDTimestamp \in Nat
      /\ S!EntryNow = snowIDTimestamp /\ 0 \in SnowSeqs
  BY SnowConstants DEF S!NewIDExhausted, SnowInv, SnowTyped, SnowSeqs
<1>2. /\ snowIDSeq' = 0 /\ idPc' = "waiting"
      /\ snowIDClockBackPoints' = S!EntryPoints /\ snowIDClockBackTimes' = S!EntryTimes
      /\ UNCHANGED <<snowIDTimestamp, idClock, peak, booted, issued, returned>>
  BY DEF S!NewIDExhausted, S!envVars
<1>3. [i \in 1 .. 3 |-> 0] \in [1 .. 3 -> Nat] /\ [i \in 1 .. 3 |-> 0][1] = 0
  OBVIOUS
<1>4. CASE FirstPoint = 0 \/ FirstPoint < idClock
  <2>1. snowIDTimestamp = idClock
    BY <1>1, <1>4, SnowEntry DEF SnowInv, SnowTyped, FirstPoint
  <2>2. snowIDClockBackTimes' = 0 /\ snowIDClockBackPoints' \in [1 .. 3 -> Nat] /\ FirstPoint' = 0
    BY <1>1, <1>2, <1>3, <1>4, SnowEntry DEF SnowInv, SnowTyped, FirstPoint
  <2>3. SnowTyped'
    BY <1>1, <1>2, <2>2 DEF SnowInv, SnowTyped
  <2>4. SnowShape'
    BY <1>1, <1>2, <1>4, <2>1, <2>2 DEF SnowInv, SnowTyped, SnowShape, FirstPoint
  <2>5. ASSUME NEW t \in Nat, NEW k \in SnowTimes, NEW q \in SnowSeqs, Spent(t, k, q)
        PROVE  Spent(t, k, q)'
    <3>1. CASE t < booted
      BY <1>2, <3>1 DEF Spent
    <3>2. CASE t >= booted /\ FirstPoint = 0
      BY <1>1, <1>2, <2>1, <2>2, <2>5, <3>2
         DEF SnowInv, SnowTyped, SnowShape, Spent, UpTo, SnowTimes
    <3>3. CASE t >= booted /\ FirstPoint # 0
      <4>1. FirstPoint = peak /\ peak < idClock /\ peak # 0 /\ peak \in Nat
        BY <1>1, <1>4, <3>3 DEF SnowInv, SnowTyped, SnowShape
      <4> QED
        BY <1>1, <1>2, <2>1, <2>2, <2>5, <3>3, <4>1
           DEF SnowInv, SnowTyped, Spent, UpTo, SnowTimes
    <3> QED
      BY <3>1, <3>2, <3>3 DEF SnowInv, SnowTyped
  <2> QED
    BY <1>2, <2>3, <2>4, <2>5, IssueNone DEF SnowInv, FlaggedStep
<1>5. CASE FirstPoint # 0 /\ idClock <= FirstPoint
  <2>1. UNCHANGED <<snowIDClockBackTimes, snowIDClockBackPoints>> /\ FirstPoint' = FirstPoint
    BY <1>1, <1>2, <1>5, SnowEntry DEF SnowInv, SnowTyped, FirstPoint
  <2>2. SnowTyped'
    BY <1>1, <1>2, <2>1 DEF SnowInv, SnowTyped
  <2>3. SnowShape'
    BY <1>1, <1>2, <1>5, <2>1 DEF SnowInv, SnowTyped, SnowShape
  <2>4. ASSUME NEW t \in Nat, NEW k \in SnowTimes, NEW q \in SnowSeqs, Spent(t, k, q)
        PROVE  Spent(t, k, q)'
    BY <1>1, <1>2, <2>1, <2>4 DEF Spent, UpTo
  <2> QED
    BY <1>2, <2>2, <2>3, <2>4, IssueNone DEF SnowInv, FlaggedStep
<1> QED
  BY <1>4, <1>5 DEF SnowInv, SnowTyped, FirstPoint

LEMMA WakeKeeps ==
    ASSUME SnowInv, S!Wake
    PROVE  SnowInv' /\ FlaggedStep
<1>1. /\ idPc = "waiting" /\ idClock \in Nat \ {0} /\ snowIDTimestamp \in Nat
      /\ snowIDSeq \in SnowSeqs /\ snowIDClockBackPoints \in [1 .. 3 -> Nat]
  BY DEF S!Wake, S!WaitDone, S!WaitBack, SnowInv, SnowTyped
<1>2. PICK seq \in SnowSeqs : seq = snowIDSeq
  BY <1>1
<1>3. CASE S!WaitDone
  <2>1. /\ snowIDTimestamp < idClock /\ UNCHANGED snowIDClockBackPoints
        /\ S!Return(idClock, snowIDClockBackTimes, seq)
    BY <1>1, <1>2, <1>3 DEF S!WaitDone
  <2>2. CASE FirstPoint = 0
    <3>1. snowIDClockBackTimes = 0 /\ FirstPoint < idClock /\ FirstPoint' = 0
      BY <1>1, <2>1, <2>2 DEF SnowInv, SnowShape, FirstPoint
    <3> QED
      BY <1>1, <2>1, <3>1, ReturnFree
  <2>3. CASE FirstPoint # 0
    <3>1. PICK now \in Nat : now = idClock
      BY <1>1
    <3>2. S!Return(now, snowIDClockBackTimes, seq)
      BY <2>1, <3>1
    <3> QED
      BY <1>1, <2>1, <2>3, <3>1, <3>2, ReturnInside
  <2> QED
    BY <2>2, <2>3
<1>4. CASE S!WaitBack
  <2>1. /\ idClock < snowIDTimestamp
        /\ S!ClockBack(snowIDClockBackPoints, snowIDClockBackTimes, idClock, seq)
    BY <1>2, <1>4 DEF S!WaitBack
  <2> QED
    BY <1>1, <2>1, ReturnBack
<1> QED
  BY <1>3, <1>4 DEF S!Wake
LEMMA SnowTickKeeps ==
    ASSUME SnowInv, S!Tick
    PROVE  SnowInv' /\ FlaggedStep
<1>1. /\ idClock' = idClock + 1
      /\ UNCHANGED <<snowIDTimestamp, snowIDSeq, snowIDClockBackPoints, snowIDClockBackTimes, idPc,
                     peak, booted, issued, returned>>
  BY DEF S!Tick, S!codeVars
<1>2. SnowTyped'
  BY <1>1 DEF SnowInv, SnowTyped
<1>3. SnowShape'
  BY <1>1 DEF SnowInv, SnowTyped, SnowShape, FirstPoint
<1>4. ASSUME NEW t \in Nat, NEW k \in SnowTimes, NEW q \in SnowSeqs, Spent(t, k, q)
      PROVE  Spent(t, k, q)'
  BY <1>1, <1>4 DEF SnowInv, SnowTyped, Spent, UpTo, FirstPoint
<1> QED
  BY <1>1, <1>2, <1>3, <1>4, IssueNone DEF SnowInv, FlaggedStep

(* Only here it matters that the clock is not set back again once it has    *)
(* recovered: ids marked as of a rollback could else be given out twice.    *)
LEMMA SnowStepBackKeeps ==
    ASSUME SnowInv, S!StepBack, ~ MayRevisit
    PROVE  SnowInv' /\ FlaggedStep
<1>1. PICK c \in booted .. (idClock - 1) :
        /\ idClock' = c
        /\ peak' = IF peak = 0 THEN snowIDTimestamp ELSE peak
        /\ peak = 0 \/ idClock <= peak
        /\ UNCHANGED <<snowIDTimestamp, snowIDSeq, snowIDClockBackPoints, snowIDClockBackTimes,
                       idPc, booted, issued, returned>>
  BY DEF S!StepBack, S!codeVars
<1>2. SnowTyped'
  BY <1>1 DEF SnowInv, SnowTyped
<1>3. SnowShape'
  BY <1>1 DEF SnowInv, SnowTyped, SnowShape, FirstPoint
<1>4. ASSUME NEW t \in Nat, NEW k \in SnowTimes, NEW q \in SnowSeqs, Spent(t, k, q)
      PROVE  Spent(t, k, q)'
  <2>1. CASE t < booted \/ idPc = "dead"
    BY <1>1, <2>1 DEF Spent
  <2>2. CASE t >= booted /\ idPc # "dead"
    BY <1>1, <1>4, <2>2 DEF SnowInv, SnowTyped, SnowShape, Spent, UpTo, FirstPoint
  <2> QED
    BY <2>1, <2>2 DEF SnowInv, SnowTyped
<1> QED
  BY <1>1, <1>2, <1>3, <1>4, IssueNone DEF SnowInv, FlaggedStep

LEMMA SnowRestartKeeps ==
    ASSUME SnowInv, S!Restart
    PROVE  SnowInv' /\ FlaggedStep
<1>1. /\ snowIDTimestamp' = 0 /\ snowIDSeq' = 0 /\ snowIDClockBackTimes' = 0
      /\ snowIDClockBackPoints' = [i \in 1 .. 3 |-> 0]
      /\ idPc' = "idle" /\ peak' = 0 /\ booted' = idClock
      /\ UNCHANGED <<idClock, issued, returned>>
      /\ \A id \in issued : S!IDGetTimestamp(id) < idClock
  BY DEF S!Restart, S!NoPoints, S!snowClockBackMaxTimes
<1>2. SnowTyped'
  BY <1>1, SnowConstants DEF SnowInv, SnowTyped, SnowSeqs
<1>3. SnowShape'
  BY <1>1 DEF SnowInv, SnowTyped, SnowShape, FirstPoint
<1>4. IssuedSpent'
  <2> SUFFICES ASSUME NEW id \in issued
               PROVE  \E t \in Nat, k \in SnowTimes, q \in SnowSeqs :
                         id = S!Encode(t, k, q) /\ Spent(t, k, q)'
    BY <1>1 DEF IssuedSpent, S!Encode
  <2>1. PICK t \in Nat, k \in SnowTimes, q \in SnowSeqs : id = S!Encode(t, k, q)
    BY DEF SnowInv, IssuedSpent
  <2>2. t < idClock
    BY <1>1, <2>1, SnowFields
  <2> QED
    BY <1>1, <2>1, <2>2 DEF Spent
<1>5. CountExact'
  BY <1>1 DEF SnowInv, CountExact
<1> QED
  BY <1>1, <1>2, <1>3, <1>4, <1>5 DEF SnowInv, FlaggedStep

LEMMA SnowStutter ==
    ASSUME SnowInv, UNCHANGED newIdVars
    PROVE  SnowInv' /\ FlaggedStep
<1>1. UNCHANGED <<snowIDTimestamp, snowIDSeq, snowIDClockBackPoints, snowIDClockBackTimes,
                  idPc, idClock, peak, booted, issued, returned>>
  BY DEF newIdVars
<1>2. SnowTyped' /\ SnowShape'
  BY <1>1 DEF SnowInv, SnowTyped, SnowShape, FirstPoint
<1>3. ASSUME NEW t \in Nat, NEW k \in SnowTimes, NEW q \in SnowSeqs, Spent(t, k, q)
      PROVE  Spent(t, k, q)'
  BY <1>1, <1>3 DEF Spent, UpTo, FirstPoint
<1> QED
  BY <1>1, <1>2, <1>3, IssueNone DEF SnowInv, FlaggedStep

LEMMA SnowStep ==
    ASSUME SnowInv, [IdsNext]_all, ~ MayRevisit
    PROVE  SnowInv' /\ FlaggedStep
<1>1. CASE UNCHANGED newIdVars
  BY <1>1, SnowStutter
<1>2. CASE S!Next
  <2>1. CASE S!NewID
    BY <2>1, NewIDSameKeeps, NewIDExhaustedKeeps, NewIDLaterKeeps, NewIDBackKeeps DEF S!NewID
  <2>2. CASE S!Wake \/ S!Tick \/ S!StepBack \/ S!Restart
    BY <2>2, WakeKeeps, SnowTickKeeps, SnowStepBackKeeps, SnowRestartKeeps
  <2>3. CASE S!Horizon
    <3>1. UNCHANGED newIdVars
      BY <2>3 DEF S!Horizon, S!vars, S!codeVars, S!envVars, newIdVars
    <3> QED
      BY <3>1, SnowStutter
  <2> QED
    BY <1>2, <2>1, <2>2, <2>3 DEF S!Next
<1> QED
  BY <1>1, <1>2 DEF IdsNext, Snow, NewIDs, Dist, all

(* ids.NewID: no two calls return the same id, across restarts and through  *)
(* up to three rollbacks of the clock inside one another (the process ends  *)
(* at the fourth), as long as they belong to one episode: the clock is not  *)
(* set back again once it has passed the time of the last id before it.     *)
THEOREM NewIDsAreUnique ==
    ASSUME ~ MayRevisit
    PROVE  IdsSpec => []Unique
<1>1. IdsInit => SnowInv
  BY SnowInitInv DEF IdsInit
<1>2. SnowInv /\ [IdsNext]_all => SnowInv'
  BY SnowStep
<1>3. SnowInv => Unique
  BY DEF SnowInv, CountExact, Unique, S!Unique, S!Cardinality, Cardinality
<1> QED
  BY <1>1, <1>2, <1>3, PTL DEF IdsSpec

(* ids.NewID: under the same condition an id from an earlier time than one  *)
(* already returned has a rollback count in its field.                      *)
THEOREM RollbacksAreFlagged ==
    ASSUME ~ MayRevisit
    PROVE  IdsSpec => RollbackIsFlagged
<1>1. IdsInit => SnowInv
  BY SnowInitInv DEF IdsInit
<1>2. SnowInv /\ [IdsNext]_all => SnowInv'
  BY SnowStep
<1>3. SnowInv /\ [IdsNext]_all => [FlaggedStep]_(S!vars)
  BY SnowStep
<1> QED
  BY <1>1, <1>2, <1>3, PTL DEF IdsSpec, RollbackIsFlagged, S!RollbackIsFlagged, FlaggedStep
=============================================================================
