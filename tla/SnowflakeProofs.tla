--------------------------- MODULE SnowflakeProofs ---------------------------
(***************************************************************************)
(* Proofs, for every size of the bit fields and every set of generators,   *)
(* of the safety properties of Snowflake.                                  *)
(***************************************************************************)
EXTENDS Snowflake, TLAPS

(***************************************************************************)
(* Arithmetic of the bit fields.                                           *)
(***************************************************************************)

\* Products of naturals are naturals, of positive ones positive.
LEMMA ProductType ==
  ASSUME NEW a \in Nat, NEW b \in Nat
  PROVE  /\ a * b \in Nat
         /\ a # 0 /\ b # 0 => a * b # 0
OBVIOUS

\* Multiplication by a positive number is strictly monotone.
LEMMA ScaleMonotone ==
  ASSUME NEW a \in Nat, NEW b \in Nat, NEW m \in Nat, a < b
  PROVE  a * m + m <= b * m
<1>1. PICK k \in Nat : b = a + 1 + k
  <2>1. b - a - 1 \in Nat /\ b = a + 1 + (b - a - 1)
    OBVIOUS
  <2>2. QED BY <2>1
<1>2. b * m = a * m + m + k * m
  BY <1>1
<1>3. k * m \in Nat
  BY ProductType
<1>4. a * m \in Nat
  BY ProductType
<1>5. QED BY <1>2, <1>3, <1>4

\* A digit appended to a number keeps the order, and can be read back.
LEMMA AppendDigit ==
  ASSUME NEW m \in Nat \ {0},
         NEW a \in Nat, NEW b \in Nat,
         NEW x \in 0 .. m - 1, NEW y \in 0 .. m - 1
  PROVE  /\ a < b => a * m + x < b * m + y
         /\ a * m + x = b * m + y => a = b /\ x = y
<1>0. a * m \in Nat /\ b * m \in Nat
  BY ProductType
<1>1. ASSUME a < b PROVE a * m + x < b * m + y
  BY <1>0, <1>1, ScaleMonotone
<1>2. ASSUME b < a PROVE b * m + y < a * m + x
  BY <1>0, <1>2, ScaleMonotone
<1>3. ASSUME a * m + x = b * m + y PROVE a = b /\ x = y
  <2>1. a = b
    BY <1>0, <1>1, <1>2, <1>3
  <2>2. QED BY <1>0, <1>3, <2>1
<1>4. QED BY <1>1, <1>3

\* A digit appended to a number below n gives one below n * m.
LEMMA AppendDigitRange ==
  ASSUME NEW m \in Nat \ {0}, NEW n \in Nat \ {0},
         NEW a \in 0 .. n - 1, NEW x \in 0 .. m - 1
  PROVE  a * m + x \in 0 .. (n * m) - 1
<1>1. a * m \in Nat /\ n * m \in Nat
  BY ProductType
<1>2. a * m + m <= n * m
  BY ScaleMonotone
<1>3. QED BY <1>1, <1>2

\* The timestamps an id may carry.
Stamps == BaseEpoch .. MaxClock + 1

\* An id, digit by digit.
Digits(w, t, s) ==
  (((t - BaseEpoch) * DataCenterSize + w.dataCenterId) * WorkerSize + w.workerId)
    * SequenceSize + s

LEMMA UnitsType ==
  /\ WorkerUnit \in Nat \ {0}
  /\ DataCenterUnit \in Nat \ {0}
  /\ TimestampUnit \in Nat \ {0}
  /\ IdModulus \in Nat \ {0}
<1> USE SizesAssumption, ProductType
<1>1. WorkerUnit \in Nat \ {0}
  BY DEF WorkerUnit
<1>2. SequenceSize * WorkerSize \in Nat \ {0}
  OBVIOUS
<1>3. TimestampUnit \in Nat \ {0}
  BY <1>2 DEF TimestampUnit
<1>4. IdModulus \in Nat \ {0}
  BY <1>3 DEF IdModulus
<1>5. QED BY <1>1, <1>2, <1>3, <1>4 DEF DataCenterUnit

\* The time of an id fits its field, so the shift loses nothing.
LEMMA TimeFits ==
  ASSUME NEW t \in Stamps
  PROVE  /\ t - BaseEpoch \in 0 .. TimestampSize - 1
         /\ ((t - BaseEpoch) * TimestampUnit) % IdModulus
              = (t - BaseEpoch) * TimestampUnit
<1>1. t - BaseEpoch \in 0 .. TimestampSize - 1
  BY ClockAssumption, SizesAssumption DEF Stamps
<1>2. (t - BaseEpoch) * TimestampUnit + 0 \in 0 .. (TimestampSize * TimestampUnit) - 1
  BY <1>1, UnitsType, SizesAssumption, AppendDigitRange
<1>3. (t - BaseEpoch) * TimestampUnit \in 0 .. IdModulus - 1
  <2>1. (t - BaseEpoch) * TimestampUnit \in Nat
    BY <1>1, UnitsType, ProductType
  <2>2. TimestampSize * TimestampUnit = IdModulus
    BY UnitsType, SizesAssumption DEF IdModulus
  <2>3. QED BY <1>2, <2>1, <2>2
<1>4. \A x \in 0 .. IdModulus - 1 : x % IdModulus = x
  BY UnitsType
<1>5. QED BY <1>1, <1>3, <1>4

LEMMA ComposeIsDigits ==
  ASSUME NEW w \in Workers, NEW t \in Stamps, NEW s \in 0 .. SequenceSize - 1
  PROVE  Compose(w, t, s) = Digits(w, t, s)
<1> DEFINE tt == t - BaseEpoch
<1>1. tt \in Nat
  BY TimeFits
<1>2. w.workerId \in Nat /\ w.dataCenterId \in Nat
  BY WorkersAssumption, SizesAssumption
<1>3. Compose(w, t, s) = tt * (SequenceSize * WorkerSize * DataCenterSize)
                           + w.dataCenterId * (SequenceSize * WorkerSize)
                           + w.workerId * SequenceSize + s
  BY TimeFits DEF Compose, TimestampUnit, DataCenterUnit, WorkerUnit
<1> HIDE DEF tt
<1>4. Digits(w, t, s)
        = ((tt * DataCenterSize + w.dataCenterId) * WorkerSize + w.workerId)
            * SequenceSize + s
  BY DEF Digits, tt
<1>5. \A d, k, S, W, D, q \in Nat :
        ((q * D + d) * W + k) * S = q * (S * W * D) + d * (S * W) + k * S
  OBVIOUS
<1>6. ((tt * DataCenterSize + w.dataCenterId) * WorkerSize + w.workerId)
        * SequenceSize
      = tt * (SequenceSize * WorkerSize * DataCenterSize)
          + w.dataCenterId * (SequenceSize * WorkerSize)
          + w.workerId * SequenceSize
  BY <1>1, <1>2, <1>5, SizesAssumption
<1>7. QED BY <1>3, <1>4, <1>6

\* An id decodes to the generator, the timestamp and the sequence number it
\* was made of.
LEMMA ComposeInjective ==
  ASSUME NEW v \in Workers, NEW w \in Workers,
         NEW t \in Stamps, NEW u \in Stamps,
         NEW s \in 0 .. SequenceSize - 1, NEW r \in 0 .. SequenceSize - 1,
         Compose(v, t, s) = Compose(w, u, r)
  PROVE  v = w /\ t = u /\ s = r
<1> DEFINE dcV == (t - BaseEpoch) * DataCenterSize + v.dataCenterId
           dcW == (u - BaseEpoch) * DataCenterSize + w.dataCenterId
           wkV == dcV * WorkerSize + v.workerId
           wkW == dcW * WorkerSize + w.workerId
<1>1. /\ v.workerId \in 0 .. WorkerSize - 1
      /\ v.dataCenterId \in 0 .. DataCenterSize - 1
      /\ w.workerId \in 0 .. WorkerSize - 1
      /\ w.dataCenterId \in 0 .. DataCenterSize - 1
  BY WorkersAssumption
<1>2. t - BaseEpoch \in Nat /\ u - BaseEpoch \in Nat
  BY TimeFits
<1>3. dcV \in Nat /\ dcW \in Nat
  BY <1>1, <1>2, ProductType, SizesAssumption
<1>4. wkV \in Nat /\ wkW \in Nat
  <2> HIDE DEF dcV, dcW
  <2>1. QED BY <1>1, <1>3, ProductType, SizesAssumption
<1>5. wkV * SequenceSize + s = wkW * SequenceSize + r
  BY ComposeIsDigits DEF Digits
<1>6. wkV = wkW /\ s = r
  <2> HIDE DEF wkV, wkW
  <2>1. QED BY <1>4, <1>5, AppendDigit, SizesAssumption
<1>7. dcV = dcW /\ v.workerId = w.workerId
  <2> HIDE DEF dcV, dcW
  <2>1. QED BY <1>1, <1>3, <1>6, AppendDigit, SizesAssumption
<1>8. t - BaseEpoch = u - BaseEpoch /\ v.dataCenterId = w.dataCenterId
  <2> DEFINE tt == t - BaseEpoch
             uu == u - BaseEpoch
  <2>1. tt * DataCenterSize + v.dataCenterId = uu * DataCenterSize + w.dataCenterId
    BY <1>7
  <2>2. tt \in Nat /\ uu \in Nat
    BY <1>2
  <2> HIDE DEF tt, uu
  <2>3. \A a, b \in Nat, x, y \in 0 .. DataCenterSize - 1 :
          a * DataCenterSize + x = b * DataCenterSize + y => a = b /\ x = y
    BY AppendDigit, SizesAssumption
  <2>4. tt = uu /\ v.dataCenterId = w.dataCenterId
    BY <1>1, <2>1, <2>2, <2>3
  <2>5. QED BY <2>4 DEF tt, uu
<1>9. t = u
  BY <1>8, ClockAssumption DEF Stamps
<1>10. v = w
  BY <1>7, <1>8, WorkersAssumption
<1>11. QED BY <1>6, <1>9, <1>10

\* Ids of one generator are ordered by timestamp, then by sequence number.
LEMMA ComposeMonotone ==
  ASSUME NEW w \in Workers, NEW t \in Stamps, NEW u \in Stamps,
         NEW s \in 0 .. SequenceSize - 1, NEW r \in 0 .. SequenceSize - 1,
         t < u \/ (t = u /\ s < r)
  PROVE  Compose(w, t, s) < Compose(w, u, r)
<1> DEFINE dcT == (t - BaseEpoch) * DataCenterSize + w.dataCenterId
           dcU == (u - BaseEpoch) * DataCenterSize + w.dataCenterId
           wkT == dcT * WorkerSize + w.workerId
           wkU == dcU * WorkerSize + w.workerId
<1>1. /\ w.workerId \in 0 .. WorkerSize - 1
      /\ w.dataCenterId \in 0 .. DataCenterSize - 1
  BY WorkersAssumption
<1>2. t - BaseEpoch \in Nat /\ u - BaseEpoch \in Nat
  BY TimeFits
<1>3. dcT \in Nat /\ dcU \in Nat
  BY <1>1, <1>2, ProductType, SizesAssumption
<1>4. wkT \in Nat /\ wkU \in Nat
  <2> HIDE DEF dcT, dcU
  <2>1. QED BY <1>1, <1>3, ProductType, SizesAssumption
<1>5. /\ Compose(w, t, s) = wkT * SequenceSize + s
      /\ Compose(w, u, r) = wkU * SequenceSize + r
  BY ComposeIsDigits DEF Digits
<1>6. CASE t < u
  <2>1. t - BaseEpoch < u - BaseEpoch
    BY <1>6, ClockAssumption DEF Stamps
  <2>2. dcT < dcU
    BY <1>1, <1>2, <2>1, AppendDigit, SizesAssumption
  <2> HIDE DEF dcT, dcU
  <2>3. wkT < wkU
    BY <1>1, <1>3, <2>2, AppendDigit, SizesAssumption
  <2> HIDE DEF wkT, wkU
  <2>4. QED BY <1>4, <1>5, <2>3, AppendDigit, SizesAssumption
<1>7. CASE t = u /\ s < r
  <2>1. wkT = wkU
    BY <1>7
  <2> HIDE DEF wkT, wkU
  <2>2. wkT * SequenceSize \in Nat
    BY <1>4, ProductType, SizesAssumption
  <2>3. QED BY <1>5, <1>7, <2>1, <2>2
<1>8. QED BY <1>6, <1>7

\* An id fits 64 bits.
LEMMA ComposeType ==
  ASSUME NEW w \in Workers, NEW t \in Stamps, NEW s \in 0 .. SequenceSize - 1
  PROVE  Compose(w, t, s) \in 0 .. IdModulus - 1
<1> DEFINE dc == (t - BaseEpoch) * DataCenterSize + w.dataCenterId
           wk == dc * WorkerSize + w.workerId
<1>1. /\ w.workerId \in 0 .. WorkerSize - 1
      /\ w.dataCenterId \in 0 .. DataCenterSize - 1
  BY WorkersAssumption
<1>2. TimestampSize * DataCenterSize \in Nat \ {0}
  BY ProductType, SizesAssumption
<1>3. TimestampSize * DataCenterSize * WorkerSize \in Nat \ {0}
  BY <1>2, ProductType, SizesAssumption
<1>4. dc \in 0 .. (TimestampSize * DataCenterSize) - 1
  BY <1>1, TimeFits, AppendDigitRange, SizesAssumption
<1>5. wk \in 0 .. (TimestampSize * DataCenterSize * WorkerSize) - 1
  <2> HIDE DEF dc
  <2>1. QED BY <1>1, <1>2, <1>4, AppendDigitRange, SizesAssumption
<1>6. wk * SequenceSize + s
        \in 0 .. (TimestampSize * DataCenterSize * WorkerSize * SequenceSize) - 1
  <2> HIDE DEF wk
  <2>1. QED BY <1>3, <1>5, AppendDigitRange, SizesAssumption
<1>7. TimestampSize * DataCenterSize * WorkerSize * SequenceSize = IdModulus
  BY SizesAssumption DEF IdModulus, TimestampUnit
<1>8. QED BY <1>6, <1>7, ComposeIsDigits DEF Digits

----------------------------------------------------------------------------
(***************************************************************************)
(* The inductive invariant.                                                *)
(***************************************************************************)

\* Every id a generator returned was packed from its own numbers.
Stamped ==
  \A w \in Workers : \A i \in DOMAIN issued[w] :
    \E t \in Stamps, s \in 0 .. SequenceSize - 1 : issued[w][i] = Compose(w, t, s)

\* lastTimeStamp and sequence of a generator that never ran behind its clock
\* make the greatest id it returned.
LastIsGreatest ==
  \A w \in Workers \ behind : issued[w] # <<>> =>
    /\ lastTimeStamp[w] \in Stamps
    /\ \A i \in DOMAIN issued[w] :
         issued[w][i] <= Compose(w, lastTimeStamp[w], sequence[w])

\* Within its capacity, a generator numbers the ids of a millisecond from 0.
CountsInMillisecond ==
  \A w \in Workers \ (overrun \cup regressed) :
    /\ w \notin behind
    /\ inTick[w] <= SequenceSize
    /\ inTick[w] = 0 => lastTimeStamp[w] < clock[w]
    /\ inTick[w] # 0 => /\ lastTimeStamp[w] = clock[w]
                        /\ sequence[w] = inTick[w] - 1

IInv ==
  /\ TypeOK
  /\ Stamped
  /\ IncreasingUnlessBehind
  /\ LastIsGreatest
  /\ CountsInMillisecond
  /\ BorrowsOneMillisecond

LEMMA InitIInv == Init => IInv
<1> SUFFICES ASSUME Init PROVE IInv
  OBVIOUS
<1>1. TypeOK
  BY SizesAssumption, ClockAssumption DEF Init, TypeOK
<1>2. Stamped /\ IncreasingUnlessBehind /\ LastIsGreatest
  BY DEF Init, Stamped, IncreasingUnlessBehind, LastIsGreatest
<1>3. \A w \in Workers : /\ clock[w] \in BaseEpoch .. MaxClock
                         /\ lastTimeStamp[w] = 0
                         /\ inTick[w] = 0
                         /\ w \notin behind
  BY DEF Init
<1>4. CountsInMillisecond
  <2> SUFFICES ASSUME NEW w \in Workers
               PROVE  /\ w \notin behind
                      /\ inTick[w] <= SequenceSize
                      /\ inTick[w] = 0 /\ lastTimeStamp[w] < clock[w]
    BY DEF CountsInMillisecond
  <2>1. QED BY <1>3, SizesAssumption, ClockAssumption
<1>5. BorrowsOneMillisecond
  <2> SUFFICES ASSUME NEW w \in Workers PROVE lastTimeStamp[w] <= clock[w] + 1
    BY DEF BorrowsOneMillisecond
  <2>1. QED BY <1>3, ClockAssumption
<1>6. QED BY <1>1, <1>2, <1>4, <1>5 DEF IInv

\* What genId makes of the timestamp and the sequence number.
LEMMA GenIdStamp ==
  ASSUME TypeOK, NEW w \in Workers
  PROVE  /\ NextTimeStamp(w) \in Stamps
         /\ NextSequence(w) \in 0 .. SequenceSize - 1
         /\ NextTimeStamp(w) \in {clock[w], clock[w] + 1}
         /\ lastTimeStamp[w] < clock[w] =>
              NextTimeStamp(w) = clock[w] /\ NextSequence(w) = 0
         /\ lastTimeStamp[w] = clock[w] =>
              IF sequence[w] + 1 < SequenceSize
              THEN NextTimeStamp(w) = clock[w] /\ NextSequence(w) = sequence[w] + 1
              ELSE NextTimeStamp(w) = clock[w] + 1 /\ NextSequence(w) = 0
<1>1. /\ clock[w] \in BaseEpoch .. MaxClock
      /\ sequence[w] \in 0 .. SequenceSize - 1
      /\ lastTimeStamp[w] \in {0} \cup (BaseEpoch .. MaxClock + 1)
  BY DEF TypeOK
<1>2. (sequence[w] + 1) % SequenceSize
        = IF sequence[w] + 1 < SequenceSize THEN sequence[w] + 1 ELSE 0
  <2>1. CASE sequence[w] + 1 < SequenceSize
    BY <1>1, <2>1, SizesAssumption
  <2>2. CASE sequence[w] + 1 = SequenceSize
    BY <1>1, <2>2, SizesAssumption
  <2>3. QED BY <1>1, <2>1, <2>2, SizesAssumption
<1>3. QED
  BY <1>1, <1>2, SizesAssumption, ClockAssumption
  DEF NextTimeStamp, NextSequence, SameMillisecond, Stamps

----------------------------------------------------------------------------
(***************************************************************************)
(* Each conjunct of the invariant survives genId.                          *)
(***************************************************************************)

\* The sequence of ids after one genId: the old ones and one more.
LEMMA GenIdAppends ==
  ASSUME TypeOK, NEW w \in Workers, GenId(w)
  PROVE  /\ \A v \in Workers \ {w} :
              /\ issued'[v] = issued[v] /\ lastTimeStamp'[v] = lastTimeStamp[v]
              /\ sequence'[v] = sequence[v] /\ inTick'[v] = inTick[v]
         /\ lastTimeStamp'[w] = NextTimeStamp(w)
         /\ sequence'[w] = NextSequence(w)
         /\ inTick'[w] = inTick[w] + 1
         /\ Len(issued'[w]) = Len(issued[w]) + 1
         /\ DOMAIN issued'[w] = 1 .. Len(issued[w]) + 1
         /\ DOMAIN issued[w] = 1 .. Len(issued[w])
         /\ Len(issued[w]) \in Nat
         /\ \A i \in DOMAIN issued[w] : issued'[w][i] = issued[w][i]
         /\ issued'[w][Len(issued[w]) + 1]
              = Compose(w, NextTimeStamp(w), NextSequence(w))
<1> DEFINE id == Compose(w, NextTimeStamp(w), NextSequence(w))
<1>1. id \in 0 .. IdModulus - 1
  BY GenIdStamp, ComposeType
<1>2. issued[w] \in Seq(0 .. IdModulus - 1)
  BY DEF TypeOK
<1>3. issued' = [issued EXCEPT ![w] = Append(issued[w], id)]
  BY DEF GenId
<1> HIDE DEF id
<1>4. issued'[w] = Append(issued[w], id)
  BY <1>3 DEF TypeOK
<1>5. /\ Len(issued'[w]) = Len(issued[w]) + 1
      /\ DOMAIN issued'[w] = 1 .. Len(issued[w]) + 1
      /\ DOMAIN issued[w] = 1 .. Len(issued[w])
      /\ Len(issued[w]) \in Nat
      /\ \A i \in DOMAIN issued[w] : issued'[w][i] = issued[w][i]
      /\ issued'[w][Len(issued[w]) + 1] = id
  BY <1>1, <1>2, <1>4
<1>6. \A v \in Workers \ {w} : issued'[v] = issued[v]
  BY <1>3 DEF TypeOK
<1>7. /\ \A v \in Workers \ {w} :
           /\ lastTimeStamp'[v] = lastTimeStamp[v]
           /\ sequence'[v] = sequence[v] /\ inTick'[v] = inTick[v]
      /\ lastTimeStamp'[w] = NextTimeStamp(w)
      /\ sequence'[w] = NextSequence(w)
      /\ inTick'[w] = inTick[w] + 1
  BY DEF GenId, TypeOK
<1>8. QED BY <1>5, <1>6, <1>7 DEF id

LEMMA GenIdType ==
  ASSUME TypeOK, NEW w \in Workers, GenId(w)
  PROVE  TypeOK'
<1> DEFINE id == Compose(w, NextTimeStamp(w), NextSequence(w))
<1>1. id \in 0 .. IdModulus - 1
  BY GenIdStamp, ComposeType
<1>2. issued' = [issued EXCEPT ![w] = Append(issued[w], id)]
  BY DEF GenId
<1> HIDE DEF id
<1>3. issued' \in [Workers -> Seq(0 .. IdModulus - 1)]
  BY <1>1, <1>2 DEF TypeOK
<1>4. /\ lastTimeStamp' \in [Workers -> {0} \cup (BaseEpoch .. MaxClock + 1)]
      /\ sequence' \in [Workers -> 0 .. SequenceSize - 1]
  BY GenIdStamp DEF GenId, TypeOK, Stamps
<1>5. /\ clock' \in [Workers -> BaseEpoch .. MaxClock]
      /\ inTick' \in [Workers -> Nat]
      /\ overrun' \subseteq Workers /\ regressed' \subseteq Workers
      /\ behind' \subseteq Workers
  BY DEF GenId, TypeOK
<1>6. QED BY <1>3, <1>4, <1>5 DEF TypeOK

LEMMA GenIdStamped ==
  ASSUME TypeOK, Stamped, NEW w \in Workers, GenId(w)
  PROVE  Stamped'
<1> SUFFICES ASSUME NEW v \in Workers, NEW i \in DOMAIN issued'[v]
             PROVE  \E t \in Stamps, s \in 0 .. SequenceSize - 1 :
                      issued'[v][i] = Compose(v, t, s)
  BY DEF Stamped
<1>1. CASE v # w
  BY <1>1, GenIdAppends DEF Stamped
<1>2. CASE v = w /\ i \in DOMAIN issued[w]
  BY <1>2, GenIdAppends DEF Stamped
<1>3. CASE v = w /\ i = Len(issued[w]) + 1
  BY <1>3, GenIdAppends, GenIdStamp
<1>4. QED BY <1>1, <1>2, <1>3, GenIdAppends

\* A generator not behind its clock returns an id above all its earlier ones.
LEMMA GenIdAbove ==
  ASSUME TypeOK, LastIsGreatest, NEW w \in Workers \ behind',
         GenId(w), NEW i \in DOMAIN issued[w]
  PROVE  issued[w][i] < Compose(w, NextTimeStamp(w), NextSequence(w))
<1>1. /\ w \in Workers \ behind
      /\ ~(clock[w] < lastTimeStamp[w])
  BY DEF GenId
<1>2. issued[w] # <<>>
  BY DEF TypeOK
<1>3. /\ lastTimeStamp[w] \in Stamps
      /\ issued[w][i] <= Compose(w, lastTimeStamp[w], sequence[w])
  BY <1>1, <1>2 DEF LastIsGreatest
<1>4. /\ sequence[w] \in 0 .. SequenceSize - 1
      /\ clock[w] \in BaseEpoch .. MaxClock
  BY DEF TypeOK
<1>5. \/ lastTimeStamp[w] < NextTimeStamp(w)
      \/ lastTimeStamp[w] = NextTimeStamp(w) /\ sequence[w] < NextSequence(w)
  BY <1>1, <1>3, <1>4, GenIdStamp, ClockAssumption DEF Stamps
<1>6. Compose(w, lastTimeStamp[w], sequence[w])
        < Compose(w, NextTimeStamp(w), NextSequence(w))
  BY <1>3, <1>4, <1>5, GenIdStamp, ComposeMonotone
<1>7. /\ issued[w][i] \in 0 .. IdModulus - 1
      /\ Compose(w, lastTimeStamp[w], sequence[w]) \in 0 .. IdModulus - 1
      /\ Compose(w, NextTimeStamp(w), NextSequence(w)) \in 0 .. IdModulus - 1
  <2>1. issued[w] \in Seq(0 .. IdModulus - 1)
    BY DEF TypeOK
  <2>2. issued[w][i] \in 0 .. IdModulus - 1
    <3> DEFINE Ids == 0 .. IdModulus - 1
    <3> HIDE DEF Ids
    <3>1. issued[w] \in Seq(Ids)
      BY <2>1 DEF Ids
    <3>2. issued[w][i] \in Ids
      BY <3>1
    <3>3. QED BY <3>2 DEF Ids
  <2>3. QED BY <1>3, <1>4, <2>2, GenIdStamp, ComposeType
<1>8. IdModulus \in Int
  BY ProductType, SizesAssumption DEF IdModulus, TimestampUnit
<1>9. QED BY <1>3, <1>6, <1>7, <1>8

LEMMA GenIdIncreasing ==
  ASSUME TypeOK, IncreasingUnlessBehind, LastIsGreatest,
         NEW w \in Workers, GenId(w)
  PROVE  IncreasingUnlessBehind'
<1> SUFFICES ASSUME NEW v \in Workers \ behind',
                    NEW i \in DOMAIN issued'[v], NEW j \in DOMAIN issued'[v],
                    i < j
             PROVE  issued'[v][i] < issued'[v][j]
  BY DEF IncreasingUnlessBehind
<1>1. v \in Workers \ behind
  BY DEF GenId
<1>2. CASE v # w
  BY <1>1, <1>2, GenIdAppends DEF IncreasingUnlessBehind
<1>3. CASE v = w /\ j \in DOMAIN issued[w]
  <2>1. i \in DOMAIN issued[w]
    BY <1>3, GenIdAppends
  <2>2. QED BY <1>1, <1>3, <2>1, GenIdAppends DEF IncreasingUnlessBehind
<1>4. CASE v = w /\ j = Len(issued[w]) + 1
  <2>1. i \in DOMAIN issued[w]
    BY <1>4, GenIdAppends
  <2>2. issued[w][i] < Compose(w, NextTimeStamp(w), NextSequence(w))
    BY <1>4, <2>1, GenIdAbove
  <2>3. QED BY <1>4, <2>1, <2>2, GenIdAppends
<1>5. QED BY <1>2, <1>3, <1>4, GenIdAppends

LEMMA GenIdGreatest ==
  ASSUME TypeOK, LastIsGreatest, NEW w \in Workers, GenId(w)
  PROVE  LastIsGreatest'
<1> SUFFICES ASSUME NEW v \in Workers \ behind', issued'[v] # <<>>
             PROVE  /\ lastTimeStamp'[v] \in Stamps
                    /\ \A i \in DOMAIN issued'[v] : issued'[v][i]
                         <= Compose(v, lastTimeStamp'[v], sequence'[v])
  BY DEF LastIsGreatest, Compose, TimestampUnit, IdModulus, DataCenterUnit, WorkerUnit
<1>1. v \in Workers \ behind
  BY DEF GenId
<1>2. CASE v # w
  BY <1>1, <1>2, GenIdAppends DEF LastIsGreatest
<1>3. CASE v = w
  <2>1. /\ lastTimeStamp'[w] = NextTimeStamp(w)
        /\ sequence'[w] = NextSequence(w)
        /\ NextTimeStamp(w) \in Stamps
        /\ NextSequence(w) \in 0 .. SequenceSize - 1
    BY GenIdAppends, GenIdStamp
  <2>2. SUFFICES ASSUME NEW i \in DOMAIN issued'[w]
                 PROVE  issued'[w][i] <= Compose(w, NextTimeStamp(w), NextSequence(w))
    BY <1>3, <2>1
  <2>3. Compose(w, NextTimeStamp(w), NextSequence(w)) \in 0 .. IdModulus - 1
    BY <2>1, ComposeType
  <2>4. IdModulus \in Int
    BY ProductType, SizesAssumption DEF IdModulus, TimestampUnit
  <2>5. CASE i \in DOMAIN issued[w]
    <3>1. issued[w][i] < Compose(w, NextTimeStamp(w), NextSequence(w))
      BY <1>3, <2>5, GenIdAbove
    <3>2. issued[w] \in Seq(0 .. IdModulus - 1)
      BY DEF TypeOK
    <3>3. issued[w][i] \in Int
      BY <2>4, <2>5, <3>2
    <3>4. QED BY <2>3, <2>4, <2>5, <3>1, <3>3, GenIdAppends
  <2>6. CASE i = Len(issued[w]) + 1
    BY <2>3, <2>4, <2>6, GenIdAppends
  <2>7. QED BY <2>5, <2>6, GenIdAppends
<1>4. QED BY <1>2, <1>3

LEMMA GenIdCounts ==
  ASSUME TypeOK, CountsInMillisecond, NEW w \in Workers, GenId(w)
  PROVE  CountsInMillisecond'
<1> SUFFICES ASSUME NEW v \in Workers \ (overrun' \cup regressed')
             PROVE  /\ v \notin behind'
                    /\ inTick'[v] <= SequenceSize
                    /\ inTick'[v] = 0 => lastTimeStamp'[v] < clock'[v]
                    /\ inTick'[v] # 0 => /\ lastTimeStamp'[v] = clock'[v]
                                         /\ sequence'[v] = inTick'[v] - 1
  BY DEF CountsInMillisecond
<1>1. /\ v \in Workers \ (overrun \cup regressed)
      /\ clock' = clock
  BY DEF GenId
<1>2. CASE v # w
  BY <1>1, <1>2, GenIdAppends DEF GenId, CountsInMillisecond
<1>3. CASE v = w
  <2>1. /\ inTick[w] < SequenceSize /\ inTick[w] \in Nat
        /\ clock[w] \in BaseEpoch .. MaxClock
        /\ lastTimeStamp[w] \in {0} \cup (BaseEpoch .. MaxClock + 1)
    BY <1>3, SizesAssumption DEF GenId, TypeOK
  <2>2. /\ w \notin behind
        /\ inTick[w] = 0 => lastTimeStamp[w] < clock[w]
        /\ inTick[w] # 0 => lastTimeStamp[w] = clock[w] /\ sequence[w] = inTick[w] - 1
    BY <1>1, <1>3 DEF CountsInMillisecond
  <2>3. NextTimeStamp(w) = clock[w] /\ NextSequence(w) = inTick[w]
    BY <2>1, <2>2, GenIdStamp, SizesAssumption
  <2>4. w \notin behind'
    BY <2>1, <2>2, ClockAssumption DEF GenId
  <2>5. /\ inTick'[w] = inTick[w] + 1
        /\ lastTimeStamp'[w] = clock'[w] /\ sequence'[w] = inTick[w]
    BY <1>1, <2>3, GenIdAppends
  <2>6. QED BY <1>3, <2>1, <2>4, <2>5, SizesAssumption
<1>4. QED BY <1>2, <1>3

LEMMA GenIdBorrows ==
  ASSUME TypeOK, BorrowsOneMillisecond, NEW w \in Workers, GenId(w)
  PROVE  BorrowsOneMillisecond'
<1> SUFFICES ASSUME NEW v \in Workers \ regressed'
             PROVE  lastTimeStamp'[v] <= clock'[v] + 1
  BY DEF BorrowsOneMillisecond
<1>1. v \in Workers \ regressed /\ clock' = clock
  BY DEF GenId
<1>2. CASE v # w
  BY <1>1, <1>2, GenIdAppends DEF BorrowsOneMillisecond
<1>3. CASE v = w
  <2>1. clock[w] \in BaseEpoch .. MaxClock
    BY DEF TypeOK
  <2>2. QED BY <1>1, <1>3, <2>1, GenIdAppends, GenIdStamp, ClockAssumption
<1>4. QED BY <1>2, <1>3

----------------------------------------------------------------------------
(***************************************************************************)
(* The clock's steps, and the whole next-state relation.                   *)
(***************************************************************************)

\* A generator whose clock moves, forwards or back, and every other one.
LEMMA ClockMoves ==
  ASSUME TypeOK, NEW w \in Workers, Tick(w) \/ SetBack(w)
  PROVE  /\ clock' \in [Workers -> BaseEpoch .. MaxClock]
         /\ inTick' = [inTick EXCEPT ![w] = 0]
         /\ inTick'[w] = 0
         /\ Tick(w) => clock'[w] > clock[w]
         /\ \A v \in Workers \ {w} : clock'[v] = clock[v] /\ inTick'[v] = inTick[v]
         /\ UNCHANGED <<lastTimeStamp, sequence, issued, overrun, behind>>
         /\ regressed' = IF Tick(w) THEN regressed ELSE regressed \cup {w}
<1>1. clock[w] \in BaseEpoch .. MaxClock /\ BaseEpoch \in Nat /\ MaxClock \in Nat
  BY ClockAssumption DEF TypeOK
<1>2. CASE Tick(w)
  <2>1. PICK now \in clock[w] + 1 .. MaxClock : clock' = [clock EXCEPT ![w] = now]
    BY <1>2 DEF Tick
  <2>2. now \in BaseEpoch .. MaxClock /\ now > clock[w]
    BY <1>1, <2>1
  <2>3. QED BY <1>2, <2>1, <2>2 DEF Tick, TypeOK
<1>3. CASE SetBack(w)
  <2>1. PICK now \in BaseEpoch .. clock[w] - 1 : clock' = [clock EXCEPT ![w] = now]
    BY <1>3 DEF SetBack
  <2>2. now \in BaseEpoch .. MaxClock /\ now < clock[w]
    BY <1>1, <2>1
  <2>3. clock'[w] = now
    BY <2>1 DEF TypeOK
  <2>4. ~Tick(w)
    <3>1. SUFFICES ASSUME Tick(w) PROVE FALSE
      OBVIOUS
    <3>2. PICK m \in clock[w] + 1 .. MaxClock : clock' = [clock EXCEPT ![w] = m]
      BY <3>1 DEF Tick
    <3>3. clock'[w] = m
      BY <3>2 DEF TypeOK
    <3>4. QED BY <1>1, <2>2, <2>3, <3>2, <3>3
  <2>5. QED BY <1>3, <2>1, <2>2, <2>4 DEF SetBack, TypeOK
<1>4. QED BY <1>2, <1>3

LEMMA ClockPreserves ==
  ASSUME IInv, NEW w \in Workers, Tick(w) \/ SetBack(w)
  PROVE  IInv'
<1>1. TypeOK /\ Stamped /\ IncreasingUnlessBehind /\ LastIsGreatest
  BY DEF IInv
<1>2. UNCHANGED <<lastTimeStamp, sequence, issued, overrun, behind>>
  BY <1>1, ClockMoves
<1>3. TypeOK'
  <2>1. clock' \in [Workers -> BaseEpoch .. MaxClock] /\ regressed' \subseteq Workers
    BY <1>1, ClockMoves DEF TypeOK
  <2>2. inTick' \in [Workers -> Nat]
    BY <1>1, ClockMoves DEF TypeOK
  <2>3. QED BY <1>1, <1>2, <2>1, <2>2 DEF TypeOK
<1>4. Stamped' /\ IncreasingUnlessBehind'
  BY <1>1, <1>2 DEF Stamped, IncreasingUnlessBehind
<1>5. LastIsGreatest'
  BY <1>1, <1>2 DEF LastIsGreatest
<1>6. CountsInMillisecond'
  <2> SUFFICES ASSUME NEW v \in Workers \ (overrun' \cup regressed')
               PROVE  /\ v \notin behind'
                      /\ inTick'[v] <= SequenceSize
                      /\ inTick'[v] = 0 => lastTimeStamp'[v] < clock'[v]
                      /\ inTick'[v] # 0 => /\ lastTimeStamp'[v] = clock'[v]
                                           /\ sequence'[v] = inTick'[v] - 1
    BY DEF CountsInMillisecond
  <2>1. /\ v \in Workers \ (overrun \cup regressed)
        /\ v = w => Tick(w)
    BY <1>1, <1>2, ClockMoves
  <2>2. /\ v \notin behind
        /\ inTick[v] <= SequenceSize
        /\ inTick[v] = 0 => lastTimeStamp[v] < clock[v]
        /\ inTick[v] # 0 => lastTimeStamp[v] = clock[v] /\ sequence[v] = inTick[v] - 1
    BY <2>1 DEF CountsInMillisecond, IInv
  <2>3. CASE v # w
    BY <1>1, <1>2, <2>2, <2>3, ClockMoves
  <2>4. CASE v = w
    <3>1. inTick'[v] = 0 /\ clock'[v] > clock[v]
      BY <1>1, <2>1, <2>4, ClockMoves
    <3>2. /\ clock[v] \in Int /\ clock'[v] \in Int /\ lastTimeStamp[v] \in Int
      BY <1>1, <1>3, ClockAssumption DEF TypeOK
    <3>3. QED BY <1>2, <2>2, <3>1, <3>2, SizesAssumption
  <2>5. QED BY <2>3, <2>4
<1>7. BorrowsOneMillisecond'
  <2> SUFFICES ASSUME NEW v \in Workers \ regressed'
               PROVE  lastTimeStamp'[v] <= clock'[v] + 1
    BY DEF BorrowsOneMillisecond
  <2>1. v \in Workers \ regressed /\ (v = w => Tick(w))
    BY <1>1, ClockMoves
  <2>2. lastTimeStamp[v] <= clock[v] + 1 /\ lastTimeStamp'[v] = lastTimeStamp[v]
    BY <1>2, <2>1 DEF BorrowsOneMillisecond, IInv
  <2>3. clock[v] \in Int /\ clock'[v] \in Int /\ lastTimeStamp[v] \in Int
    <3>1. /\ clock[v] \in BaseEpoch .. MaxClock
          /\ clock'[v] \in BaseEpoch .. MaxClock
          /\ lastTimeStamp[v] \in {0} \cup (BaseEpoch .. MaxClock + 1)
      BY <1>1, <1>3, <2>1 DEF TypeOK
    <3>2. QED BY <3>1, ClockAssumption
  <2>4. clock'[v] >= clock[v]
    BY <1>1, <2>1, <2>3, ClockMoves
  <2>5. QED BY <2>2, <2>3, <2>4
<1>8. QED BY <1>3, <1>4, <1>5, <1>6, <1>7 DEF IInv

LEMMA NextIInv == IInv /\ [Next]_vars => IInv'
<1> SUFFICES ASSUME IInv, [Next]_vars PROVE IInv'
  OBVIOUS
<1>1. ASSUME NEW w \in Workers, GenId(w) PROVE IInv'
  BY <1>1, GenIdType, GenIdStamped, GenIdIncreasing, GenIdGreatest, GenIdCounts,
     GenIdBorrows DEF IInv
<1>2. ASSUME NEW w \in Workers, Tick(w) \/ SetBack(w) PROVE IInv'
  BY <1>2, ClockPreserves
<1>3. CASE UNCHANGED vars
  BY <1>3 DEF vars, IInv, TypeOK, Stamped, IncreasingUnlessBehind, LastIsGreatest,
     CountsInMillisecond, BorrowsOneMillisecond
<1>4. QED BY <1>1, <1>2, <1>3 DEF Next

LEMMA Invariance == Spec => []IInv
  BY InitIInv, NextIInv, PTL DEF Spec

----------------------------------------------------------------------------
(***************************************************************************)
(* Theorems.                                                               *)
(***************************************************************************)

\* The variables of the generators keep their types: timestamps, sequence
\* numbers and ids stay within their fields (IdWorker.h:44-61).
THEOREM TypeCorrect == Spec => []TypeOK
<1>1. IInv => TypeOK
  BY DEF IInv
<1>2. QED BY <1>1, Invariance, PTL

\* Two generators with different numbers never return the same id, for any
\* behaviour of their clocks and any number of calls (IdWorker.h:57-60).
THEOREM NeverCollide == Spec => []DistinctWorkersNeverCollide
<1>1. ASSUME IInv PROVE DistinctWorkersNeverCollide
  <2> SUFFICES ASSUME NEW v \in Workers, NEW w \in Workers, v # w,
                      NEW i \in DOMAIN issued[v], NEW j \in DOMAIN issued[w]
               PROVE  issued[v][i] # issued[w][j]
    BY DEF DistinctWorkersNeverCollide
  <2>1. PICK t \in Stamps, s \in 0 .. SequenceSize - 1 :
          issued[v][i] = Compose(v, t, s)
    BY <1>1 DEF IInv, Stamped
  <2>2. PICK u \in Stamps, r \in 0 .. SequenceSize - 1 :
          issued[w][j] = Compose(w, u, r)
    BY <1>1 DEF IInv, Stamped
  <2>3. QED BY <2>1, <2>2, ComposeInjective
<1>2. QED BY <1>1, Invariance, PTL

\* The ids of a generator increase strictly for as long as it does not find
\* the clock behind lastTimeStamp (IdWorker.h:47-55).
THEOREM Increasing == Spec => []IncreasingUnlessBehind
<1>1. IInv => IncreasingUnlessBehind
  BY DEF IInv
<1>2. QED BY <1>1, Invariance, PTL

\* Only a clock set back or more than SequenceSize calls in one millisecond
\* make a generator find the clock behind lastTimeStamp (IdWorker.h:50-54).
THEOREM BehindExplained == Spec => []BehindOnlyAfterOverrun
<1>1. IInv => BehindOnlyAfterOverrun
  BY DEF IInv, TypeOK, CountsInMillisecond, BehindOnlyAfterOverrun
<1>2. QED BY <1>1, Invariance, PTL

\* Within SequenceSize ids a millisecond and on a clock never set back, an id
\* is returned once, by one generator (IdWorker.h:42, :44-61, :82).
THEOREM Unique == Spec => []UniqueWithinCapacity
<1>1. ASSUME IInv, DistinctWorkersNeverCollide PROVE UniqueWithinCapacity
  <2> SUFFICES ASSUME NEW v \in Workers \ (overrun \cup regressed), NEW w \in Workers,
                      NEW i \in DOMAIN issued[v], NEW j \in DOMAIN issued[w],
                      issued[v][i] = issued[w][j]
               PROVE  v = w /\ i = j
    BY DEF UniqueWithinCapacity
  <2>1. v = w
    BY <1>1 DEF DistinctWorkersNeverCollide
  <2>2. v \notin behind
    BY <1>1 DEF IInv, CountsInMillisecond
  <2>3. ~(issued[v][i] < issued[v][j]) /\ ~(issued[v][j] < issued[v][i])
    <3>1. issued[v] \in Seq(0 .. IdModulus - 1) /\ IdModulus \in Int
      BY <1>1, ProductType, SizesAssumption DEF IInv, TypeOK, IdModulus, TimestampUnit
    <3>2. issued[v][i] \in Int
      BY <3>1
    <3>3. QED BY <2>1, <3>2
  <2>4. ~(i < j) /\ ~(j < i)
    BY <1>1, <2>1, <2>2, <2>3 DEF IInv, IncreasingUnlessBehind
  <2>5. i \in Nat /\ j \in Nat
    <3>1. issued[v] \in Seq(0 .. IdModulus - 1)
      BY <1>1 DEF IInv, TypeOK
    <3>2. QED BY <2>1, <3>1
  <2>6. QED BY <2>1, <2>4, <2>5
<1>2. QED BY <1>1, Invariance, NeverCollide, PTL

\* The millisecond a sequence rollover borrows (IdWorker.h:51) is never added
\* to: on a clock that is never set back lastTimeStamp is at most one ahead.
THEOREM OneMillisecondAhead == Spec => []BorrowsOneMillisecond
<1>1. IInv => BorrowsOneMillisecond
  BY DEF IInv
<1>2. QED BY <1>1, Invariance, PTL
=============================================================================
