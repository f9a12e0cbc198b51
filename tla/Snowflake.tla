------------------------------ MODULE Snowflake ------------------------------
(***************************************************************************)
(* The 64-bit id generators of IdWorker.h: a set of SnowflakeIdWorker      *)
(* objects, each of which reads a wall clock of its own and packs a        *)
(* millisecond timestamp, its data centre, its worker number and a         *)
(* sequence number into one id.                                            *)
(*                                                                         *)
(* Bit fields are given by their sizes: SequenceSize is 2^sequenceBits,    *)
(* so "& sequenceMask" is "% SequenceSize" and "<< workerIdShift" is       *)
(* "* WorkerUnit".  The fields of a worker whose numbers are in range do   *)
(* not overlap, so "|" is "+".                                             *)
(***************************************************************************)
EXTENDS Integers, Sequences

CONSTANTS
  Workers,          \* the generators: records [workerId, dataCenterId]
  SequenceSize,     \* 2^sequenceBits
  WorkerSize,       \* 2^workerIdBits = maxWorkerId + 1
  DataCenterSize,   \* 2^dataCenterIdBits = maxDataCenterId + 1
  TimestampSize,    \* 2^(64 - timestampLeftShift): the bits left for the time
  BaseEpoch,        \* baseEpoch, in clock units
  MaxClock,         \* bound: the last clock reading of a behaviour
  MaxIds            \* bound: ids issued by one generator

\* The numbers of a generator are within the range IdWorker.h:80-81 names.
ASSUME WorkersAssumption ==
  Workers \subseteq [workerId : 0 .. WorkerSize - 1,
                     dataCenterId : 0 .. DataCenterSize - 1]

ASSUME SizesAssumption ==
  /\ SequenceSize \in Nat \ {0}
  /\ WorkerSize \in Nat \ {0}
  /\ DataCenterSize \in Nat \ {0}
  /\ TimestampSize \in Nat \ {0}

\* Every reading lies after the base epoch (2022-08-20), and it and the
\* millisecond after it fit the timestamp field.
ASSUME ClockAssumption ==
  /\ BaseEpoch \in Nat \ {0}
  /\ MaxClock \in Nat
  /\ MaxClock + 1 < BaseEpoch + TimestampSize
  /\ MaxIds \in Nat

VARIABLES
  clock,            \* clock[w]: what genTimeStamp() of w reads now
  lastTimeStamp,    \* lastTimeStamp[w]
  sequence,         \* sequence[w]
  issued,           \* history: issued[w] is the sequence of ids w returned
  inTick,           \* history: ids w returned since its clock last moved
  overrun,          \* history: generators asked for more than SequenceSize
                    \*   ids at one clock reading
  regressed,        \* history: generators whose clock was set back
  behind            \* history: generators that ran genId with the clock
                    \*   behind lastTimeStamp

vars == <<clock, lastTimeStamp, sequence, issued, inTick, overrun, regressed,
          behind>>

----------------------------------------------------------------------------
WorkerUnit == SequenceSize

\* Mutant: the data centre shifted by the sequence's bits alone.
DataCenterOverWorker == SequenceSize

DataCenterUnit == SequenceSize * WorkerSize
TimestampUnit == SequenceSize * WorkerSize * DataCenterSize
IdModulus == TimestampUnit * TimestampSize

\* Mutant: the sequence number left out of the id.
ComposeWithoutSequence(w, timestamp, seq) ==
  (((timestamp - BaseEpoch) * TimestampUnit) % IdModulus)
    + w.dataCenterId * DataCenterUnit
    + w.workerId * WorkerUnit

\* The id genId returns for a timestamp and a sequence number.
Compose(w, timestamp, seq) ==
  (((timestamp - BaseEpoch) * TimestampUnit) % IdModulus)
    + w.dataCenterId * DataCenterUnit
    + w.workerId * WorkerUnit
    + seq

\* What one call of genId makes of the state: the reading is the one of the
\* previous id, or it is any other one, earlier ones included.
SameMillisecond(w) == lastTimeStamp[w] = clock[w]

\* Mutant: no mask.
SequenceUnmasked(w) == IF SameMillisecond(w) THEN sequence[w] + 1 ELSE 0

NextSequence(w) ==
  IF SameMillisecond(w) THEN (sequence[w] + 1) % SequenceSize ELSE 0

\* Mutants: no millisecond borrowed, one borrowed by every sequence of 0, two
\* borrowed.
NoBorrow(w) == clock[w]
BorrowAtZero(w) == IF NextSequence(w) = 0 THEN clock[w] + 1 ELSE clock[w]
BorrowTwo(w) ==
  IF SameMillisecond(w) /\ NextSequence(w) = 0 THEN clock[w] + 2 ELSE clock[w]

NextTimeStamp(w) ==
  IF SameMillisecond(w) /\ NextSequence(w) = 0 THEN clock[w] + 1 ELSE clock[w]

Init ==
  /\ clock \in [Workers -> BaseEpoch .. MaxClock]
  /\ lastTimeStamp = [w \in Workers |-> 0]
  /\ sequence = [w \in Workers |-> 0]
  /\ issued = [w \in Workers |-> <<>>]
  /\ inTick = [w \in Workers |-> 0]
  /\ overrun = {}
  /\ regressed = {}
  /\ behind = {}

GenId(w) ==
  /\ Len(issued[w]) < MaxIds
  /\ sequence' = [sequence EXCEPT ![w] = NextSequence(w)]
  /\ lastTimeStamp' = [lastTimeStamp EXCEPT ![w] = NextTimeStamp(w)]
  /\ issued' = [issued EXCEPT
       ![w] = Append(@, Compose(w, NextTimeStamp(w), NextSequence(w)))]
  /\ inTick' = [inTick EXCEPT ![w] = @ + 1]
  /\ overrun' = IF inTick[w] >= SequenceSize THEN overrun \cup {w} ELSE overrun
  /\ behind' = IF clock[w] < lastTimeStamp[w] THEN behind \cup {w} ELSE behind
  /\ UNCHANGED <<clock, regressed>>

\* system_clock moves on by some milliseconds.
Tick(w) ==
  /\ \E now \in clock[w] + 1 .. MaxClock : clock' = [clock EXCEPT ![w] = now]
  /\ inTick' = [inTick EXCEPT ![w] = 0]
  /\ UNCHANGED <<lastTimeStamp, sequence, issued, overrun, regressed, behind>>

\* system_clock is not steady: the host may set it back.
SetBack(w) ==
  /\ \E now \in BaseEpoch .. clock[w] - 1 : clock' = [clock EXCEPT ![w] = now]
  /\ inTick' = [inTick EXCEPT ![w] = 0]
  /\ regressed' = regressed \cup {w}
  /\ UNCHANGED <<lastTimeStamp, sequence, issued, overrun, behind>>

Next == \E w \in Workers : GenId(w) \/ Tick(w) \/ SetBack(w)

Spec == Init /\ [][Next]_vars

----------------------------------------------------------------------------
(***************************************************************************)
(* Properties                                                              *)
(***************************************************************************)

\* The types of the variables.
TypeOK ==
  /\ clock \in [Workers -> BaseEpoch .. MaxClock]
  /\ lastTimeStamp \in [Workers -> {0} \cup (BaseEpoch .. MaxClock + 1)]
  /\ sequence \in [Workers -> 0 .. SequenceSize - 1]
  /\ issued \in [Workers -> Seq(0 .. IdModulus - 1)]
  /\ inTick \in [Workers -> Nat]
  /\ overrun \subseteq Workers
  /\ regressed \subseteq Workers
  /\ behind \subseteq Workers

\* Two generators with different numbers never return the same id, whatever
\* their clocks do: the fields genId packs (IdWorker.h:57-60) do not overlap.
DistinctWorkersNeverCollide ==
  \A v, w \in Workers :
    v # w => \A i \in DOMAIN issued[v], j \in DOMAIN issued[w] :
               issued[v][i] # issued[w][j]

\* The ids of one generator strictly increase for as long as none of its
\* genId calls read a clock behind lastTimeStamp, the case IdWorker.h:47-55
\* has no branch for.
IncreasingUnlessBehind ==
  \A w \in Workers \ behind :
    \A i, j \in DOMAIN issued[w] : i < j => issued[w][i] < issued[w][j]

\* A generator finds the clock behind lastTimeStamp only if the clock was set
\* back or more than SequenceSize ids were asked for in one millisecond: the
\* "timestamp += 1" of IdWorker.h:51 is the only other way to run ahead.
BehindOnlyAfterOverrun == behind \subseteq overrun \cup regressed

\* A generator that stays within its 4096 ids a millisecond, on a clock that
\* is never set back, never returns an id twice, nor one of any other
\* generator (IdWorker.h:42 and :82).
UniqueWithinCapacity ==
  \A v \in Workers \ (overrun \cup regressed), w \in Workers :
    \A i \in DOMAIN issued[v], j \in DOMAIN issued[w] :
      issued[v][i] = issued[w][j] => v = w /\ i = j

\* The millisecond a rollover borrows is paid back: without a clock set back,
\* however many ids are asked for, lastTimeStamp is at most one ahead.
BorrowsOneMillisecond ==
  \A w \in Workers \ regressed : lastTimeStamp[w] <= clock[w] + 1

\* What a snowflake generator (IdWorker.h:24) on a clock that is never set
\* back promises: an id is returned once.
UniqueOnSteadyClock ==
  \A w \in Workers \ regressed :
    \A i, j \in DOMAIN issued[w] : issued[w][i] = issued[w][j] => i = j

\* The order of the fields as IdWorker.h:42 lists them: below the time comes
\* the worker, below the worker the data centre.
FieldsInDocumentedOrder ==
  \A w \in Workers : \A i \in DOMAIN issued[w] :
    (issued[w][i] \div (SequenceSize * DataCenterSize)) % WorkerSize = w.workerId
=============================================================================
