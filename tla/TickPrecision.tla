--------------------------- MODULE TickPrecision ----------------------------
(***************************************************************************)
(* ConvertTickPrecision, which turns the ticks of an activity into the     *)
(* nanoseconds of its entry, for one trace: fromFreq is the frequency its  *)
(* ticks are counted in and does not change.  Numbers are kept as long as  *)
(* they are at most MaxLongLong; a product beyond that is Overflow.        *)
(***************************************************************************)
EXTENDS Integers

CONSTANTS
  MaxLongLong,    \* 2^63 - 1
  NsPerSecond,    \* toFreq, std::chrono::nanoseconds::period::den
  MaxFrequency,   \* bound: the highest tick frequency
  MaxTicks        \* bound: the last tick of a trace

ASSUME WidthAssumption ==
  /\ MaxLongLong \in Nat /\ NsPerSecond \in Nat \ {0}
  /\ MaxFrequency \in Nat /\ MaxTicks \in Nat /\ MaxTicks <= MaxLongLong

VARIABLES
  ticks,      \* of the event at hand
  fromFreq,   \* ticks per second
  previous    \* timestamp of the event before it, in nanoseconds

vars == <<ticks, fromFreq, previous>>

Overflow == -1

\* A signed 64-bit product or sum.
Fits(n) == IF n <= MaxLongLong THEN n ELSE Overflow

\* Fault: the product before the division.
ConvertTickPrecisionAtOnce(t, from, to) ==
  IF from <= 0 THEN 0
  ELSE IF Fits(t * to) = Overflow THEN Overflow
  ELSE (t * to) \div from

\* Fault: the rest is taken from the wrong frequency.
ConvertTickPrecisionWrongRest(t, from, to) ==
  IF from <= 0 THEN 0
  ELSE IF Overflow \in {Fits((t \div from) * to), Fits((t % to) * to)} THEN Overflow
  ELSE Fits((t \div from) * to + ((t % to) * to) \div from)

\* Whole seconds and the rest are converted apart from each other.
ConvertTickPrecision(t, from, to) ==
  IF from <= 0 THEN 0
  ELSE IF Overflow \in {Fits((t \div from) * to), Fits((t % from) * to)} THEN Overflow
  ELSE Fits((t \div from) * to + ((t % from) * to) \div from)

Init ==
  /\ ticks = 0
  /\ fromFreq \in 0 .. MaxFrequency
  /\ previous = 0

\* The next event, some ticks later.
Event ==
  /\ \E n \in ticks .. MaxTicks : ticks' = n
  /\ previous' = ConvertTickPrecision(ticks, fromFreq, NsPerSecond)
  /\ UNCHANGED fromFreq

Spec == Init /\ [][Event]_vars

-----------------------------------------------------------------------------
Timestamp == ConvertTickPrecision(ticks, fromFreq, NsPerSecond)

\* A timestamp that fits is the time of the tick, rounded down, and no step of
\* the computation overflows unless one second of ticks does: multiplying
\* first would overflow NsPerSecond times earlier.
TimestampExact ==
  fromFreq > 0 /\ fromFreq * NsPerSecond <= MaxLongLong =>
    LET exact == (ticks * NsPerSecond) \div fromFreq
    IN  Timestamp = IF exact <= MaxLongLong THEN exact ELSE Overflow

\* Events that are delivered in order have timestamps in that order, so that
\* comparing nanoseconds compares events.
TimestampsOrdered == Timestamp # Overflow => previous <= Timestamp

=============================================================================
