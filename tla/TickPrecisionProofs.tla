------------------------- MODULE TickPrecisionProofs ------------------------
(* What ConvertTickPrecision computes, for every width, frequency and tick. *)
EXTENDS TickPrecision, TLAPS

\* The quotient is the only number whose multiple is that close.
LEMMA QuotientUnique ==
  ASSUME NEW n \in Nat, NEW d \in Nat \ {0}, NEW q \in Nat, NEW r \in Nat,
         n = q * d + r, r < d
  PROVE  n \div d = q
<1>1. /\ n \div d \in Int /\ n % d \in Int
      /\ n = d * (n \div d) + (n % d) /\ 0 <= n % d /\ n % d < d
  BY SMT
<1>2. d * (n \div d - q) = r - (n % d)
  BY <1>1, SMT
<1>3. r - (n % d) < d /\ r - (n % d) > -d
  BY <1>1, SMT
<1>4. CASE n \div d - q >= 1
  BY <1>1, <1>2, <1>3, <1>4, SMT
<1>5. CASE n \div d - q <= -1
  BY <1>1, <1>2, <1>3, <1>5, SMT
<1> QED BY <1>1, <1>4, <1>5, SMT

\* Converting whole seconds and the rest apart loses nothing.
LEMMA SplitExact ==
  ASSUME NEW t \in Nat, NEW f \in Nat \ {0}, NEW g \in Nat
  PROVE  (t \div f) * g + ((t % f) * g) \div f = (t * g) \div f
<1> DEFINE q == t \div f
           r == t % f
           s == (r * g) \div f
           u == (r * g) % f
<1>1. q \in Nat /\ r \in Nat /\ t = f * q + r /\ r < f
  BY SMT
<1>2. r * g \in Nat
  BY <1>1, SMT
<1>3. s \in Nat /\ u \in Nat /\ r * g = f * s + u /\ u < f
  BY <1>2, SMT
<1> HIDE DEF q, r, s, u
<1>4. t * g = (q * g + s) * f + u
  BY <1>1, <1>3, SMT
<1>5. t * g \in Nat /\ q * g + s \in Nat
  BY <1>1, <1>3, SMT
<1>6. (t * g) \div f = q * g + s
  BY <1>3, <1>4, <1>5, QuotientUnique
<1> QED BY <1>6 DEF q, r, s

\* A later tick is never converted to an earlier time.
LEMMA QuotientMonotone ==
  ASSUME NEW m \in Nat, NEW n \in Nat, NEW d \in Nat \ {0}, m <= n
  PROVE  m \div d <= n \div d
<1> DEFINE p == m \div d
           q == n \div d
<1>1. /\ p \in Nat /\ q \in Nat
      /\ d * p <= m /\ n < d * q + d
  BY SMT
<1> HIDE DEF p, q
<1>2. CASE p >= q + 1
  <2>1. d * p >= d * q + d
    BY <1>1, <1>2, SMT
  <2> QED BY <1>1, <2>1, SMT
<1>3. p <= q
  BY <1>1, <1>2, SMT
<1> QED BY <1>3 DEF p, q

LEMMA ConversionExact ==
  ASSUME NEW t \in 0 .. MaxTicks, NEW f \in Nat \ {0}, f * NsPerSecond <= MaxLongLong
  PROVE  ConvertTickPrecision(t, f, NsPerSecond) =
           IF (t * NsPerSecond) \div f <= MaxLongLong THEN (t * NsPerSecond) \div f
                                                      ELSE Overflow
<1> DEFINE g == NsPerSecond
           a == (t \div f) * g
           b == (t % f) * g
<1>1. t \in Nat /\ g \in Nat \ {0} /\ MaxLongLong \in Nat
  BY WidthAssumption
<1>2. t \div f \in Nat /\ t % f \in Nat /\ t % f < f
  BY <1>1, SMT
<1>3. a \in Nat /\ b \in Nat
  BY <1>1, <1>2, SMT
<1>4. b <= f * g
  BY <1>1, <1>2, SMT
<1>5. b \div f \in Nat
  BY <1>3, SMT
<1>6. a + b \div f = (t * g) \div f
  BY <1>1, SplitExact
<1>7. ~ (f <= 0)
  BY SMT
<1> HIDE DEF a, b
<1>8. ConvertTickPrecision(t, f, g) =
        IF Overflow \in {Fits(a), Fits(b)} THEN Overflow ELSE Fits(a + b \div f)
  BY <1>7 DEF ConvertTickPrecision, a, b
<1>9. Fits(b) # Overflow
  BY <1>1, <1>3, <1>4 DEF Fits, Overflow
<1>10. CASE a > MaxLongLong
  <2>1. Fits(a) = Overflow
    BY <1>1, <1>3, <1>10 DEF Fits
  <2>2. a + b \div f > MaxLongLong
    BY <1>1, <1>3, <1>5, <1>10
  <2> QED BY <1>1, <1>6, <1>8, <2>1, <2>2, <1>3, <1>5
<1>11. CASE a <= MaxLongLong
  <2>1. Fits(a) # Overflow
    BY <1>1, <1>3, <1>11 DEF Fits, Overflow
  <2> QED BY <1>6, <1>8, <1>9, <2>1 DEF Fits
<1> QED BY <1>1, <1>3, <1>10, <1>11

-----------------------------------------------------------------------------
TypeInv ==
  /\ ticks \in 0 .. MaxTicks
  /\ fromFreq \in 0 .. MaxFrequency

LEMMA TypesHold == Spec => []TypeInv
<1>1. Init => TypeInv
  BY WidthAssumption DEF Init, TypeInv
<1>2. TypeInv /\ [Event]_vars => TypeInv'
  BY WidthAssumption DEF TypeInv, Event, vars
<1> QED BY <1>1, <1>2, PTL DEF Spec

\* The time of an event is the time of its tick, rounded down, whenever one
\* second of ticks and the time itself fit.
THEOREM TimestampsExact == Spec => []TimestampExact
<1>1. ASSUME TypeInv PROVE TimestampExact
  <2> SUFFICES ASSUME fromFreq > 0, fromFreq * NsPerSecond <= MaxLongLong
               PROVE  Timestamp = IF (ticks * NsPerSecond) \div fromFreq <= MaxLongLong
                                    THEN (ticks * NsPerSecond) \div fromFreq ELSE Overflow
    BY DEF TimestampExact
  <2>1. ticks \in 0 .. MaxTicks /\ fromFreq \in Nat \ {0}
    BY <1>1, WidthAssumption DEF TypeInv
  <2> QED BY <2>1, ConversionExact DEF Timestamp
<1> QED BY TypesHold, <1>1, PTL

\* A conversion overflows or is exact, also where a second of ticks overflows.
LEMMA ConversionValue ==
  ASSUME NEW t \in Nat, NEW f \in Nat
  PROVE  \/ ConvertTickPrecision(t, f, NsPerSecond) = Overflow
         \/ f = 0 /\ ConvertTickPrecision(t, f, NsPerSecond) = 0
         \/ /\ f # 0
            /\ ConvertTickPrecision(t, f, NsPerSecond) = (t * NsPerSecond) \div f
<1>1. CASE f = 0
  BY <1>1 DEF ConvertTickPrecision
<1>2. CASE f # 0
  <2> DEFINE g == NsPerSecond
             sum == (t \div f) * g + ((t % f) * g) \div f
  <2>1. f \in Nat \ {0} /\ g \in Nat /\ ~ (f <= 0)
    BY <1>2, WidthAssumption
  <2>2. sum = (t * g) \div f
    BY <2>1, SplitExact
  <2> HIDE DEF sum
  <2>3. ConvertTickPrecision(t, f, g) \in {Overflow, sum}
    BY <2>1 DEF ConvertTickPrecision, Fits, sum
  <2> QED BY <1>2, <2>2, <2>3
<1> QED BY <1>1, <1>2

\* The timestamp before is 0 or that of an earlier tick.
PreviousInv ==
  \/ previous = 0
  \/ \E m \in 0 .. ticks : previous = ConvertTickPrecision(m, fromFreq, NsPerSecond)

\* The timestamps of events that are delivered in order are in order, for any
\* frequency, as long as they do not overflow.
THEOREM TimestampsStayOrdered == Spec => []TimestampsOrdered
<1> DEFINE Inv == TypeInv /\ PreviousInv
<1>1. Init => Inv
  BY WidthAssumption DEF Init, TypeInv, PreviousInv
<1>2. Inv /\ [Event]_vars => Inv'
  <2> SUFFICES ASSUME Inv, [Event]_vars PROVE Inv'
    OBVIOUS
  <2>1. CASE Event
    <3>1. PICK n \in ticks .. MaxTicks : ticks' = n
      BY <2>1 DEF Event
    <3>2. ticks \in 0 .. ticks' /\ fromFreq' = fromFreq
      BY <2>1, <3>1, WidthAssumption DEF Event, TypeInv
    <3>3. previous' = ConvertTickPrecision(ticks, fromFreq', NsPerSecond)
      BY <2>1, <3>2 DEF Event
    <3>4. TypeInv'
      BY <3>1, <3>2, WidthAssumption DEF TypeInv
    <3> QED BY <3>2, <3>3, <3>4 DEF PreviousInv
  <2>2. CASE UNCHANGED vars
    BY <2>2 DEF vars, TypeInv, PreviousInv
  <2> QED BY <2>1, <2>2
<1>3. ASSUME Inv PROVE TimestampsOrdered
  <2> DEFINE g == NsPerSecond
             f == fromFreq
  <2> SUFFICES ASSUME Timestamp # Overflow PROVE previous <= Timestamp
    BY DEF TimestampsOrdered
  <2>1. ticks \in Nat /\ f \in Nat /\ g \in Nat
    BY <1>3, WidthAssumption DEF TypeInv
  <2>2. CASE f = 0
    <3>1. Timestamp = 0
      BY <2>1, <2>2, ConversionValue DEF Timestamp
    <3>2. \A m \in 0 .. ticks : ConvertTickPrecision(m, f, g) = 0
      BY <2>2 DEF ConvertTickPrecision
    <3> QED BY <1>3, <3>1, <3>2 DEF PreviousInv
  <2>3. CASE f # 0
    <3>1. Timestamp = (ticks * g) \div f
      BY <2>1, <2>3, ConversionValue DEF Timestamp
    <3>2. ticks * g \in Nat
      BY <2>1, SMT
    <3>3. (ticks * g) \div f \in Nat
      BY <2>1, <2>3, <3>2, SMT
    <3>4. CASE previous = 0
      BY <3>1, <3>3, <3>4
    <3>5. CASE \E m \in 0 .. ticks : previous = ConvertTickPrecision(m, f, g)
      <4>1. PICK m \in 0 .. ticks : previous = ConvertTickPrecision(m, f, g)
        BY <3>5
      <4>2. m \in Nat /\ m <= ticks
        BY <2>1
      <4>3. m * g \in Nat /\ m * g <= ticks * g
        BY <2>1, <4>2, SMT
      <4>4. (m * g) \div f <= (ticks * g) \div f
        BY <2>1, <2>3, <3>2, <4>3, QuotientMonotone
      <4>5. previous \in {Overflow, (m * g) \div f}
        BY <2>1, <2>3, <4>1, <4>2, ConversionValue
      <4> QED BY <3>1, <3>3, <4>4, <4>5 DEF Overflow
    <3> QED BY <1>3, <3>4, <3>5 DEF PreviousInv
  <2> QED BY <2>2, <2>3
<1> QED BY <1>1, <1>2, <1>3, PTL DEF Spec

=============================================================================
