-------------------------- MODULE RowPackingProofs --------------------------
(***************************************************************************)
(* The packing of the time trace's entries into processes and threads.     *)
(***************************************************************************)
EXTENDS TimeTraceProofs, FunctionTheorems

-----------------------------------------------------------------------------
(* Largest, smallest and first free numbers. *)

LEMMA MaxFacts ==
  ASSUME NEW S \in SUBSET Nat, S # {}, NEW b \in Nat, \A x \in S : x <= b
  PROVE  Max(S) \in S /\ \A x \in S : x <= Max(S)
<1> DEFINE U == {u \in Nat : \A x \in S : x <= u}
<1>1. PICK u \in U : \A v \in U : u <= v
  BY LeastElement
<1>2. u \in S
  <2> SUFFICES ASSUME u \notin S PROVE FALSE
    OBVIOUS
  <2>1. \A x \in S : x <= u - 1
    OBVIOUS
  <2>2. u - 1 \in Nat
    <3>1. PICK x \in S : TRUE
      OBVIOUS
    <3>2. x \in Nat /\ x <= u - 1 /\ u \in Nat
      BY <2>1
    <3> QED BY <3>2
  <2>3. u - 1 \in U
    BY <2>1, <2>2
  <2> QED BY <1>1, <2>3
<1>3. \E y \in S : \A x \in S : y >= x
  BY <1>2
<1> QED BY <1>3 DEF Max

LEMMA MinFacts ==
  ASSUME NEW S \in SUBSET Nat, S # {}
  PROVE  Min(S) \in S /\ \A x \in S : Min(S) <= x
  BY LeastElement DEF Min

\* There is a number among the first ones that a finite set does not have.
LEMMA FirstFreeFacts ==
  ASSUME NEW S \in SUBSET Nat, IsFiniteSet(S)
  PROVE  /\ FirstFree(S) \in Nat \ S
         /\ \A n \in 0 .. FirstFree(S) - 1 : n \in S
<1> DEFINE c == Cardinality(S)
           free == (0 .. c) \ S
<1>1. c \in Nat
  BY FS_CardinalityType
<1>2. free # {}
  <2> SUFFICES ASSUME 0 .. c \in SUBSET S PROVE FALSE
    BY <1>1
  <2>1. Cardinality(0 .. c) <= c
    BY FS_Subset
  <2>2. Cardinality(0 .. c) = c + 1
    BY <1>1, FS_Interval
  <2> QED BY <1>1, <2>1, <2>2
<1>3. Min(free) \in free /\ \A n \in free : Min(free) <= n
  BY <1>1, <1>2, MinFacts
<1> QED BY <1>1, <1>3 DEF FirstFree

\* The values of a function on finitely many numbers.
LEMMA BoundedImage ==
  ASSUME NEW n \in Nat, NEW f \in [1 .. n -> Nat]
  PROVE  \E b \in Nat : \A i \in 1 .. n : f[i] <= b
<1> DEFINE S == {m \in Nat : m <= n => \E b \in Nat : \A i \in 1 .. m : f[i] <= b}
<1>1. 0 \in S
  OBVIOUS
<1>2. ASSUME NEW m \in S PROVE m + 1 \in S
  <2> SUFFICES ASSUME m + 1 <= n PROVE \E b \in Nat : \A i \in 1 .. m + 1 : f[i] <= b
    OBVIOUS
  <2>1. PICK b \in Nat : \A i \in 1 .. m : f[i] <= b
    BY <1>2
  <2>2. f[m + 1] \in Nat
    OBVIOUS
  <2>3. \A i \in 1 .. m + 1 : f[i] <= b + f[m + 1]
    BY <2>1, <2>2
  <2> QED BY <2>2, <2>3
<1> HIDE DEF S
<1>3. S \in SUBSET Nat
  BY DEF S
<1>4. S = Nat
  BY <1>1, <1>2, <1>3, Induction
<1>5. n \in S
  BY <1>4
<1> QED BY <1>5 DEF S

LEMMA ImageFacts ==
  ASSUME NEW n \in Nat, NEW f \in [1 .. n -> Nat], NEW J \in SUBSET (1 .. n)
  PROVE  LET S == {f[j] : j \in J} IN
         /\ S \in SUBSET Nat /\ IsFiniteSet(S)
         /\ \E b \in Nat : \A x \in S : x <= b
<1> DEFINE S == {f[j] : j \in J}
<1>1. S \in SUBSET Nat
  OBVIOUS
<1>2. PICK b \in Nat : \A x \in S : x <= b
  BY BoundedImage
<1> HIDE DEF S
<1>3. IsFiniteSet(S)
  BY <1>1, <1>2, FS_BoundedSetOfNaturals
<1> QED BY <1>1, <1>2, <1>3 DEF S

-----------------------------------------------------------------------------
(* First fit. *)

\* The predecessors of the i-th entry, in M, that run at the same time.
Clashing(es, s, M, i) == {j \in 1 .. i - 1 : s[j] \in M /\ OverlapsWith(es, s[i], s[j])}

\* FirstFit is well defined: each row depends on the preceding ones only.
LEMMA FirstFitValue ==
  ASSUME NEW es, NEW s, NEW M, Len(s) \in Nat
  PROVE  FirstFit(es, s, M) =
           [i \in 1 .. Len(s) |-> FirstFree({FirstFit(es, s, M)[j] : j \in Clashing(es, s, M, i)})]
<1> DEFINE Fits(r, m) == r = [i \in 1 .. m |-> FirstFree({r[j] : j \in Clashing(es, s, M, i)})]
           S == {m \in Nat : \E r : Fits(r, m)}
<1>1. 0 \in S
  <2>1. Fits([i \in 1 .. 0 |-> 0], 0)
    OBVIOUS
  <2> QED BY <2>1
<1>2. ASSUME NEW m \in S PROVE m + 1 \in S
  <2>1. PICK r : Fits(r, m)
    OBVIOUS
  <2> DEFINE t == [i \in 1 .. m + 1 |-> IF i <= m THEN r[i]
                      ELSE FirstFree({r[j] : j \in Clashing(es, s, M, i)})]
  <2>2. ASSUME NEW i \in 1 .. m + 1
        PROVE  {t[j] : j \in Clashing(es, s, M, i)} = {r[j] : j \in Clashing(es, s, M, i)}
    <3>1. \A j \in Clashing(es, s, M, i) : j \in 1 .. m
      BY DEF Clashing
    <3>2. \A j \in Clashing(es, s, M, i) : t[j] = r[j]
      BY <3>1
    <3> QED BY <3>2
  <2>3. ASSUME NEW i \in 1 .. m + 1
        PROVE  t[i] = FirstFree({r[j] : j \in Clashing(es, s, M, i)})
    <3>1. CASE i <= m
      <4>1. i \in 1 .. m /\ t[i] = r[i]
        BY <3>1
      <4>2. [k \in 1 .. m |-> FirstFree({r[j] : j \in Clashing(es, s, M, k)})][i]
              = FirstFree({r[j] : j \in Clashing(es, s, M, i)})
        BY <4>1
      <4> QED BY <4>1, <4>2, <2>1
    <3>2. CASE i = m + 1
      BY <3>2
    <3> QED BY <3>1, <3>2
  <2> HIDE DEF t
  <2>4. \A i \in 1 .. m + 1 : t[i] = FirstFree({t[j] : j \in Clashing(es, s, M, i)})
    BY <2>2, <2>3
  <2>5. t = [i \in 1 .. m + 1 |-> t[i]]
    BY DEF t
  <2>6. Fits(t, m + 1)
    BY <2>4, <2>5
  <2> HIDE DEF Fits
  <2> QED BY <2>6
<1>3. Len(s) \in S
  BY <1>1, <1>2, Induction
<1>4. \E r : Fits(r, Len(s))
  BY <1>3
<1>5. FirstFit(es, s, M) = CHOOSE r : Fits(r, Len(s))
  BY DEF FirstFit, Clashing
<1>6. Fits(FirstFit(es, s, M), Len(s))
  <2> HIDE DEF Fits
  <2> QED BY <1>4, <1>5
<1> QED BY <1>6

\* Entries that overlap are on different rows, and no row is left free for nothing.
LEMMA FirstFitFacts ==
  ASSUME NEW es, NEW s, NEW M, Len(s) \in Nat
  PROVE  LET row == FirstFit(es, s, M) IN
         /\ row \in [1 .. Len(s) -> Nat]
         /\ \A i \in 1 .. Len(s) : \A j \in Clashing(es, s, M, i) : row[i] # row[j]
         /\ \A i \in 1 .. Len(s) : \A q \in 0 .. row[i] - 1 :
              \E j \in Clashing(es, s, M, i) : row[j] = q
<1> DEFINE row == FirstFit(es, s, M)
           below(i) == {row[j] : j \in Clashing(es, s, M, i)}
<1>1. row = [i \in 1 .. Len(s) |-> FirstFree(below(i))]
  BY FirstFitValue
<1> HIDE DEF row
<1>2. ASSUME NEW i \in 1 .. Len(s), \A j \in 1 .. i - 1 : row[j] \in Nat
      PROVE  /\ row[i] \in Nat
             /\ row[i] \notin below(i)
             /\ \A q \in 0 .. row[i] - 1 : q \in below(i)
  <2> DEFINE f == [j \in 1 .. i - 1 |-> row[j]]
  <2>1. i - 1 \in Nat /\ f \in [1 .. i - 1 -> Nat]
    BY <1>2
  <2>2. Clashing(es, s, M, i) \in SUBSET (1 .. i - 1)
    BY DEF Clashing
  <2>3. below(i) = {f[j] : j \in Clashing(es, s, M, i)}
    BY <2>2
  <2> HIDE DEF f
  <2>4. below(i) \in SUBSET Nat /\ IsFiniteSet(below(i))
    BY <2>1, <2>2, <2>3, ImageFacts
  <2>5. row[i] = FirstFree(below(i))
    BY <1>1
  <2> HIDE DEF below
  <2> QED BY <2>4, <2>5, FirstFreeFacts
<1>3. \A i \in 1 .. Len(s) : row[i] \in Nat
  <2> DEFINE S == {m \in Nat : \A i \in 1 .. Len(s) : i <= m => row[i] \in Nat}
  <2>1. 0 \in S
    OBVIOUS
  <2>2. ASSUME NEW m \in S PROVE m + 1 \in S
    <3>1. ASSUME NEW i \in 1 .. Len(s), i <= m + 1 PROVE row[i] \in Nat
      <4>1. \A j \in 1 .. i - 1 : j \in 1 .. Len(s) /\ j <= m
        BY <3>1
      <4>2. \A j \in 1 .. i - 1 : row[j] \in Nat
        BY <4>1
      <4> QED BY <4>2, <1>2
    <3> QED BY <3>1
  <2> HIDE DEF S
  <2>3. S \in SUBSET Nat
    BY DEF S
  <2>4. S = Nat
    BY <2>1, <2>2, <2>3, Induction
  <2>5. Len(s) \in S
    BY <2>4
  <2> QED BY <2>5 DEF S
<1>4. row \in [1 .. Len(s) -> Nat]
  BY <1>1, <1>3
<1>5. ASSUME NEW i \in 1 .. Len(s)
      PROVE  /\ row[i] \notin below(i)
             /\ \A q \in 0 .. row[i] - 1 : q \in below(i)
  <2>1. \A j \in 1 .. i - 1 : row[j] \in Nat
    BY <1>3
  <2> QED BY <2>1, <1>2
<1> QED BY <1>4, <1>5 DEF row

\* An entry is on the n-th row only because n - 1 others run when it starts.
LEMMA RowsNeeded ==
  ASSUME NEW es \in Entrylike, NEW s \in Seq(Activities), NEW M, OneToOne(s), InOrder(es, s),
         \A j \in DOMAIN s : es[s[j]] # Null,
         NEW i \in DOMAIN s
  PROVE  \E R \in SUBSET Elements(s) :
           /\ s[i] \in R
           /\ Cardinality(R) = FirstFit(es, s, M)[i] + 1
           /\ \A a, b \in R : a # b => OverlapsWith(es, a, b)
<1> DEFINE row == FirstFit(es, s, M)
           n == row[i]
           pos == [q \in 0 .. n |-> IF q = n THEN i
                                    ELSE CHOOSE j \in Clashing(es, s, M, i) : row[j] = q]
           f == [q \in 0 .. n |-> s[pos[q]]]
           R == {f[q] : q \in 0 .. n}
<1>1. /\ Len(s) \in Nat /\ DOMAIN s = 1 .. Len(s)
      /\ \A j \in DOMAIN s : s[j] \in Activities
  OBVIOUS
<1>2. /\ row \in [1 .. Len(s) -> Nat]
      /\ \A q \in 0 .. n - 1 : \E j \in Clashing(es, s, M, i) : row[j] = q
  BY <1>1, FirstFitFacts
<1>3. \A j \in DOMAIN s : /\ es[s[j]].StartTimestamp \in Nat
                          /\ es[s[j]].StopTimestamp \in Nat
  BY <1>1, EntryFacts, FilterAssumption
<1> HIDE DEF row
<1>4. n \in Nat
  BY <1>1, <1>2
<1> HIDE DEF n
<1>5. \A q \in 0 .. n : /\ pos[q] \in DOMAIN s /\ row[pos[q]] = q
                        /\ q # n => pos[q] \in Clashing(es, s, M, i)
  <2> TAKE q \in 0 .. n
  <2>1. CASE q = n
    BY <2>1, <1>1 DEF n
  <2>2. CASE q # n
    <3>1. q \in 0 .. n - 1
      BY <2>2, <1>4
    <3>2. pos[q] \in Clashing(es, s, M, i) /\ row[pos[q]] = q
      BY <3>1, <2>2, <1>2
    <3> QED BY <3>2, <1>1 DEF Clashing
  <2> QED BY <2>1, <2>2
<1>6. pos[n] = i
  BY <1>4
<1> HIDE DEF pos
<1>7. f \in Bijection(0 .. n, R)
  <2>1. \A q, r \in 0 .. n : f[q] = f[r] => q = r
    BY <1>5 DEF OneToOne
  <2> QED BY <2>1, Fun_IsBij
<1>8. Cardinality(R) = n + 1
  <2>1. IsFiniteSet(0 .. n) /\ Cardinality(0 .. n) = n + 1
    BY <1>4, FS_Interval
  <2>2. ExistsBijection(0 .. n, R)
    BY <1>7 DEF ExistsBijection
  <2> HIDE DEF R
  <2> QED BY <2>1, <2>2, FS_Bijection
<1>9. \A q \in 0 .. n :
        /\ es[f[q]].StartTimestamp <= es[s[i]].StartTimestamp
        /\ q # n => es[s[i]].StartTimestamp < es[f[q]].StopTimestamp
        /\ q # n => es[f[q]].StartTimestamp < es[s[i]].StopTimestamp
  <2> TAKE q \in 0 .. n
  <2>1. CASE q = n
    BY <2>1, <1>3, <1>6
  <2>2. CASE q # n
    <3>1. pos[q] \in 1 .. i - 1 /\ OverlapsWith(es, s[i], s[pos[q]])
      BY <2>2, <1>5 DEF Clashing
    <3>2. es[s[pos[q]]].StartTimestamp <= es[s[i]].StartTimestamp
      BY <3>1, <1>1, <1>5 DEF InOrder
    <3> QED BY <3>1, <3>2 DEF OverlapsWith
  <2> QED BY <2>1, <2>2
<1>10. \A q, r \in 0 .. n : q # r => OverlapsWith(es, f[q], f[r])
  <2> SUFFICES ASSUME NEW q \in 0 .. n, NEW r \in 0 .. n, q # r
               PROVE  OverlapsWith(es, f[q], f[r])
    OBVIOUS
  <2>1. /\ f[q] = s[pos[q]] /\ f[r] = s[pos[r]]
        /\ pos[q] \in DOMAIN s /\ pos[r] \in DOMAIN s
    BY <1>5
  <2>2. f[n] = s[i]
    BY <1>4, <1>6
  <2> HIDE DEF f
  <2>3. /\ es[f[q]].StartTimestamp \in Nat /\ es[f[q]].StopTimestamp \in Nat
        /\ es[f[r]].StartTimestamp \in Nat /\ es[f[r]].StopTimestamp \in Nat
        /\ es[s[i]].StartTimestamp \in Nat /\ es[s[i]].StopTimestamp \in Nat
    BY <2>1, <1>3
  <2>4. CASE q = n
    BY <2>2, <2>4, <1>9 DEF OverlapsWith
  <2>5. CASE r = n
    BY <2>2, <2>5, <1>9 DEF OverlapsWith
  <2>6. CASE q # n /\ r # n
    BY <2>3, <2>6, <1>9 DEF OverlapsWith
  <2> QED BY <2>4, <2>5, <2>6
<1>11. s[i] \in R /\ R \in SUBSET Elements(s)
  <2>1. f[n] = s[i] /\ n \in 0 .. n
    BY <1>4, <1>6
  <2> QED BY <2>1, <1>5 DEF Elements
<1>12. \A a, b \in R : a # b => OverlapsWith(es, a, b)
  BY <1>10
<1> HIDE DEF R
<1> QED BY <1>8, <1>11, <1>12 DEF n, row

-----------------------------------------------------------------------------
(* The children of one entry. *)

\* ExtraThreadIds is well defined, and is the sum of what the rows need.
LEMMA ExtraThreadIdsValue ==
  ASSUME NEW es, NEW a, \A q \in Nat : RowNeeds(es, a, q) \in Nat
  PROVE  /\ ExtraThreadIds(es, a, 0) = 0
         /\ \A r \in Nat : ExtraThreadIds(es, a, r) \in Nat
         /\ \A r \in Nat : ExtraThreadIds(es, a, r + 1) =
                             ExtraThreadIds(es, a, r) + RowNeeds(es, a, r)
<1> DEFINE needs(q) == RowNeeds(es, a, q)
           Sums(f, r) == f = [q \in 0 .. r |-> IF q = 0 THEN 0 ELSE f[q - 1] + needs(q - 1)]
           sum(r) == CHOOSE f : Sums(f, r)
           S == {r \in Nat : \E f : Sums(f, r)}
           extra(r) == ExtraThreadIds(es, a, r)
<1>1. 0 \in S
  <2>1. Sums([q \in 0 .. 0 |-> 0], 0)
    OBVIOUS
  <2> QED BY <2>1
<1>2. ASSUME NEW f, NEW r \in Nat, Sums(f, r)
      PROVE  f[0] = 0 /\ \A q \in 1 .. r : f[q] = f[q - 1] + needs(q - 1)
  <2> DEFINE g == [q \in 0 .. r |-> IF q = 0 THEN 0 ELSE f[q - 1] + needs(q - 1)]
  <2>1. g[0] = 0 /\ \A q \in 1 .. r : g[q] = f[q - 1] + needs(q - 1)
    OBVIOUS
  <2>2. f = g
    BY <1>2
  <2> HIDE DEF g
  <2> QED BY <2>1, <2>2
<1>3. ASSUME NEW r \in S PROVE r + 1 \in S
  <2>1. PICK f : Sums(f, r)
    OBVIOUS
  <2> DEFINE g == [q \in 0 .. r + 1 |-> IF q <= r THEN f[q] ELSE f[r] + needs(r)]
  <2>2. f[0] = 0 /\ \A q \in 1 .. r : f[q] = f[q - 1] + needs(q - 1)
    BY <2>1, <1>2
  <2>3. g[0] = 0 /\ \A q \in 1 .. r + 1 : g[q] = g[q - 1] + needs(q - 1)
    BY <2>2
  <2>4. g = [q \in 0 .. r + 1 |-> g[q]]
    OBVIOUS
  <2> HIDE DEF g
  <2>5. \A q \in 0 .. r + 1 : g[q] = IF q = 0 THEN 0 ELSE g[q - 1] + needs(q - 1)
    <3> TAKE q \in 0 .. r + 1
    <3>1. q # 0 => q \in 1 .. r + 1
      OBVIOUS
    <3> HIDE DEF needs
    <3> QED BY <2>3, <3>1
  <2> HIDE DEF needs
  <2>6. Sums(g, r + 1)
    BY <2>4, <2>5
  <2> HIDE DEF Sums
  <2> QED BY <2>6
<1>4. \A r \in Nat : \E f : Sums(f, r)
  <2> HIDE DEF S
  <2>1. S \in SUBSET Nat
    BY DEF S
  <2>2. S = Nat
    BY <1>1, <1>3, <2>1, Induction
  <2> QED BY <2>2 DEF S
<1> HIDE DEF Sums
<1>5. ASSUME NEW r \in Nat
      PROVE  /\ extra(r) = sum(r)[r]
             /\ sum(r)[0] = 0
             /\ \A q \in 1 .. r : sum(r)[q] = sum(r)[q - 1] + needs(q - 1)
  <2>1. Sums(sum(r), r)
    BY <1>4
  <2>2. extra(r) = sum(r)[r]
    BY DEF ExtraThreadIds, Sums
  <2> HIDE DEF sum
  <2> QED BY <2>1, <2>2, <1>2
<1> HIDE DEF sum
\* The first values of two sums are the same.
<1>6. ASSUME NEW r \in Nat, NEW t \in Nat, r <= t PROVE sum(t)[r] = extra(r)
  <2> DEFINE T == {q \in Nat : q <= r => sum(t)[q] = sum(r)[q]}
  <2>1. 0 \in T
    BY <1>5
  <2>2. ASSUME NEW q \in T PROVE q + 1 \in T
    <3>1. ASSUME q + 1 <= r PROVE sum(t)[q + 1] = sum(r)[q + 1]
      <4>1. q + 1 \in 1 .. r /\ q + 1 \in 1 .. t /\ (q + 1) - 1 = q
        BY <3>1, <1>6
      <4>2. sum(t)[q + 1] = sum(t)[q] + needs(q) /\ sum(r)[q + 1] = sum(r)[q] + needs(q)
        BY <4>1, <1>5
      <4> QED BY <3>1, <4>2
    <3> QED BY <3>1
  <2> HIDE DEF T
  <2>3. T \in SUBSET Nat
    BY DEF T
  <2>4. T = Nat
    BY <2>1, <2>2, <2>3, Induction
  <2>5. sum(t)[r] = sum(r)[r]
    BY <2>4 DEF T
  <2> QED BY <2>5, <1>5
<1>7. \A r \in Nat : extra(r + 1) = extra(r) + needs(r)
  <2> TAKE r \in Nat
  <2>1. r + 1 \in Nat /\ r + 1 \in 1 .. r + 1 /\ (r + 1) - 1 = r /\ r <= r + 1
    OBVIOUS
  <2>2. extra(r + 1) = sum(r + 1)[r + 1] /\ sum(r + 1)[r + 1] = sum(r + 1)[r] + needs(r)
    BY <2>1, <1>5
  <2>3. sum(r + 1)[r] = extra(r)
    BY <2>1, <1>6
  <2> QED BY <2>2, <2>3
<1>8. extra(0) = 0
  BY <1>5
<1> HIDE DEF extra
<1>9. \A r \in Nat : extra(r) \in Nat
  <2> DEFINE T == {r \in Nat : extra(r) \in Nat}
  <2>1. 0 \in T
    BY <1>8
  <2>2. \A r \in T : r + 1 \in T
    BY <1>7
  <2> HIDE DEF T
  <2>3. T \in SUBSET Nat
    BY DEF T
  <2>4. T = Nat
    BY <2>1, <2>2, <2>3, Induction
  <2> QED BY <2>4 DEF T
<1> QED BY <1>7, <1>8, <1>9 DEF extra

DataTypeOK == localOffsetsData_ \in [Activities -> LocalOffsetData \cup {Null}]

\* What the i-th child of a requires below its own row, and the row it gets.
Requires(es, a, i) == localOffsetsData_[es[a].Children[i]].RequiredThreadIdToFitHierarchy
RowOf(es, a, i) ==
  RawLocalThreadIds(es, a)[i] + ExtraThreadIds(es, a, RawLocalThreadIds(es, a)[i])

LEMMA ChildrenTypes ==
  ASSUME DataTypeOK, NEW es \in Entrylike, NEW a \in Activities, es[a] # Null
  PROVE  /\ Len(es[a].Children) \in Nat /\ DOMAIN es[a].Children = 1 .. Len(es[a].Children)
         /\ RawLocalThreadIds(es, a) \in [1 .. Len(es[a].Children) -> Nat]
         /\ MeasuredChildren(es, a) \subseteq 1 .. Len(es[a].Children)
         /\ \A i \in MeasuredChildren(es, a) : Requires(es, a, i) \in Nat
<1>1. es[a].Children \in Seq(Activities)
  BY EntryFacts
<1>2. /\ Len(es[a].Children) \in Nat /\ DOMAIN es[a].Children = 1 .. Len(es[a].Children)
      /\ \A i \in DOMAIN es[a].Children : es[a].Children[i] \in Activities
  BY <1>1
<1>3. RawLocalThreadIds(es, a) \in [1 .. Len(es[a].Children) -> Nat]
  BY <1>2, FirstFitFacts DEF RawLocalThreadIds
<1>4. ASSUME NEW i \in MeasuredChildren(es, a) PROVE Requires(es, a, i) \in Nat
  <2>1. localOffsetsData_[es[a].Children[i]] \in LocalOffsetData
    BY <1>2 DEF MeasuredChildren, Measured, DataTypeOK
  <2> QED BY <2>1 DEF Requires, LocalOffsetData
<1> QED BY <1>2, <1>3, <1>4 DEF MeasuredChildren

\* A row needs what the most demanding of its entries does.
LEMMA RowNeedsFacts ==
  ASSUME DataTypeOK, NEW es \in Entrylike, NEW a \in Activities, es[a] # Null, NEW q
  PROVE  LET onRow == {i \in MeasuredChildren(es, a) : RawLocalThreadIds(es, a)[i] = q} IN
         /\ RowNeeds(es, a, q) \in Nat
         /\ \A i \in onRow : Requires(es, a, i) <= RowNeeds(es, a, q)
         /\ onRow # {} => \E i \in onRow : Requires(es, a, i) = RowNeeds(es, a, q)
<1> DEFINE onRow == {i \in MeasuredChildren(es, a) : RawLocalThreadIds(es, a)[i] = q}
           n == Len(es[a].Children)
           f == [i \in 1 .. n |-> IF i \in MeasuredChildren(es, a) THEN Requires(es, a, i) ELSE 0]
           S == {f[i] : i \in onRow}
<1>1. n \in Nat /\ f \in [1 .. n -> Nat] /\ onRow \in SUBSET (1 .. n)
  BY ChildrenTypes
<1>2. \A i \in onRow : f[i] = Requires(es, a, i)
  BY <1>1
<1>3. Requirements(es, a, onRow) = S
  BY <1>2 DEF Requirements, Requires
<1>4. RowNeeds(es, a, q) = Max({0} \cup S)
  BY <1>3 DEF RowNeeds
<1> HIDE DEF f, onRow
<1>5. S \in SUBSET Nat
  BY <1>1
<1>6. PICK b \in Nat : \A x \in S : x <= b
  BY <1>1, ImageFacts
<1>7. /\ Max({0} \cup S) \in {0} \cup S
      /\ \A x \in {0} \cup S : x <= Max({0} \cup S)
  <2> HIDE DEF S
  <2> DEFINE T == {0} \cup S
  <2>1. T \in SUBSET Nat /\ T # {} /\ \A x \in T : x <= b
    BY <1>5, <1>6
  <2> HIDE DEF T
  <2>2. Max(T) \in T /\ \A x \in T : x <= Max(T)
    BY <2>1, MaxFacts
  <2> QED BY <2>2 DEF T
<1>8. RowNeeds(es, a, q) \in Nat
  BY <1>4, <1>5, <1>7
<1>9. \A i \in onRow : Requires(es, a, i) <= RowNeeds(es, a, q)
  BY <1>2, <1>4, <1>7
<1>10. ASSUME onRow # {} PROVE \E i \in onRow : Requires(es, a, i) = RowNeeds(es, a, q)
  <2>1. CASE RowNeeds(es, a, q) \in S
    BY <2>1, <1>2
  <2>2. CASE RowNeeds(es, a, q) = 0
    <3>1. PICK i \in onRow : TRUE
      BY <1>10
    <3>2. Requires(es, a, i) \in Nat
      BY <1>1, <1>2
    <3> QED BY <2>2, <3>1, <3>2, <1>9
  <2> QED BY <2>1, <2>2, <1>4, <1>7
<1> QED BY <1>8, <1>9, <1>10 DEF onRow

\* The rows of two children that run at the same time, with what each requires
\* below, are apart; and the rows a requires are just enough for its children.
LEMMA ChildrenPacked ==
  ASSUME DataTypeOK, NEW es \in Entrylike, NEW a \in Activities, es[a] # Null
  PROVE  LET ks == MeasuredChildren(es, a) IN
         /\ RequiredThreadIds(es, a) \in Nat
         /\ \A i \in ks : /\ RowOf(es, a, i) \in Nat
                          /\ RowOf(es, a, i) + Requires(es, a, i) <= RequiredThreadIds(es, a)
         /\ IF ks = {} THEN RequiredThreadIds(es, a) = 0
            ELSE \E i \in ks :
                   RowOf(es, a, i) + Requires(es, a, i) = RequiredThreadIds(es, a)
         /\ \A i, j \in ks :
              j < i /\ OverlapsWith(es, es[a].Children[i], es[a].Children[j]) =>
                \/ RowOf(es, a, i) + Requires(es, a, i) < RowOf(es, a, j)
                \/ RowOf(es, a, j) + Requires(es, a, j) < RowOf(es, a, i)
<1> DEFINE ks == MeasuredChildren(es, a)
           n == Len(es[a].Children)
           raw == RawLocalThreadIds(es, a)
           extra(r) == ExtraThreadIds(es, a, r)
           needs(r) == RowNeeds(es, a, r)
           req(i) == Requires(es, a, i)
<1>1. /\ n \in Nat /\ raw \in [1 .. n -> Nat] /\ ks \subseteq 1 .. n
      /\ \A i \in ks : req(i) \in Nat /\ raw[i] \in Nat
      /\ DOMAIN es[a].Children = 1 .. n
  BY ChildrenTypes
<1>2. /\ \A r \in Nat : needs(r) \in Nat
      /\ \A i \in ks : req(i) <= needs(raw[i])
      /\ \A i \in ks : \E j \in ks : raw[j] = raw[i] /\ req(j) = needs(raw[i])
  BY RowNeedsFacts
<1>3. /\ extra(0) = 0
      /\ \A r \in Nat : extra(r) \in Nat
      /\ \A r \in Nat : extra(r + 1) = extra(r) + needs(r)
  BY <1>2, ExtraThreadIdsValue
<1>4. /\ \A i \in ks : RowOf(es, a, i) = raw[i] + extra(raw[i])
      /\ UsedRows(es, a) = {raw[i] : i \in ks}
  BY DEF RowOf, UsedRows
<1>5. \A i, j \in ks : j < i /\ OverlapsWith(es, es[a].Children[i], es[a].Children[j]) =>
        raw[i] # raw[j]
  <2> SUFFICES ASSUME NEW i \in ks, NEW j \in ks, j < i,
                      OverlapsWith(es, es[a].Children[i], es[a].Children[j])
               PROVE  raw[i] # raw[j]
    OBVIOUS
  <2>1. j \in Clashing(es, es[a].Children, Measured, i)
    BY <1>1 DEF Clashing, MeasuredChildren
  <2> QED BY <2>1, <1>1, FirstFitFacts DEF RawLocalThreadIds
<1> HIDE DEF ks, n, raw, extra, needs, req
<1>6. ASSUME NEW q \in Nat, NEW r \in Nat, q < r PROVE extra(q) + needs(q) <= extra(r)
  <2> DEFINE S == {m \in Nat : extra(q + 1) <= extra(q + 1 + m)}
  <2>1. 0 \in S
    BY <1>3
  <2>2. ASSUME NEW m \in S PROVE m + 1 \in S
    <3>1. q + 1 \in Nat /\ q + 1 + m \in Nat /\ q + 1 + (m + 1) = (q + 1 + m) + 1
      OBVIOUS
    <3>2. extra(q + 1 + (m + 1)) = extra(q + 1 + m) + needs(q + 1 + m)
      BY <3>1, <1>3
    <3>3. extra(q + 1) \in Nat /\ extra(q + 1 + m) \in Nat /\ needs(q + 1 + m) \in Nat
      BY <3>1, <1>2, <1>3
    <3> QED BY <3>2, <3>3
  <2> HIDE DEF S
  <2>3. S \in SUBSET Nat
    BY DEF S
  <2>4. S = Nat
    BY <2>1, <2>2, <2>3, Induction
  <2>5. r - (q + 1) \in Nat /\ q + 1 + (r - (q + 1)) = r
    BY <1>6
  <2>6. extra(q + 1) <= extra(q + 1 + (r - (q + 1)))
    BY <2>4, <2>5 DEF S
  <2> QED BY <2>5, <2>6, <1>3
<1>7. ASSUME NEW i \in ks, NEW j \in ks, raw[i] < raw[j]
      PROVE  raw[i] + extra(raw[i]) + req(i) < raw[j] + extra(raw[j])
  <2>1. extra(raw[i]) + needs(raw[i]) <= extra(raw[j])
    BY <1>1, <1>6, <1>7
  <2>2. req(i) <= needs(raw[i])
    BY <1>2
  <2>3. /\ raw[i] \in Nat /\ raw[j] \in Nat /\ req(i) \in Nat
        /\ extra(raw[i]) \in Nat /\ extra(raw[j]) \in Nat /\ needs(raw[i]) \in Nat
    BY <1>1, <1>2, <1>3
  <2> QED BY <2>1, <2>2, <2>3, <1>7
<1>8. \A i, j \in ks : j < i /\ OverlapsWith(es, es[a].Children[i], es[a].Children[j]) =>
                \/ RowOf(es, a, i) + req(i) < RowOf(es, a, j)
                \/ RowOf(es, a, j) + req(j) < RowOf(es, a, i)
  <2> SUFFICES ASSUME NEW i \in ks, NEW j \in ks, raw[i] # raw[j]
               PROVE  \/ RowOf(es, a, i) + req(i) < RowOf(es, a, j)
                      \/ RowOf(es, a, j) + req(j) < RowOf(es, a, i)
    BY <1>5
  <2>1. raw[i] < raw[j] \/ raw[j] < raw[i]
    BY <1>1
  <2> QED BY <2>1, <1>4, <1>7
<1>9. \A i \in ks : RowOf(es, a, i) \in Nat
  <2> TAKE i \in ks
  <2>1. raw[i] \in Nat /\ extra(raw[i]) \in Nat
    BY <1>1, <1>3
  <2> QED BY <2>1, <1>4
<1>10. CASE ks = {}
  <2>1. UsedRows(es, a) = {}
    BY <1>4, <1>10
  <2>2. RequiredThreadIds(es, a) = 0
    BY <2>1 DEF RequiredThreadIds
  <2> QED BY <2>2, <1>10 DEF ks
<1>11. CASE ks # {}
  <2> DEFINE used == UsedRows(es, a)
             last == Max(used)
  <2>1. used # {} /\ used \in SUBSET Nat
    BY <1>1, <1>4, <1>11
  <2>2. PICK b \in Nat : \A x \in used : x <= b
    BY <1>1, <1>4, ImageFacts
  <2>3. last \in used /\ \A x \in used : x <= last
    BY <2>1, <2>2, MaxFacts
  <2>4. RequiredThreadIds(es, a) = last + extra(last + 1)
    BY <2>1 DEF RequiredThreadIds, extra
  <2> HIDE DEF last, used
  <2>5. last \in Nat /\ last + 1 \in Nat /\ extra(last) \in Nat /\ needs(last) \in Nat
    BY <2>1, <2>3, <1>2, <1>3
  <2>6. RequiredThreadIds(es, a) = last + extra(last) + needs(last)
    BY <2>4, <2>5, <1>3
  <2>7. \A i \in ks : RowOf(es, a, i) + req(i) <= RequiredThreadIds(es, a)
    <3> TAKE i \in ks
    <3>1. raw[i] \in Nat /\ extra(raw[i]) \in Nat /\ req(i) \in Nat /\ raw[i] <= last
      BY <1>1, <1>3, <1>4, <2>3 DEF used
    <3>2. CASE raw[i] = last
      BY <3>1, <3>2, <2>5, <2>6, <1>2, <1>4
    <3>3. CASE raw[i] < last
      <4>1. extra(raw[i]) + needs(raw[i]) <= extra(last)
        BY <3>1, <3>3, <2>5, <1>6
      <4>2. req(i) <= needs(raw[i]) /\ needs(raw[i]) \in Nat
        BY <3>1, <1>2
      <4> QED BY <3>1, <3>3, <4>1, <4>2, <2>5, <2>6, <1>4
    <3> QED BY <3>1, <3>2, <3>3, <2>5
  <2>8. \E i \in ks : RowOf(es, a, i) + req(i) = RequiredThreadIds(es, a)
    <3>1. PICK i \in ks : raw[i] = last
      BY <2>3, <1>4 DEF used
    <3>2. PICK j \in ks : raw[j] = last /\ req(j) = needs(last)
      BY <3>1, <1>2
    <3>3. RowOf(es, a, j) + req(j) = RequiredThreadIds(es, a)
      BY <3>2, <2>6, <1>4
    <3> QED BY <3>3
  <2>9. RequiredThreadIds(es, a) \in Nat
    BY <2>5, <2>6
  <2> QED BY <2>7, <2>8, <2>9, <1>8, <1>9, <1>11 DEF ks, req
<1> QED BY <1>10, <1>11

-----------------------------------------------------------------------------
(* The inductive invariant: an entry is given its rows when it stops, for    *)
(* good, because nothing below it can still change, other than be erased     *)
(* with it.                                                                  *)

Row(a) == localOffsetsData_[a].CalculatedLocalThreadId
Below(a) == localOffsetsData_[a].RequiredThreadIdToFitHierarchy

SpanInv == \A a \in Entries : entries_[a].StartTimestamp <= entries_[a].StopTimestamp

\* No entry is below itself, and none is infinitely deep.
RankInv ==
  \E n \in Nat : \E rank \in [Activities -> 0 .. n] :
    \A c \in Activities : \A p \in Parents(entries_, c) : rank[p] < rank[c]

DataInv ==
  /\ DataTypeOK
  /\ \A a \in Entries : localOffsetsData_[a] = Null <=> a \in Active
  /\ \A a \in Activities \ started : localOffsetsData_[a] = Null

\* The rows of the children of p, each with what is below it: they are among
\* those p requires, reach the last of them, and two that are used at the same
\* time are apart.
Packed(p) ==
  /\ \A c \in ChildrenOf(entries_, p) : Row(c) + Below(c) <= Below(p)
  /\ IF ChildrenOf(entries_, p) = {}
       THEN Below(p) = 0
       ELSE \E c \in ChildrenOf(entries_, p) : Row(c) + Below(c) = Below(p)
  /\ \A c, d \in ChildrenOf(entries_, p) :
       c # d /\ OverlapsWith(entries_, c, d) =>
         \/ Row(c) + Below(c) < Row(d)
         \/ Row(d) + Below(d) < Row(c)

PackedInv == \A p \in Entries \ Active : Packed(p)

\* The slice that is written for an entry.
Written(a) ==
  [pid |-> remappings_[a].ProcessId,
   tid |-> remappings_[a].ThreadId,
   name |-> entries_[a].Name,
   ts |-> entries_[a].StartTimestamp \div NsPerUs,
   end |-> IF entries_[a].Children = <<>> THEN StopUs(entries_[a])
                                         ELSE entries_[a].StopTimestamp \div NsPerUs]

OutputInv ==
  /\ analysis \in {"running", "exported", "failed"}
  /\ IF analysis = "running" THEN remappings_ = [a \in Activities |-> Null]
                             ELSE Active = {} /\ remappings_ = Calculate
  /\ traceEvents = IF analysis = "exported"
       THEN [a \in Activities |-> IF a \in Reached THEN Written(a) ELSE Null]
       ELSE [a \in Activities |-> Null]

RowsInv ==
  /\ HierarchyInv
  /\ SpanInv /\ RankInv /\ DataInv /\ PackedInv
  /\ OutputInv

LEMMA RowsInitInv == Init => RowsInv
<1> SUFFICES ASSUME Init PROVE RowsInv
  OBVIOUS
<1>1. HierarchyInv
  BY HierarchyInitInv DEF Init
<1>2. Entries = {} /\ entries_ = [a \in Activities |-> Null]
  BY DEF Init, HierarchyInit, Entries
<1>3. RankInv
  <2> DEFINE rank == [a \in Activities |-> 0]
  <2>1. rank \in [Activities -> 0 .. 0]
    OBVIOUS
  <2>2. \A c \in Activities : Parents(entries_, c) = {}
    BY <1>2 DEF Parents
  <2> QED BY <2>1, <2>2 DEF RankInv
<1>4. SpanInv /\ PackedInv
  BY <1>2 DEF SpanInv, PackedInv
<1>5. DataInv
  BY <1>2 DEF DataInv, DataTypeOK, Init
<1>6. OutputInv
  BY DEF OutputInv, Init
<1> QED BY <1>1, <1>3, <1>4, <1>5, <1>6 DEF RowsInv

\* What is below an entry that stopped has stopped.
LEMMA ChildFacts ==
  ASSUME HierarchyInv
  PROVE  /\ \A p \in Entries : \A c \in ChildrenOf(entries_, p) :
              /\ c \in Entries
              /\ p \in Parents(entries_, c)
              /\ p \notin Active => c \notin Active
         /\ \A c \in Activities : \A p \in Parents(entries_, c) :
              /\ p \in Entries /\ c \in Entries /\ c \in ChildrenOf(entries_, p)
         /\ \A c \in Activities : \A p, q \in Parents(entries_, c) : p = q
         /\ Entries \subseteq Activities /\ Active \subseteq Entries
<1>1. /\ HierarchyTypeOK /\ TreeInv /\ KeptInv
      /\ Forest(entries_, roots_)
  BY DEF HierarchyInv, ForestInv
<1>2. /\ entries_ \in Entrylike
      /\ Entries \subseteq Activities /\ Active \subseteq Entries
  BY <1>1, TypeFacts DEF KeptInv
<1>3. \A c \in Activities : \A p \in Parents(entries_, c) :
        /\ p \in Entries /\ c \in Entries /\ c \in ChildrenOf(entries_, p)
  BY <1>1 DEF Forest, Parents, Entries
<1>4. \A c \in Activities : \A p, q \in Parents(entries_, c) : p = q
  BY <1>1 DEF Forest
<1>5. ASSUME NEW p \in Entries, NEW c \in ChildrenOf(entries_, p)
      PROVE  /\ c \in Entries
             /\ p \in Parents(entries_, c)
             /\ p \notin Active => c \notin Active
  <2>1. p \in Activities /\ entries_[p] # Null
    BY DEF Entries
  <2>2. c \in Activities
    BY <2>1, <1>2, EntryFacts
  <2>3. p \in Parents(entries_, c) /\ c \in Entries
    BY <2>1, <2>2, <1>3 DEF Parents
  <2>4. ASSUME c \in Active PROVE p \in Active
    <3>1. IF parent[c] = Null THEN c \in Elements(roots_) ELSE parent[c] \in Parents(entries_, c)
      BY <2>4, <1>1 DEF KeptInv
    <3>2. parent[c] # Null
      BY <2>3, <3>1, <1>1 DEF Forest
    <3>3. p = parent[c]
      BY <2>2, <2>3, <3>1, <3>2, <1>4
    <3> QED BY <2>4, <3>2, <3>3, <1>1 DEF TreeInv
  <2> QED BY <2>3, <2>4
<1> QED BY <1>2, <1>3, <1>4, <1>5

-----------------------------------------------------------------------------
(* The steps that leave the rows alone. *)

\* What the invariant depends on, when no entry comes or goes.
SameEntries ==
  /\ Entries' = Entries /\ Active' = Active /\ started' = started
  /\ \A c : Parents(entries_', c) = Parents(entries_, c)
  /\ \A x \in Entries :
       /\ entries_'[x].StartTimestamp = entries_[x].StartTimestamp
       /\ entries_'[x].StopTimestamp = entries_[x].StopTimestamp
       /\ entries_'[x].Children = entries_[x].Children

LEMMA SameRows ==
  ASSUME HierarchyInv, SpanInv, RankInv, DataInv, PackedInv,
         SameEntries, UNCHANGED localOffsetsData_
  PROVE  SpanInv' /\ RankInv' /\ DataInv' /\ PackedInv'
<1>1. /\ \A p \in Entries : ChildrenOf(entries_', p) = ChildrenOf(entries_, p)
      /\ \A p \in Entries : \A c \in ChildrenOf(entries_, p) : c \in Entries
  BY ChildFacts DEF SameEntries, ChildrenOf
<1>2. \A c, d \in Entries : OverlapsWith(entries_', c, d) <=> OverlapsWith(entries_, c, d)
  BY DEF SameEntries, OverlapsWith
<1>3. SpanInv' /\ RankInv' /\ DataInv'
  BY DEF SameEntries, SpanInv, RankInv, DataInv, DataTypeOK
<1>4. \A a : Row(a)' = Row(a) /\ Below(a)' = Below(a)
  BY DEF Row, Below
<1>5. ASSUME NEW p \in Entries, Packed(p) PROVE Packed(p)'
  BY <1>1, <1>2, <1>4, <1>5 DEF Packed
<1>6. PackedInv'
  BY <1>5 DEF PackedInv, SameEntries
<1> QED BY <1>3, <1>6

\* An entry that starts has no children and no rows.
StartedEntry(a) ==
  /\ a \notin started /\ a \notin Entries /\ a \notin Active
  /\ started' = started \cup {a} /\ Entries' = Entries \cup {a} /\ Active' = Active \cup {a}
  /\ entries_'[a].StartTimestamp = entries_'[a].StopTimestamp
  /\ entries_'[a].StartTimestamp \in Nat
  /\ \A c \in Activities \ {a} : Parents(entries_', c) = Parents(entries_, c)
  /\ a \notin Parents(entries_', a)
  /\ \A x \in Entries :
       /\ entries_'[x].StartTimestamp = entries_[x].StartTimestamp
       /\ entries_'[x].StopTimestamp = entries_[x].StopTimestamp
       /\ x \notin Active => ChildrenOf(entries_', x) = ChildrenOf(entries_, x)

LEMMA StartedRows ==
  ASSUME HierarchyInv, SpanInv, RankInv, DataInv, PackedInv,
         NEW a \in Activities, StartedEntry(a), UNCHANGED localOffsetsData_
  PROVE  SpanInv' /\ RankInv' /\ DataInv' /\ PackedInv'
<1>1. SpanInv'
  BY DEF SpanInv, StartedEntry
<1>2. RankInv'
  <2>0. PICK n \in Nat : \E rank \in [Activities -> 0 .. n] :
          \A c \in Activities : \A p \in Parents(entries_, c) : rank[p] < rank[c]
    BY DEF RankInv
  <2>1. PICK rank \in [Activities -> 0 .. n] :
          \A c \in Activities : \A p \in Parents(entries_, c) : rank[p] < rank[c]
    BY <2>0
  <2> DEFINE r == [rank EXCEPT ![a] = n + 1]
  <2>2. /\ r \in [Activities -> 0 .. n + 1]
        /\ r[a] = n + 1 /\ \A x \in Activities \ {a} : r[x] = rank[x] /\ r[x] < n + 1
    <3>1. \A x \in Activities : rank[x] \in 0 .. n
      OBVIOUS
    <3> QED BY <3>1
  <2> HIDE DEF r
  <2>3. ASSUME NEW c \in Activities, NEW p \in Parents(entries_', c) PROVE r[p] < r[c]
    <3>1. p \in Activities
      BY DEF Parents
    <3>2. CASE c = a
      BY <3>1, <3>2, <2>2 DEF StartedEntry
    <3>3. CASE c # a
      <4>1. p \in Parents(entries_, c)
        BY <3>3 DEF StartedEntry
      <4>2. p # a
        BY <4>1, ChildFacts DEF StartedEntry
      <4> QED BY <3>1, <3>3, <4>1, <4>2, <2>1, <2>2
    <3> QED BY <3>2, <3>3
  <2>4. n + 1 \in Nat
    OBVIOUS
  <2> QED BY <2>2, <2>3, <2>4 DEF RankInv
<1>3. DataInv'
  BY ChildFacts DEF DataInv, DataTypeOK, StartedEntry
<1>4. /\ \A c, d \in Entries : OverlapsWith(entries_', c, d) <=> OverlapsWith(entries_, c, d)
      /\ \A p \in Entries : \A c \in ChildrenOf(entries_, p) : c \in Entries
      /\ \A p \in Entries \ Active : ChildrenOf(entries_', p) = ChildrenOf(entries_, p)
  BY ChildFacts DEF StartedEntry, OverlapsWith
<1>5. \A x : Row(x)' = Row(x) /\ Below(x)' = Below(x)
  BY DEF Row, Below
<1>6. ASSUME NEW p \in Entries \ Active, Packed(p) PROVE Packed(p)'
  BY <1>4, <1>5, <1>6 DEF Packed
<1>7. PackedInv'
  BY <1>6 DEF PackedInv, StartedEntry
<1> QED BY <1>1, <1>2, <1>3, <1>7

LEMMA StartRootRows ==
  ASSUME HierarchyInv, NEW a \in Activities, NEW k \in Kinds, NEW key \in Keys,
         StartRootEntry(a, k, key)
  PROVE  StartedEntry(a)
<1> DEFINE e == CreateEntry(k)
<1>1. /\ HierarchyTypeOK /\ TreeInv /\ Forest(entries_, roots_)
  BY DEF HierarchyInv, ForestInv
<1>2. Active' = Active \cup {a}
  BY <1>1, BeginRootInv DEF StartRootEntry
<1>3. /\ a \notin started /\ a \notin Active /\ a \notin Entries /\ entries_[a] = Null
      /\ started' = started \cup {a}
      /\ NewEntry(e) /\ e.StartTimestamp = clock /\ e.StopTimestamp = clock
  BY AnnounceFacts DEF StartRootEntry
<1>4. /\ entries_ \in Entrylike /\ roots_ \in Seq(Activities) /\ clock \in Nat
      /\ Entries \subseteq Activities
  BY <1>1, TypeFacts
<1> HIDE DEF e
<1>5. entries_' = WithRoot(entries_, a, e)
  BY DEF StartRootEntry, WithRoot, e
<1>6. \A c : Parents(entries_', c) = Parents(entries_, c)
  BY <1>1, <1>3, <1>4, <1>5, AddRootForest
<1>7. entries_'[a] = e /\ \A x \in Activities \ {a} : entries_'[x] = entries_[x]
  BY <1>4, <1>5 DEF Entrylike, WithRoot
<1>8. Entries' = Entries \cup {a}
  BY <1>3, <1>7, NoEntryAssumption DEF Entries, NewEntry
<1>9. Parents(entries_, a) = {}
  BY <1>3, <1>1 DEF Forest
<1> QED BY <1>2, <1>3, <1>4, <1>6, <1>7, <1>8, <1>9 DEF StartedEntry, ChildrenOf

LEMMA StartNestedRows ==
  ASSUME HierarchyInv, NEW a \in Activities, NEW p \in Activities, NEW k \in Kinds,
         NEW key \in Keys, StartNestedEntry(a, p, k, key)
  PROVE  StartedEntry(a)
<1> DEFINE e == CreateEntry(k)
<1>1. /\ HierarchyTypeOK /\ TreeInv /\ KeptInv /\ Forest(entries_, roots_)
  BY DEF HierarchyInv, ForestInv
<1>2. Active' = Active \cup {a} /\ p \in Active
  BY <1>1, BeginNestedInv DEF StartNestedEntry
<1>3. /\ a \notin started /\ a \notin Active /\ a \notin Entries /\ entries_[a] = Null
      /\ started' = started \cup {a}
      /\ NewEntry(e) /\ e.StartTimestamp = clock /\ e.StopTimestamp = clock
  BY AnnounceFacts DEF StartNestedEntry
<1>4. /\ entries_ \in Entrylike /\ roots_ \in Seq(Activities) /\ clock \in Nat
      /\ Entries \subseteq Activities
  BY <1>1, TypeFacts
<1>5. p \in Entries /\ entries_[p] # Null /\ p # a
  BY <1>1, <1>2, <1>3 DEF KeptInv, Entries
<1> HIDE DEF e
<1> DEFINE fs == WithChild(entries_, p, a, e)
<1>6. entries_' = fs
  BY DEF StartNestedEntry, WithChild, e
<1>7. /\ \A c : c # a => Parents(fs, c) = Parents(entries_, c)
      /\ Parents(fs, a) = {p}
      /\ fs[a] = e
      /\ fs[p].StartTimestamp = entries_[p].StartTimestamp
      /\ fs[p].StopTimestamp = entries_[p].StopTimestamp
      /\ \A x \in Activities \ {a, p} : fs[x] = entries_[x]
  BY <1>1, <1>3, <1>4, <1>5, AddChildForest
<1>8. fs[p] # Null
  BY <1>7 DEF Parents
<1> HIDE DEF fs
<1>9. e # Null
  BY <1>3, NoEntryAssumption DEF NewEntry
<1>10. Entries' = Entries \cup {a}
  BY <1>4, <1>5, <1>6, <1>7, <1>8, <1>9 DEF Entries
<1>11. \A x \in Entries : /\ entries_'[x].StartTimestamp = entries_[x].StartTimestamp
                          /\ entries_'[x].StopTimestamp = entries_[x].StopTimestamp
                          /\ x # p => entries_'[x] = entries_[x]
  BY <1>3, <1>4, <1>6, <1>7
<1> QED BY <1>2, <1>3, <1>4, <1>5, <1>6, <1>7, <1>10, <1>11 DEF StartedEntry, ChildrenOf

-----------------------------------------------------------------------------
(* An entry stops: its children get their rows. *)

\* The rows of the children, by entry instead of by place in the list.
LEMMA CalculateFacts ==
  ASSUME DataTypeOK, NEW es \in Entrylike, NEW a \in Activities, es[a] # Null,
         OneToOne(es[a].Children), a \notin ChildrenOf(es, a), ChildrenOf(es, a) \subseteq Measured
  PROVE  LET d == CalculateChildrenLocalThreadData(es, a)
             kids == ChildrenOf(es, a)
             row(c) == d[c].CalculatedLocalThreadId
             below(c) == d[c].RequiredThreadIdToFitHierarchy
         IN  /\ d \in [Activities -> LocalOffsetData \cup {Null}]
             /\ d[a] # Null
             /\ \A c \in Activities \ {a} :
                  /\ d[c] = Null <=> localOffsetsData_[c] = Null
                  /\ d[c] # Null =>
                       below(c) = localOffsetsData_[c].RequiredThreadIdToFitHierarchy
                  /\ c \notin kids => d[c] = localOffsetsData_[c]
             /\ \A c \in kids : row(c) + below(c) <= below(a)
             /\ IF kids = {} THEN below(a) = 0
                ELSE \E c \in kids : row(c) + below(c) = below(a)
             /\ \A c, e \in kids :
                  c # e /\ OverlapsWith(es, c, e) =>
                    row(c) + below(c) < row(e) \/ row(e) + below(e) < row(c)
<1> DEFINE d == CalculateChildrenLocalThreadData(es, a)
           s == es[a].Children
           raw == RawLocalThreadIds(es, a)
           ks == MeasuredChildren(es, a)
           kids == ChildrenOf(es, a)
           new(c, r) == [localOffsetsData_[c] EXCEPT
                           !.RawLocalThreadId = r,
                           !.CalculatedLocalThreadId = r + ExtraThreadIds(es, a, r)]
           own == [RawLocalThreadId |-> 0,
                   RequiredThreadIdToFitHierarchy |-> RequiredThreadIds(es, a),
                   CalculatedLocalThreadId |-> 0]
           row(c) == d[c].CalculatedLocalThreadId
           below(c) == d[c].RequiredThreadIdToFitHierarchy
<1>1. /\ s \in Seq(Activities) /\ kids = Elements(s) /\ kids \subseteq Activities
      /\ Len(s) \in Nat /\ DOMAIN s = 1 .. Len(s)
  BY EntryFacts DEF ChildrenOf
<1>2. /\ raw \in [1 .. Len(s) -> Nat]
      /\ \A i \in ks : Requires(es, a, i) \in Nat
  BY ChildrenTypes
<1>3. ks = DOMAIN s
  BY <1>1 DEF MeasuredChildren, Elements
<1>4. /\ RequiredThreadIds(es, a) \in Nat
      /\ \A i \in ks : /\ RowOf(es, a, i) \in Nat
                       /\ RowOf(es, a, i) + Requires(es, a, i) <= RequiredThreadIds(es, a)
      /\ IF ks = {} THEN RequiredThreadIds(es, a) = 0
         ELSE \E i \in ks : RowOf(es, a, i) + Requires(es, a, i) = RequiredThreadIds(es, a)
      /\ \A i, j \in ks :
           j < i /\ OverlapsWith(es, s[i], s[j]) =>
             \/ RowOf(es, a, i) + Requires(es, a, i) < RowOf(es, a, j)
             \/ RowOf(es, a, j) + Requires(es, a, j) < RowOf(es, a, i)
  BY ChildrenPacked
<1>5. /\ d = [c \in Activities |-> d[c]]
      /\ d[a] = own
      /\ \A c \in Activities : c # a /\ c \notin kids => d[c] = localOffsetsData_[c]
      /\ \A c \in kids : d[c] = new(c, raw[CHOOSE i \in DOMAIN s : s[i] = c])
  <2> DEFINE at(c) == raw[CHOOSE i \in DOMAIN s : s[i] = c]
             body(c) == IF c = a THEN own
                        ELSE IF c \in Elements(s) \cap Measured THEN new(c, at(c))
                        ELSE localOffsetsData_[c]
  <2>1. d = [c \in Activities |-> body(c)]
    BY DEF CalculateChildrenLocalThreadData
  <2>2. kids = Elements(s) \cap Measured /\ a \notin kids
    BY DEF ChildrenOf
  <2> HIDE DEF d, own, new, at, kids, s
  <2>3. \A c \in Activities : d[c] = body(c)
    BY <2>1
  <2>4. \A c \in kids : body(c) = new(c, at(c))
    BY <2>2
  <2> QED BY <2>1, <2>2, <2>3, <2>4, <1>1 DEF at
<1> HIDE DEF d
<1>6. \A i \in DOMAIN s : s[i] \in kids /\ d[s[i]] = new(s[i], raw[i])
  <2> TAKE i \in DOMAIN s
  <2>1. s[i] \in kids
    BY <1>1 DEF Elements
  <2>2. (CHOOSE j \in DOMAIN s : s[j] = s[i]) = i
    BY DEF OneToOne
  <2> HIDE DEF new, kids
  <2> QED BY <2>1, <2>2, <1>5
<1>7. \A i \in DOMAIN s : /\ d[s[i]] \in LocalOffsetData
                          /\ row(s[i]) = RowOf(es, a, i)
                          /\ below(s[i]) = Requires(es, a, i)
  <2> TAKE i \in DOMAIN s
  <2>1. localOffsetsData_[s[i]] \in LocalOffsetData
    BY <1>1, <1>6 DEF Measured, DataTypeOK
  <2>2. d[s[i]] = new(s[i], raw[i]) /\ raw[i] \in Nat
    BY <1>1, <1>2, <1>6
  <2>3. raw[i] + ExtraThreadIds(es, a, raw[i]) = RowOf(es, a, i) /\ RowOf(es, a, i) \in Nat
    BY <1>3, <1>4 DEF RowOf
  <2> HIDE DEF raw
  <2> QED BY <2>1, <2>2, <2>3 DEF LocalOffsetData, Requires
<1>8. \A c \in kids : \E i \in DOMAIN s : s[i] = c
  BY <1>1 DEF Elements
<1>9. own \in LocalOffsetData /\ own # Null /\ below(a) = RequiredThreadIds(es, a)
  <2>1. own \in LocalOffsetData
    BY <1>4 DEF LocalOffsetData
  <2>2. own.RequiredThreadIdToFitHierarchy = RequiredThreadIds(es, a)
    OBVIOUS
  <2> HIDE DEF own
  <2> QED BY <2>1, <2>2, <1>5, NoRowAssumption
<1> HIDE DEF own, new
<1>10. d \in [Activities -> LocalOffsetData \cup {Null}]
  <2>1. \A c \in Activities : d[c] \in LocalOffsetData \cup {Null}
    BY <1>1, <1>5, <1>7, <1>8, <1>9 DEF DataTypeOK
  <2> QED BY <2>1, <1>5
<1>11. \A c \in Activities \ {a} :
         /\ d[c] = Null <=> localOffsetsData_[c] = Null
         /\ d[c] # Null => below(c) = localOffsetsData_[c].RequiredThreadIdToFitHierarchy
         /\ c \notin kids => d[c] = localOffsetsData_[c]
  <2> TAKE c \in Activities \ {a}
  <2>1. CASE c \notin kids
    BY <2>1, <1>5
  <2>2. CASE c \in kids
    <3>1. localOffsetsData_[c] # Null
      BY <2>2 DEF Measured
    <3>2. PICK i \in DOMAIN s : s[i] = c
      BY <2>2, <1>8
    <3>3. d[c] # Null
      BY <3>2, <1>7, NoRowAssumption
    <3>4. below(c) = localOffsetsData_[c].RequiredThreadIdToFitHierarchy
      BY <3>2, <1>7 DEF Requires
    <3> QED BY <2>2, <3>1, <3>3, <3>4
  <2> QED BY <2>1, <2>2
<1> HIDE DEF row, below, kids
<1>12. \A c \in kids : row(c) + below(c) <= below(a)
  BY <1>3, <1>4, <1>7, <1>8, <1>9
<1>13. IF kids = {} THEN below(a) = 0
       ELSE \E c \in kids : row(c) + below(c) = below(a)
  <2>1. CASE kids = {}
    <3>1. ks = {}
      BY <2>1, <1>3, <1>6
    <3> QED BY <2>1, <3>1, <1>4, <1>9
  <2>2. CASE kids # {}
    <3>1. ks # {}
      BY <2>2, <1>3, <1>8
    <3>2. PICK i \in ks : RowOf(es, a, i) + Requires(es, a, i) = RequiredThreadIds(es, a)
      BY <3>1, <1>4
    <3> QED BY <2>2, <3>2, <1>3, <1>6, <1>7, <1>9
  <2> QED BY <2>1, <2>2
<1>14. ASSUME NEW c \in kids, NEW e \in kids, c # e, OverlapsWith(es, c, e)
       PROVE  row(c) + below(c) < row(e) \/ row(e) + below(e) < row(c)
  <2>1. PICK i \in DOMAIN s : s[i] = c
    BY <1>8
  <2>2. PICK j \in DOMAIN s : s[j] = e
    BY <1>8
  <2>3. i < j \/ j < i
    BY <1>1, <1>14, <2>1, <2>2
  <2>4. OverlapsWith(es, s[i], s[j]) /\ OverlapsWith(es, s[j], s[i])
    BY <1>14, <2>1, <2>2 DEF OverlapsWith
  <2> QED BY <2>1, <2>2, <2>3, <2>4, <1>3, <1>4, <1>7
<1> QED BY <1>5, <1>9, <1>10, <1>11, <1>12, <1>13, <1>14 DEF d, row, below, kids

\* An entry that is erased is not among the children of one that has stopped.
LEMMA StopChildren ==
  ASSUME HierarchyInv, NEW a \in Activities, StopEntry(a)
  PROVE  /\ a \in Active /\ a \in Entries /\ Active' = Active \ {a}
         /\ \A q \in Entries' \ Active' : ChildrenOf(entries_', q) = ChildrenOf(entries_, q)
         /\ a \in Entries' => \A c \in ChildrenOf(entries_', a) : c # a /\ c \notin Active
<1>1. /\ TreeInv /\ KeptInv /\ Forest(entries_, roots_)
  BY DEF HierarchyInv, ForestInv
<1>2. /\ Active' = Active \ {a} /\ a \in Active
      /\ \A b \in Active \ {a} : parent[b] # a
  BY <1>1, EndInv DEF StopEntry
<1>3. /\ a \in Entries
      /\ IF parent[a] = Null THEN a \in Elements(roots_) ELSE parent[a] \in Parents(entries_, a)
  BY <1>1, <1>2 DEF KeptInv
<1>4. parent[a] # Null => parent[a] \in Active \ {a}
  BY <1>1, <1>2 DEF TreeInv
<1>5. /\ entries_' \in Entrylike
      /\ Forest(entries_', roots_)
      /\ \A x \in Entries' : x \in Entries /\ Parents(entries_', x) = Parents(entries_, x)
      /\ \A c \in Entries \ Entries' : c # a => Parents(entries_, c) \cap Entries' = {}
  BY StopFacts
<1>6. \A q \in Parents(entries_, a) : q \in Active \ {a}
  <2> TAKE q \in Parents(entries_, a)
  <2>1. parent[a] # Null
    BY <1>1, <1>3 DEF Forest
  <2>2. q = parent[a]
    BY <2>1, <1>3, ChildFacts
  <2> QED BY <2>1, <2>2, <1>4
<1>7. ASSUME NEW q \in Entries' \ Active'
      PROVE  ChildrenOf(entries_', q) = ChildrenOf(entries_, q)
  <2>1. q \in Activities /\ entries_'[q] # Null /\ q \in Entries /\ entries_[q] # Null
    BY <1>5 DEF Entries
  <2>2. ASSUME NEW c \in ChildrenOf(entries_', q) PROVE c \in ChildrenOf(entries_, q)
    <3>1. c \in Activities
      BY <2>1, <1>5, EntryFacts
    <3>2. q \in Parents(entries_', c)
      BY <2>1 DEF Parents
    <3>3. c \in Entries'
      BY <3>1, <3>2, <1>5 DEF Forest, Entries
    <3>4. q \in Parents(entries_, c)
      BY <3>2, <3>3, <1>5
    <3> QED BY <3>4 DEF Parents
  <2>3. ASSUME NEW c \in ChildrenOf(entries_, q) PROVE c \in ChildrenOf(entries_', q)
    <3>1. c \in Entries /\ q \in Parents(entries_, c)
      BY <2>1, ChildFacts
    <3>2. c # a
      BY <3>1, <1>2, <1>6
    <3>3. c \in Entries'
      BY <3>1, <3>2, <1>5
    <3>4. q \in Parents(entries_', c)
      BY <3>1, <3>3, <1>5
    <3> QED BY <3>4 DEF Parents
  <2> QED BY <2>2, <2>3
<1>8. ASSUME a \in Entries', NEW c \in ChildrenOf(entries_', a) PROVE c # a /\ c \notin Active
  <2>1. a \in Entries' \ Active'
    BY <1>2, <1>8
  <2>2. c \in Entries /\ a \in Parents(entries_, c) /\ c \in ChildrenOf(entries_, a)
    BY <2>1, <1>3, <1>7, ChildFacts
  <2>3. c # a
    BY <2>2, <1>6
  <2>4. ASSUME c \in Active PROVE FALSE
    <3>1. IF parent[c] = Null THEN c \in Elements(roots_) ELSE parent[c] \in Parents(entries_, c)
      BY <2>4, <1>1 DEF KeptInv
    <3>2. parent[c] # Null
      BY <2>2, <3>1, <1>1 DEF Forest
    <3>3. c \in Activities
      BY <2>4 DEF Active
    <3>4. parent[c] = a
      BY <2>2, <3>1, <3>2, <3>3, ChildFacts
    <3> QED BY <2>3, <2>4, <3>4, <1>2
  <2> QED BY <2>3, <2>4
<1> QED BY <1>2, <1>3, <1>7, <1>8

LEMMA StopRows ==
  ASSUME HierarchyInv, SpanInv, RankInv, DataInv, PackedInv,
         NEW a \in Activities, StopActivity(a)
  PROVE  SpanInv' /\ RankInv' /\ DataInv' /\ PackedInv'
<1>1. /\ StopEntry(a) /\ started' = started
      /\ localOffsetsData_' = IF entries_'[a] = Null THEN localOffsetsData_
                              ELSE CalculateChildrenLocalThreadData(entries_', a)
  BY DEF StopActivity, StopEntry
<1>2. /\ entries_' \in Entrylike
      /\ Forest(entries_', roots_)
      /\ \A x \in Entries' :
           /\ x \in Entries
           /\ entries_'[x].StartTimestamp = entries_[x].StartTimestamp
           /\ entries_'[x].StopTimestamp = IF x = a THEN clock ELSE entries_[x].StopTimestamp
           /\ Parents(entries_', x) = Parents(entries_, x)
  BY <1>1, StopFacts
<1>3. /\ a \in Active /\ a \in Entries /\ Active' = Active \ {a}
      /\ \A q \in Entries' \ Active' : ChildrenOf(entries_', q) = ChildrenOf(entries_, q)
      /\ a \in Entries' => \A c \in ChildrenOf(entries_', a) : c # a /\ c \notin Active
  BY <1>1, StopChildren
<1>4. /\ \A p \in Entries : \A c \in ChildrenOf(entries_, p) :
           c \in Entries /\ p \in Parents(entries_, c) /\ (p \notin Active => c \notin Active)
      /\ \A c \in Activities : \A p, q \in Parents(entries_, c) : p = q
      /\ Entries \subseteq Activities /\ Active \subseteq Entries
  BY ChildFacts
<1>5. \A q \in Entries' \ Active' : \A c \in ChildrenOf(entries_', q) : c \in Entries'
  <2> TAKE q \in Entries' \ Active'
  <2> TAKE c \in ChildrenOf(entries_', q)
  <2>1. q \in Activities /\ entries_'[q] # Null /\ c \in Activities
    BY <1>2, EntryFacts DEF Entries
  <2>2. q \in Parents(entries_', c)
    BY <2>1 DEF Parents
  <2> QED BY <2>1, <2>2, <1>2 DEF Forest, Entries
<1>6. SpanInv'
  BY <1>2, <1>3 DEF SpanInv, HierarchyInv, TimesInv
<1>7. RankInv'
  <2>1. \A c \in Activities : Parents(entries_', c) \subseteq Parents(entries_, c)
    <3> TAKE c \in Activities
    <3>1. CASE Parents(entries_', c) = {}
      BY <3>1
    <3>2. CASE Parents(entries_', c) # {}
      <4>1. c \in Entries'
        BY <3>2, <1>2 DEF Forest, Entries
      <4> QED BY <4>1, <1>2
    <3> QED BY <3>1, <3>2
  <2> QED BY <2>1 DEF RankInv
<1>8. CASE a \notin Entries'
  <2>1. localOffsetsData_' = localOffsetsData_
    BY <1>1, <1>8 DEF Entries
  <2>2. DataInv'
    BY <2>1, <1>1, <1>2, <1>3, <1>8 DEF DataInv, DataTypeOK
  <2>3. ASSUME NEW q \in Entries' \ Active' PROVE Packed(q)'
    <3>1. q \in Entries \ Active /\ q # a
      BY <1>2, <1>3, <1>8
    <3>2. Packed(q)
      BY <3>1 DEF PackedInv
    <3>3. ChildrenOf(entries_', q) = ChildrenOf(entries_, q)
      BY <1>3
    <3>4. \A c, d \in ChildrenOf(entries_, q) :
            OverlapsWith(entries_', c, d) <=> OverlapsWith(entries_, c, d)
      BY <3>3, <1>2, <1>5, <1>8 DEF OverlapsWith
    <3>5. \A x : Row(x)' = Row(x) /\ Below(x)' = Below(x)
      BY <2>1 DEF Row, Below
    <3> QED BY <3>2, <3>3, <3>4, <3>5 DEF Packed
  <2>4. PackedInv'
    BY <2>3 DEF PackedInv
  <2> QED BY <2>2, <2>4, <1>6, <1>7
<1>9. CASE a \in Entries'
  <2> DEFINE d == CalculateChildrenLocalThreadData(entries_', a)
             es == entries_'
             kids == ChildrenOf(es, a)
             row(c) == d[c].CalculatedLocalThreadId
             below(c) == d[c].RequiredThreadIdToFitHierarchy
  <2>1. localOffsetsData_' = d /\ entries_'[a] # Null
    BY <1>1, <1>9 DEF Entries
  <2>2. kids \subseteq Measured
    <3>1. \A c \in kids : c \in Entries /\ c \notin Active
      BY <1>2, <1>3, <1>5, <1>9
    <3> QED BY <3>1, <1>4 DEF DataInv, Measured
  <2>3. OneToOne(entries_'[a].Children) /\ a \notin kids /\ DataTypeOK
    BY <2>1, <1>2, <1>3, <1>9 DEF Forest, DataInv
  <2>4. /\ d \in [Activities -> LocalOffsetData \cup {Null}]
        /\ d[a] # Null
        /\ \A c \in Activities \ {a} :
             /\ d[c] = Null <=> localOffsetsData_[c] = Null
             /\ d[c] # Null => below(c) = localOffsetsData_[c].RequiredThreadIdToFitHierarchy
             /\ c \notin kids => d[c] = localOffsetsData_[c]
        /\ \A c \in kids : row(c) + below(c) <= below(a)
        /\ IF kids = {} THEN below(a) = 0
           ELSE \E c \in kids : row(c) + below(c) = below(a)
        /\ \A c, e \in kids :
             c # e /\ OverlapsWith(es, c, e) =>
               row(c) + below(c) < row(e) \/ row(e) + below(e) < row(c)
    BY <2>1, <2>2, <2>3, <1>2, CalculateFacts
  <2> HIDE DEF d
  <2>5. DataInv'
    <3>1. ASSUME NEW x \in Entries' PROVE d[x] = Null <=> x \in Active'
      <4>1. CASE x = a
        BY <4>1, <2>4, <1>3
      <4>2. CASE x # a
        BY <4>2, <2>4, <1>2, <1>3, <1>4 DEF DataInv
      <4> QED BY <4>1, <4>2
    <3>2. ASSUME NEW x \in Activities \ started' PROVE d[x] = Null
      <4>1. x \notin Entries
        BY <3>2, <1>1 DEF HierarchyInv, IdsInv
      <4> QED BY <3>2, <4>1, <2>4, <1>1, <1>3 DEF DataInv
    <3> QED BY <3>1, <3>2, <2>1, <2>4 DEF DataInv, DataTypeOK
  <2>6. Packed(a)'
    BY <2>1, <2>4 DEF Packed, Row, Below
  <2>7. ASSUME NEW q \in Entries' \ Active', q # a PROVE Packed(q)'
    <3>1. q \in Entries \ Active
      BY <2>7, <1>2, <1>3
    <3>2. Packed(q)
      BY <3>1 DEF PackedInv
    <3>3. ChildrenOf(es, q) = ChildrenOf(entries_, q)
      BY <2>7, <1>3
    <3>4. \A c \in ChildrenOf(entries_, q) :
            c \in Entries' /\ c \in Activities /\ c # a /\ c \notin kids
      <4> TAKE c \in ChildrenOf(entries_, q)
      <4>1. c \in Entries /\ c \in Activities /\ c \notin Active /\ q \in Parents(entries_, c)
        BY <3>1, <1>4
      <4>2. c \in Entries'
        BY <3>3, <2>7, <1>5
      <4>3. c # a
        BY <4>1, <1>3
      <4>4. ASSUME c \in kids PROVE FALSE
        <5>1. c \in ChildrenOf(entries_, a)
          BY <4>4, <1>3, <1>9
        <5>2. a \in Parents(entries_, c)
          BY <5>1, <1>3, <1>4
        <5> QED BY <5>2, <4>1, <2>7, <1>4
      <4> QED BY <4>1, <4>2, <4>3, <4>4
    <3>5. \A c \in ChildrenOf(entries_, q) : d[c] = localOffsetsData_[c]
      BY <3>4, <2>4
    <3>6. d[q].RequiredThreadIdToFitHierarchy = Below(q)
      <4>1. q \in Activities /\ localOffsetsData_[q] # Null
        BY <3>1, <1>4 DEF DataInv
      <4> QED BY <4>1, <2>4, <2>7 DEF Below
    <3>7. \A c, e \in ChildrenOf(entries_, q) :
            OverlapsWith(es, c, e) <=> OverlapsWith(entries_, c, e)
      BY <3>4, <1>2 DEF OverlapsWith
    <3>8. /\ \A c \in ChildrenOf(entries_, q) : Row(c)' = Row(c) /\ Below(c)' = Below(c)
          /\ Below(q)' = Below(q)
      BY <3>5, <3>6, <2>1 DEF Row, Below
    <3> QED BY <3>2, <3>3, <3>7, <3>8 DEF Packed
  <2>8. PackedInv'
    BY <2>6, <2>7 DEF PackedInv
  <2> QED BY <2>5, <2>8, <1>6, <1>7
<1> QED BY <1>8, <1>9

-----------------------------------------------------------------------------
(* Every step. *)

LEMMA NamedRows ==
  ASSUME HierarchyInv, NEW key \in SymbolKeys, OnSymbolName(key)
  PROVE  SameEntries
<1>1. /\ HierarchyTypeOK /\ Forest(entries_, roots_)
  BY DEF HierarchyInv, ForestInv
<1>2. entries_ \in Entrylike /\ Entries \subseteq Activities
  BY <1>1, TypeFacts
<1>3. /\ treeVars' = treeVars /\ started' = started
      /\ \A a \in Activities : entries_'[a] =
           IF a \in Subscribers(key) THEN [entries_[a] EXCEPT !.Name = key] ELSE entries_[a]
  BY DEF OnSymbolName, traceVars
<1>4. ASSUME NEW a \in Entries
      PROVE  /\ entries_'[a] # Null
             /\ entries_'[a].Children = entries_[a].Children
             /\ entries_'[a].StartTimestamp = entries_[a].StartTimestamp
             /\ entries_'[a].StopTimestamp = entries_[a].StopTimestamp
  <2>1. entries_[a] \in Entry
    BY <1>2, EntryFacts DEF Entries
  <2>2. [entries_[a] EXCEPT !.Name = key] \in Entry
    BY <2>1 DEF Entry
  <2>3. entries_'[a] \in {entries_[a], [entries_[a] EXCEPT !.Name = key]}
    BY <1>2, <1>3
  <2> QED BY <2>1, <2>2, <2>3, NoEntryAssumption DEF Entry
<1>5. \A a \in Activities \ Entries : entries_'[a] = Null
  BY <1>3 DEF Subscribers, Entries
<1>6. Entries' = Entries
  BY <1>4, <1>5 DEF Entries
<1>7. \A c : Parents(entries_', c) = Parents(entries_, c)
  BY <1>4, <1>5 DEF Parents, ChildrenOf, Entries
<1>8. Active' = Active
  BY <1>3 DEF treeVars, Active
<1> QED BY <1>3, <1>4, <1>6, <1>7, <1>8 DEF SameEntries

LEMMA UnchangedEntries ==
  ASSUME UNCHANGED <<treeVars, started, entries_>>
  PROVE  SameEntries
  BY DEF SameEntries, treeVars, Active, Entries, Parents, ChildrenOf

LEMMA RowsStepInv == RowsInv /\ [Next]_vars => RowsInv'
<1> SUFFICES ASSUME RowsInv, [Next]_vars PROVE RowsInv'
  OBVIOUS
<1>1. /\ HierarchyInv /\ SpanInv /\ RankInv /\ DataInv /\ PackedInv /\ OutputInv
      /\ HierarchyInv'
  BY StepInv DEF RowsInv
<1>2. Running => OutputInv'
  BY <1>1 DEF Running, OutputInv
<1>3. ASSUME NEW a \in Activities, NEW k \in Kinds, NEW key \in Keys, StartRoot(a, k, key)
      PROVE  RowsInv'
  BY <1>1, <1>2, <1>3, StartRootRows, StartedRows DEF StartRoot, RowsInv
<1>4. ASSUME NEW a \in Activities, NEW p \in Activities, NEW k \in Kinds, NEW key \in Keys,
             StartNested(a, p, k, key)
      PROVE  RowsInv'
  BY <1>1, <1>2, <1>4, StartNestedRows, StartedRows DEF StartNested, RowsInv
<1>5. ASSUME NEW a \in Activities, StopActivity(a) PROVE RowsInv'
  <2>1. SpanInv' /\ RankInv' /\ DataInv' /\ PackedInv'
    BY <1>1, <1>5, StopRows
  <2> QED BY <2>1, <1>1, <1>2, <1>5 DEF StopActivity, RowsInv
<1>6. ASSUME NEW key \in SymbolKeys, SymbolName(key) PROVE RowsInv'
  BY <1>1, <1>2, <1>6, NamedRows, SameRows DEF SymbolName, RowsInv
<1>7. CASE TimePasses
  <2>1. SameEntries
    BY <1>7, UnchangedEntries DEF TimePasses, Tick
  <2> QED BY <2>1, <1>1, <1>2, <1>7, SameRows DEF TimePasses, RowsInv
<1>8. CASE OnEndAnalysis
  <2>1. /\ analysis = "running" /\ Active = {} /\ remappings_' = Calculate
        /\ UNCHANGED <<hierarchyVars, localOffsetsData_>>
        /\ \/ analysis' = "exported"
           \/ analysis' = "failed" /\ UNCHANGED traceEvents
    BY <1>8 DEF OnEndAnalysis
  <2>2. UNCHANGED <<treeVars, started, entries_, roots_, localOffsetsData_>>
    BY <2>1 DEF hierarchyVars, traceVars
  <2>3. SpanInv' /\ RankInv' /\ DataInv' /\ PackedInv' /\ Active' = {}
    <3>1. SameEntries
      BY <2>2, UnchangedEntries
    <3> QED BY <2>1, <3>1, <1>1, SameRows DEF SameEntries
  <2>4. Calculate' = Calculate /\ Reached' = Reached
    BY <2>2 DEF Calculate, Reached, ParentEntry, Entries
  <2>5. \A a : AddEntry(a) = Written(a)'
    BY <2>2 DEF AddEntry, Written
  <2>6. /\ analysis' = "exported" => traceEvents' = [a \in Activities |->
             IF a \in Reached THEN Written(a)' ELSE Null]
        /\ analysis' = "failed" => traceEvents' = [a \in Activities |-> Null]
    <3>1. CASE analysis' = "exported"
      <4>1. traceEvents' = [a \in Activities |-> IF a \in Reached THEN AddEntry(a) ELSE Null]
        BY <3>1, <1>8 DEF OnEndAnalysis
      <4> QED BY <3>1, <4>1, <2>5
    <3>2. CASE analysis' = "failed"
      BY <3>2, <2>1, <1>1 DEF OutputInv
    <3> QED BY <2>1, <3>1, <3>2
  <2>7. OutputInv'
    BY <2>1, <2>3, <2>4, <2>6 DEF OutputInv
  <2> QED BY <1>1, <2>3, <2>7 DEF RowsInv
<1>9. CASE UNCHANGED vars
  <2>1. UNCHANGED <<treeVars, started, entries_, roots_, localOffsetsData_,
                    remappings_, traceEvents, analysis>>
    BY <1>9 DEF vars, hierarchyVars, traceVars
  <2>2. SameEntries
    BY <2>1, UnchangedEntries
  <2>3. Calculate' = Calculate /\ Reached' = Reached /\ \A a : Written(a)' = Written(a)
    BY <2>1 DEF Calculate, Reached, ParentEntry, Entries, Written
  <2>4. OutputInv'
    BY <2>1, <2>2, <2>3, <1>1 DEF OutputInv, SameEntries
  <2> QED BY <2>1, <2>2, <2>4, <1>1, SameRows DEF RowsInv
<1> QED BY <1>3, <1>4, <1>5, <1>6, <1>7, <1>8, <1>9 DEF Next

\* The inductive invariant holds in every trace.
THEOREM RowsInvariance == Spec => []RowsInv
<1> QED BY RowsInitInv, RowsStepInv, PTL DEF Spec

-----------------------------------------------------------------------------
(* Reasoning along the forest. *)

\* What holds for an entry when it holds for its parent, holds for all entries.
LEMMA TopDown ==
  ASSUME HierarchyInv, RankInv, NEW S,
         \A c \in Entries : Parents(entries_, c) \subseteq S => c \in S
  PROVE  Entries \subseteq S
<1>1. PICK n \in Nat : \E rank \in [Activities -> 0 .. n] :
        \A c \in Activities : \A p \in Parents(entries_, c) : rank[p] < rank[c]
  BY DEF RankInv
<1>2. PICK rank \in [Activities -> 0 .. n] :
        \A c \in Activities : \A p \in Parents(entries_, c) : rank[p] < rank[c]
  BY <1>1
<1> SUFFICES ASSUME Entries \ S # {} PROVE FALSE
  OBVIOUS
<1> DEFINE R == {rank[c] : c \in Entries \ S}
<1>3. Entries \subseteq Activities
  BY DEF Entries
<1>4. R \in SUBSET Nat /\ R # {}
  BY <1>3
<1>5. PICK m \in R : \A r \in R : m <= r
  BY <1>4, LeastElement
<1>6. PICK c \in Entries \ S : rank[c] = m
  BY <1>5
<1>7. ASSUME NEW p \in Parents(entries_, c) PROVE p \in S
  <2>1. p \in Entries /\ rank[p] < rank[c]
    BY <1>2, <1>3, <1>6, ChildFacts
  <2>2. rank[p] \in Nat /\ rank[c] \in Nat
    BY <2>1, <1>3, <1>6
  <2>3. ASSUME p \notin S PROVE FALSE
    <3>1. m <= rank[p]
      BY <2>1, <2>3, <1>5
    <3> QED BY <3>1, <2>1, <2>2, <1>6
  <2> QED BY <2>3
<1> QED BY <1>6, <1>7

\* And so does what holds for an entry when it holds for its children.
LEMMA BottomUp ==
  ASSUME HierarchyInv, RankInv, NEW S,
         \A p \in Entries : ChildrenOf(entries_, p) \subseteq S => p \in S
  PROVE  Entries \subseteq S
<1>1. PICK n \in Nat : \E rank \in [Activities -> 0 .. n] :
        \A c \in Activities : \A p \in Parents(entries_, c) : rank[p] < rank[c]
  BY DEF RankInv
<1>2. PICK rank \in [Activities -> 0 .. n] :
        \A c \in Activities : \A p \in Parents(entries_, c) : rank[p] < rank[c]
  BY <1>1
<1> SUFFICES ASSUME Entries \ S # {} PROVE FALSE
  OBVIOUS
<1> DEFINE R == {n - rank[c] : c \in Entries \ S}
<1>3. Entries \subseteq Activities
  BY DEF Entries
<1>4. R \in SUBSET Nat /\ R # {}
  <2>1. \A c \in Entries : rank[c] \in 0 .. n
    BY <1>3
  <2>2. \A c \in Entries : n - rank[c] \in Nat
    BY <2>1
  <2> QED BY <2>2
<1>5. PICK m \in R : \A r \in R : m <= r
  BY <1>4, LeastElement
<1>6. PICK p \in Entries \ S : n - rank[p] = m
  BY <1>5
<1>7. ASSUME NEW c \in ChildrenOf(entries_, p) PROVE c \in S
  <2>1. c \in Entries /\ p \in Parents(entries_, c)
    BY ChildFacts
  <2>2. rank[p] < rank[c]
    BY <2>1, <1>2, <1>3
  <2>3. rank[p] \in 0 .. n /\ rank[c] \in 0 .. n
    BY <2>1, <1>3, <1>6
  <2>4. ASSUME c \notin S PROVE FALSE
    <3>1. m <= n - rank[c]
      BY <2>1, <2>4, <1>5
    <3> QED BY <3>1, <2>2, <2>3, <1>6
  <2> QED BY <2>4
<1> QED BY <1>6, <1>7

\* A subtree is the smallest set with its entry that has an entry's children
\* with the entry.
LEMMA SubtreeClosed ==
  ASSUME HierarchyInv, NEW a \in Entries
  PROVE  /\ a \in Subtree(entries_, a)
         /\ Subtree(entries_, a) \subseteq Entries
         /\ \A y \in Subtree(entries_, a) : ChildrenOf(entries_, y) \subseteq Subtree(entries_, a)
         /\ \A S : a \in S /\ (\A y \in S \cap Entries : ChildrenOf(entries_, y) \subseteq S)
              => Subtree(entries_, a) \subseteq S
<1> DEFINE Sub == Subtree(entries_, a)
<1>1. /\ Forest(entries_, roots_) /\ entries_ \in Entrylike /\ a \in Activities
      /\ Entries \subseteq Activities
  BY TypeFacts DEF HierarchyInv, ForestInv, Entries
<1>2. /\ a \in Sub /\ Sub \subseteq Activities
      /\ \A c \in Activities \ {a} : \A p \in Parents(entries_, c) : p \in Sub <=> c \in Sub
      /\ \A c \in Activities \ {a} : Parents(entries_, c) = {} => c \notin Sub
  BY <1>1, SubtreeFacts
<1>3. Sub \subseteq Entries
  BY <1>1, <1>2 DEF Forest, Entries
<1>4. ASSUME NEW y \in Sub, NEW c \in ChildrenOf(entries_, y) PROVE c \in Sub
  <2>1. c \in Entries /\ y \in Parents(entries_, c)
    BY <1>3, ChildFacts
  <2> QED BY <2>1, <1>1, <1>2
<1>5. ASSUME NEW S, a \in S, \A y \in S \cap Entries : ChildrenOf(entries_, y) \subseteq S
      PROVE  Sub \subseteq S
  <2> DEFINE T == S \cap Entries
  <2>1. T \in SUBSET Activities /\ a \in T
    BY <1>1, <1>5
  <2>2. \A y \in T : entries_[y] # Null => ChildrenOf(entries_, y) \subseteq T
    BY <1>5, ChildFacts
  <2> HIDE DEF T
  <2>3. Sub \subseteq T
    BY <2>1, <2>2 DEF Subtree
  <2> QED BY <2>3 DEF T
<1> QED BY <1>2, <1>3, <1>4, <1>5

LEMMA SubtreeChildren ==
  ASSUME HierarchyInv, NEW a \in Entries
  PROVE  /\ \A c \in Subtree(entries_, a) : Subtree(entries_, c) \subseteq Subtree(entries_, a)
         /\ \A x \in Subtree(entries_, a) \ {a} :
              \E c \in ChildrenOf(entries_, a) : x \in Subtree(entries_, c)
<1> DEFINE Sub(x) == Subtree(entries_, x)
           S == {a} \cup UNION {Sub(c) : c \in ChildrenOf(entries_, a)}
<1>1. ASSUME NEW c \in Sub(a) PROVE Sub(c) \subseteq Sub(a)
  <2>1. c \in Entries
    BY SubtreeClosed
  <2>2. \A y \in Sub(a) \cap Entries : ChildrenOf(entries_, y) \subseteq Sub(a)
    BY SubtreeClosed
  <2> HIDE DEF Sub
  <2> QED BY <2>1, <2>2, SubtreeClosed DEF Sub
<1>2. ASSUME NEW y \in S PROVE ChildrenOf(entries_, y) \subseteq S
  <2>1. \A c \in ChildrenOf(entries_, a) : c \in Entries /\ c \in Sub(c)
    BY ChildFacts, SubtreeClosed
  <2>2. CASE y = a
    BY <2>1, <2>2
  <2>3. CASE y # a
    <3>1. PICK c \in ChildrenOf(entries_, a) : y \in Sub(c)
      BY <2>3
    <3>2. ChildrenOf(entries_, y) \subseteq Sub(c)
      BY <2>1, <3>1, SubtreeClosed
    <3> QED BY <3>2
  <2> QED BY <2>2, <2>3
<1>3. a \in S
  OBVIOUS
<1> HIDE DEF S
<1>4. Sub(a) \subseteq S
  BY <1>2, <1>3, SubtreeClosed
<1> QED BY <1>1, <1>4 DEF S

\* Every entry is below a root: all of them are written.
LEMMA ReachedFacts ==
  ASSUME HierarchyInv, RankInv
  PROVE  Reached = Entries /\ Elements(roots_) \subseteq Entries
<1>1. Forest(entries_, roots_) /\ Elements(roots_) \subseteq Activities
  BY TypeFacts DEF HierarchyInv, ForestInv
<1>2. Elements(roots_) \subseteq Entries
  BY <1>1 DEF Forest, Entries
<1>3. Reached \subseteq Entries
  BY <1>2, SubtreeClosed DEF Reached
<1>4. ASSUME NEW c \in Entries, Parents(entries_, c) \subseteq Reached PROVE c \in Reached
  <2>1. CASE c \in Elements(roots_)
    BY <2>1, <1>2, SubtreeClosed DEF Reached
  <2>2. CASE c \notin Elements(roots_)
    <3>1. PICK p \in Parents(entries_, c) : TRUE
      BY <2>2, <1>1 DEF Forest, Entries
    <3>2. PICK r \in Elements(roots_) : p \in Subtree(entries_, r)
      BY <1>4, <3>1 DEF Reached
    <3>3. c \in ChildrenOf(entries_, p)
      BY <3>1, ChildFacts
    <3>4. c \in Subtree(entries_, r)
      BY <3>2, <3>3, <1>2, SubtreeClosed
    <3> QED BY <3>4 DEF Reached
  <2> QED BY <2>1, <2>2
<1>5. Entries \subseteq Reached
  BY <1>4, TopDown
<1> QED BY <1>2, <1>3, <1>5

-----------------------------------------------------------------------------
(* Calculate: the rows of all entries. *)

LEMMA ParentEntryFacts ==
  ASSUME HierarchyInv, NEW c \in Entries, c \notin Elements(roots_)
  PROVE  Parents(entries_, c) = {ParentEntry(c)}
<1>1. Forest(entries_, roots_)
  BY DEF HierarchyInv, ForestInv
<1>2. PICK p \in Parents(entries_, c) : TRUE
  BY <1>1 DEF Forest, Entries
<1>3. p \in Entries /\ c \in ChildrenOf(entries_, p)
  BY ChildFacts DEF Entries
<1>4. ParentEntry(c) \in Entries /\ c \in ChildrenOf(entries_, ParentEntry(c))
  BY <1>3 DEF ParentEntry
<1>5. ParentEntry(c) \in Parents(entries_, c)
  BY <1>4, ChildFacts
<1> QED BY <1>5, ChildFacts

Process(r) ==
  FirstFit(entries_, roots_, Activities)[CHOOSE i \in DOMAIN roots_ : roots_[i] = r]

\* What Calculate gives an entry, from what the map m gives its parent.
RemapOf(m, a) ==
  IF a \in Elements(roots_) THEN [ProcessId |-> Process(a), ThreadId |-> 0]
  ELSE IF a \notin Reached \/ localOffsetsData_[a] = Null THEN Null
  ELSE IF m[ParentEntry(a)] = Null THEN Null
  ELSE [m[ParentEntry(a)] EXCEPT !.ThreadId = @ + localOffsetsData_[a].CalculatedLocalThreadId]

\* Calculate is well defined: an entry's row depends on its parent's only.
LEMMA CalculateValue ==
  ASSUME HierarchyInv, RankInv
  PROVE  Calculate = [a \in Activities |-> RemapOf(Calculate, a)]
<1>1. PICK n \in Nat : \E rank \in [Activities -> 0 .. n] :
        \A c \in Activities : \A p \in Parents(entries_, c) : rank[p] < rank[c]
  BY DEF RankInv
<1>2. PICK rank \in [Activities -> 0 .. n] :
        \A c \in Activities : \A p \in Parents(entries_, c) : rank[p] < rank[c]
  BY <1>1
<1> DEFINE Layer(k) == {a \in Activities : rank[a] < k}
           S == {k \in Nat : \E m : \A a \in Layer(k) : m[a] = RemapOf(m, a)}
<1>3. 0 \in S
  <2>1. Layer(0) = {}
    BY <1>2
  <2> QED BY <2>1
<1>4. ASSUME NEW k \in S PROVE k + 1 \in S
  <2>1. PICK m : \A a \in Layer(k) : m[a] = RemapOf(m, a)
    OBVIOUS
  <2> DEFINE t == [a \in Activities |-> RemapOf(m, a)]
  <2>2. \A a \in Activities : t[a] = RemapOf(m, a)
    OBVIOUS
  <2>3. \A a \in Layer(k) : t[a] = m[a]
    BY <2>1, <2>2
  <2> HIDE DEF t
  <2>4. ASSUME NEW a \in Layer(k + 1) PROVE RemapOf(m, a) = RemapOf(t, a)
    <3>1. CASE a \in Elements(roots_) \/ a \notin Reached
      BY <3>1 DEF RemapOf
    <3>2. CASE a \notin Elements(roots_) /\ a \in Reached
      <4>1. a \in Entries
        BY <3>2, ReachedFacts
      <4>2. ParentEntry(a) \in Parents(entries_, a)
        BY <3>2, <4>1, ParentEntryFacts
      <4>3. ParentEntry(a) \in Activities /\ rank[ParentEntry(a)] < rank[a]
        BY <4>2, <1>2 DEF Parents
      <4>4. rank[ParentEntry(a)] \in Nat /\ rank[a] \in Nat /\ rank[a] < k + 1
        BY <4>3, <1>2
      <4>5. ParentEntry(a) \in Layer(k)
        BY <4>3, <4>4
      <4>6. t[ParentEntry(a)] = m[ParentEntry(a)]
        BY <4>5, <2>3
      <4> QED BY <4>6 DEF RemapOf
    <3> QED BY <3>1, <3>2
  <2>5. \A a \in Layer(k + 1) : t[a] = RemapOf(t, a)
    BY <2>2, <2>4
  <2>6. k + 1 \in Nat
    OBVIOUS
  <2> QED BY <2>5, <2>6
<1>5. n + 1 \in S
  <2> HIDE DEF S
  <2>1. S \in SUBSET Nat
    BY DEF S
  <2>2. S = Nat
    BY <1>3, <1>4, <2>1, Induction
  <2> QED BY <2>2
<1>6. PICK m : \A a \in Layer(n + 1) : m[a] = RemapOf(m, a)
  BY <1>5
<1>7. \A a \in Activities : m[a] = RemapOf(m, a)
  <2>1. \A a \in Activities : rank[a] \in 0 .. n
    BY <1>2
  <2>2. \A a \in Activities : a \in Layer(n + 1)
    BY <2>1
  <2> QED BY <2>2, <1>6
<1> DEFINE Fix(f) == f = [a \in Activities |-> RemapOf(f, a)]
<1>8. Fix([a \in Activities |-> m[a]])
  <2> DEFINE f == [a \in Activities |-> m[a]]
  <2>1. \A a \in Activities : f[a] = m[a]
    OBVIOUS
  <2>2. f = [a \in Activities |-> f[a]]
    OBVIOUS
  <2> HIDE DEF f
  <2>3. ASSUME NEW a \in Activities PROVE RemapOf(m, a) = RemapOf(f, a)
    <3>1. CASE a \in Elements(roots_) \/ a \notin Reached
      BY <3>1 DEF RemapOf
    <3>2. CASE a \notin Elements(roots_) /\ a \in Reached
      <4>1. ParentEntry(a) \in Parents(entries_, a)
        BY <3>2, ReachedFacts, ParentEntryFacts
      <4>2. f[ParentEntry(a)] = m[ParentEntry(a)]
        BY <4>1, <2>1 DEF Parents
      <4> QED BY <4>2 DEF RemapOf
    <3> QED BY <3>1, <3>2
  <2>4. \A a \in Activities : f[a] = RemapOf(f, a)
    BY <2>1, <2>3, <1>7
  <2>5. Fix(f)
    BY <2>2, <2>4
  <2> QED BY <2>5 DEF f
<1>9. Calculate = CHOOSE f : Fix(f)
  BY DEF Calculate, RemapOf, Process
<1>10. Fix(Calculate)
  <2> HIDE DEF Fix
  <2> QED BY <1>8, <1>9
<1> QED BY <1>10

\* Roots are processes of their own, everything else is in the process of its
\* parent and at its distance from it.
LEMMA RemapFacts ==
  ASSUME HierarchyInv, RankInv, DataInv, Active = {}
  PROVE  /\ Calculate \in [Activities -> Remap \cup {Null}]
         /\ \A a \in Entries : Calculate[a] \in Remap
         /\ \A i \in DOMAIN roots_ :
              /\ Calculate[roots_[i]].ProcessId = FirstFit(entries_, roots_, Activities)[i]
              /\ Calculate[roots_[i]].ThreadId = 0
         /\ \A p \in Entries : \A c \in ChildrenOf(entries_, p) :
              /\ Calculate[c].ProcessId = Calculate[p].ProcessId
              /\ Calculate[c].ThreadId = Calculate[p].ThreadId + Row(c)
         /\ \A a \in Activities \ Entries : Calculate[a] = Null
<1> DEFINE m == Calculate
           process == FirstFit(entries_, roots_, Activities)
<1>1. /\ Forest(entries_, roots_) /\ roots_ \in Seq(Activities)
      /\ Entries \subseteq Activities
  BY TypeFacts DEF HierarchyInv, ForestInv
<1>2. m = [a \in Activities |-> RemapOf(m, a)]
  BY CalculateValue
<1>3. Reached = Entries /\ Elements(roots_) \subseteq Entries
  BY ReachedFacts
<1> HIDE DEF m
<1>4. /\ Len(roots_) \in Nat /\ DOMAIN roots_ = 1 .. Len(roots_)
      /\ \A i \in DOMAIN roots_ : roots_[i] \in Activities /\ roots_[i] \in Elements(roots_)
  BY <1>1 DEF Elements
<1>5. process \in [1 .. Len(roots_) -> Nat]
  BY <1>4, FirstFitFacts
<1>6. \A i \in DOMAIN roots_ : Process(roots_[i]) = process[i]
  <2> TAKE i \in DOMAIN roots_
  <2>1. (CHOOSE j \in DOMAIN roots_ : roots_[j] = roots_[i]) = i
    BY <1>1 DEF Forest, OneToOne
  <2> QED BY <2>1 DEF Process
<1> HIDE DEF process
<1>7. \A i \in DOMAIN roots_ : m[roots_[i]] = [ProcessId |-> process[i], ThreadId |-> 0]
  BY <1>2, <1>4, <1>6 DEF RemapOf
<1>8. \A r \in Elements(roots_) : m[r] \in Remap
  <2> TAKE r \in Elements(roots_)
  <2>1. PICK i \in DOMAIN roots_ : roots_[i] = r
    BY DEF Elements
  <2>2. process[i] \in Nat
    BY <1>4, <1>5
  <2>3. m[r] = [ProcessId |-> process[i], ThreadId |-> 0]
    BY <2>1, <1>7
  <2> QED BY <2>2, <2>3 DEF Remap
<1>9. \A c \in Entries : localOffsetsData_[c] \in LocalOffsetData /\ Row(c) \in Nat
  <2> TAKE c \in Entries
  <2>1. localOffsetsData_[c] \in LocalOffsetData
    BY <1>1 DEF DataInv, DataTypeOK
  <2> QED BY <2>1 DEF LocalOffsetData, Row
<1>10. ASSUME NEW c \in Entries, c \notin Elements(roots_), m[ParentEntry(c)] \in Remap
       PROVE  /\ m[c] \in Remap
              /\ m[c].ProcessId = m[ParentEntry(c)].ProcessId
              /\ m[c].ThreadId = m[ParentEntry(c)].ThreadId + Row(c)
  <2>1. m[c] = RemapOf(m, c)
    BY <1>1, <1>2
  <2>2. localOffsetsData_[c] # Null /\ m[ParentEntry(c)] # Null
    BY <1>9, <1>10, NoRowAssumption
  <2>3. m[c] = [m[ParentEntry(c)] EXCEPT !.ThreadId = @ + Row(c)]
    BY <2>1, <2>2, <1>3, <1>10 DEF RemapOf, Row
  <2> QED BY <2>3, <1>9, <1>10 DEF Remap
<1> DEFINE S == {c \in Entries : m[c] \in Remap}
<1>11. ASSUME NEW c \in Entries, Parents(entries_, c) \subseteq S PROVE c \in S
  <2>1. CASE c \in Elements(roots_)
    BY <2>1, <1>8
  <2>2. CASE c \notin Elements(roots_)
    BY <2>2, <1>10, <1>11, ParentEntryFacts
  <2> QED BY <2>1, <2>2
<1>12. \A a \in Entries : m[a] \in Remap
  <2> HIDE DEF S
  <2>1. Entries \subseteq S
    BY <1>11, TopDown
  <2> QED BY <2>1 DEF S
<1>13. ASSUME NEW p \in Entries, NEW c \in ChildrenOf(entries_, p)
       PROVE  /\ m[c].ProcessId = m[p].ProcessId
              /\ m[c].ThreadId = m[p].ThreadId + Row(c)
  <2>1. c \in Entries /\ p \in Parents(entries_, c)
    BY ChildFacts
  <2>2. c \notin Elements(roots_)
    BY <2>1, <1>1 DEF Forest
  <2>3. p = ParentEntry(c)
    BY <2>1, <2>2, ParentEntryFacts
  <2> QED BY <2>1, <2>2, <2>3, <1>10, <1>12
<1>14. \A a \in Activities \ Entries : m[a] = Null
  BY <1>2, <1>3 DEF RemapOf
<1>15. m \in [Activities -> Remap \cup {Null}]
  <2>1. \A a \in Activities : m[a] \in Remap \cup {Null}
    BY <1>12, <1>14
  <2>2. m = [a \in Activities |-> m[a]]
    BY <1>2
  <2> QED BY <2>1, <2>2
<1>16. \A i \in DOMAIN roots_ : m[roots_[i]].ProcessId = process[i] /\ m[roots_[i]].ThreadId = 0
  <2> TAKE i \in DOMAIN roots_
  <2>1. m[roots_[i]] = [ProcessId |-> process[i], ThreadId |-> 0]
    BY <1>7
  <2> QED BY <2>1
<1> QED BY <1>12, <1>13, <1>14, <1>15, <1>16 DEF m, process

-----------------------------------------------------------------------------
(* What is written. *)

\* Truncating to microseconds keeps the order, also of a start and a duration
\* that are truncated apart.
LEMMA MicrosecondFacts ==
  ASSUME NEW x \in Nat, NEW y \in Nat, x <= y
  PROVE  /\ x \div NsPerUs \in Nat /\ y \div NsPerUs \in Nat /\ (y - x) \div NsPerUs \in Nat
         /\ x \div NsPerUs <= y \div NsPerUs
         /\ (x \div NsPerUs) + ((y - x) \div NsPerUs) <= y \div NsPerUs
<1> DEFINE d == NsPerUs
           p == x \div d
           q == y \div d
           r == (y - x) \div d
<1>1. d \in Nat \ {0} /\ y - x \in Nat
  BY MicrosecondAssumption
<1>2. /\ p \in Nat /\ q \in Nat /\ r \in Nat
      /\ d * p <= x /\ d * q <= y /\ d * r <= y - x
      /\ y < d * q + d
  BY <1>1, SMT
<1> HIDE DEF p, q, r, d
<1>3. ASSUME NEW s \in Nat, d * s <= y PROVE s <= q
  <2>1. CASE s >= q + 1
    <3>1. d * s >= d * q + d
      BY <1>1, <1>2, <2>1, SMT
    <3> QED BY <1>1, <1>2, <1>3, <3>1, SMT
  <2> QED BY <2>1, <1>2
<1>4. p <= q
  <2>1. d * p \in Nat /\ d * p <= y
    BY <1>1, <1>2, SMT
  <2> QED BY <2>1, <1>2, <1>3
<1>5. p + r <= q
  <2>1. d * (p + r) = d * p + d * r
    BY <1>1, <1>2, SMT
  <2>2. d * p \in Nat /\ d * r \in Nat
    BY <1>1, <1>2, SMT
  <2>3. d * (p + r) <= y
    BY <1>1, <1>2, <2>1, <2>2
  <2> QED BY <2>3, <1>2, <1>3
<1> QED BY <1>2, <1>4, <1>5 DEF p, q, r, d

Settled ==
  /\ HierarchyInv /\ SpanInv /\ RankInv /\ DataInv /\ PackedInv
  /\ Active = {}

LEMMA SettledFacts ==
  ASSUME Settled
  PROVE  /\ \A a \in Entries :
              /\ Row(a) \in Nat /\ Below(a) \in Nat /\ localOffsetsData_[a] # Null
              /\ Calculate[a].ProcessId \in Nat /\ Calculate[a].ThreadId \in Nat
              /\ entries_[a].StartTimestamp \in Nat /\ entries_[a].StopTimestamp \in Nat
              /\ entries_[a].StartTimestamp <= entries_[a].StopTimestamp
              /\ entries_[a].Name \in Kinds \cup SymbolKeys
              /\ entries_[a].Children \in Seq(Activities)
              /\ Packed(a)
         /\ \A p \in Entries : \A c \in ChildrenOf(entries_, p) :
              /\ c \in Entries
              /\ Calculate[c].ProcessId = Calculate[p].ProcessId
              /\ Calculate[c].ThreadId = Calculate[p].ThreadId + Row(c)
              /\ entries_[p].StartTimestamp <= entries_[c].StartTimestamp
              /\ entries_[c].StopTimestamp <= entries_[p].StopTimestamp
<1>1. /\ HierarchyInv /\ SpanInv /\ RankInv /\ DataInv /\ PackedInv /\ Active = {}
      /\ entries_ \in Entrylike /\ Entries \subseteq Activities
  BY TypeFacts DEF Settled, HierarchyInv
<1>2. ASSUME NEW a \in Entries
      PROVE  /\ Row(a) \in Nat /\ Below(a) \in Nat /\ localOffsetsData_[a] # Null
             /\ Calculate[a].ProcessId \in Nat /\ Calculate[a].ThreadId \in Nat
             /\ entries_[a].StartTimestamp \in Nat /\ entries_[a].StopTimestamp \in Nat
             /\ entries_[a].StartTimestamp <= entries_[a].StopTimestamp
             /\ entries_[a].Name \in Kinds \cup SymbolKeys
             /\ entries_[a].Children \in Seq(Activities)
             /\ Packed(a)
  <2>1. localOffsetsData_[a] \in LocalOffsetData
    BY <1>1 DEF DataInv, DataTypeOK
  <2>2. Row(a) \in Nat /\ Below(a) \in Nat /\ localOffsetsData_[a] # Null
    BY <2>1, NoRowAssumption DEF Row, Below, LocalOffsetData
  <2>3. Calculate[a].ProcessId \in Nat /\ Calculate[a].ThreadId \in Nat
    BY <1>1, RemapFacts DEF Remap
  <2>4. /\ entries_[a].StartTimestamp \in Nat /\ entries_[a].StopTimestamp \in Nat
        /\ entries_[a].Name \in Kinds \cup SymbolKeys
        /\ entries_[a].Children \in Seq(Activities)
    BY <1>1, EntryFacts, FilterAssumption DEF Entries
  <2> QED BY <2>2, <2>3, <2>4, <1>1 DEF SpanInv, PackedInv
<1>3. ASSUME NEW p \in Entries, NEW c \in ChildrenOf(entries_, p)
      PROVE  /\ c \in Entries
             /\ Calculate[c].ProcessId = Calculate[p].ProcessId
             /\ Calculate[c].ThreadId = Calculate[p].ThreadId + Row(c)
             /\ entries_[p].StartTimestamp <= entries_[c].StartTimestamp
             /\ entries_[c].StopTimestamp <= entries_[p].StopTimestamp
  <2>1. c \in Entries /\ c \in Activities /\ p \in Parents(entries_, c)
    BY <1>1, ChildFacts
  <2>2. /\ entries_[p].StartTimestamp <= entries_[c].StartTimestamp
        /\ entries_[c].StopTimestamp <= entries_[p].StopTimestamp
    BY <2>1, <1>1 DEF HierarchyInv, TimesInv
  <2>3. /\ Calculate[c].ProcessId = Calculate[p].ProcessId
        /\ Calculate[c].ThreadId = Calculate[p].ThreadId + Row(c)
    BY <1>1, RemapFacts
  <2> QED BY <2>1, <2>2, <2>3
<1> QED BY <1>2, <1>3

\* What is below an entry is in its process, on the rows it has for it and
\* within its time.
LEMMA SubtreeBounds ==
  ASSUME Settled, NEW a \in Entries, NEW b \in Subtree(entries_, a)
  PROVE  /\ b \in Entries
         /\ Calculate[b].ProcessId = Calculate[a].ProcessId
         /\ Calculate[a].ThreadId <= Calculate[b].ThreadId
         /\ Calculate[b].ThreadId + Below(b) <= Calculate[a].ThreadId + Below(a)
         /\ entries_[a].StartTimestamp <= entries_[b].StartTimestamp
         /\ entries_[b].StopTimestamp <= entries_[a].StopTimestamp
<1> DEFINE S == {x \in Entries :
                   /\ Calculate[x].ProcessId = Calculate[a].ProcessId
                   /\ Calculate[a].ThreadId <= Calculate[x].ThreadId
                   /\ Calculate[x].ThreadId + Below(x) <= Calculate[a].ThreadId + Below(a)
                   /\ entries_[a].StartTimestamp <= entries_[x].StartTimestamp
                   /\ entries_[x].StopTimestamp <= entries_[a].StopTimestamp}
<1>1. a \in S
  BY SettledFacts
<1>2. ASSUME NEW y \in S, NEW c \in ChildrenOf(entries_, y) PROVE c \in S
  <2>1. /\ c \in Entries
        /\ Calculate[c].ProcessId = Calculate[y].ProcessId
        /\ Calculate[c].ThreadId = Calculate[y].ThreadId + Row(c)
        /\ entries_[y].StartTimestamp <= entries_[c].StartTimestamp
        /\ entries_[c].StopTimestamp <= entries_[y].StopTimestamp
    BY SettledFacts
  <2>2. Packed(y) /\ Row(c) + Below(c) <= Below(y)
    BY SettledFacts DEF Packed
  <2>3. \A x \in {a, c, y} :
          /\ Row(x) \in Nat /\ Below(x) \in Nat
          /\ Calculate[x].ThreadId \in Nat
          /\ entries_[x].StartTimestamp \in Nat /\ entries_[x].StopTimestamp \in Nat
    BY <2>1, SettledFacts
  <2> QED BY <2>1, <2>2, <2>3
<1> HIDE DEF S
<1>3. Subtree(entries_, a) \subseteq S
  <2>1. HierarchyInv
    BY DEF Settled
  <2> QED BY <2>1, <1>1, <1>2, SubtreeClosed
<1> QED BY <1>3 DEF S

\* The last row that an entry requires is used by an entry below it.
LEMMA LastRowUsed ==
  ASSUME Settled, NEW a \in Entries
  PROVE  \E b \in Subtree(entries_, a) :
           Calculate[b].ThreadId = Calculate[a].ThreadId + Below(a)
<1> DEFINE S == {x \in Entries : \E b \in Subtree(entries_, x) :
                   Calculate[b].ThreadId = Calculate[x].ThreadId + Below(x)}
<1>1. HierarchyInv /\ RankInv
  BY DEF Settled
<1>2. ASSUME NEW p \in Entries, ChildrenOf(entries_, p) \subseteq S PROVE p \in S
  <2>1. Packed(p) /\ p \in Subtree(entries_, p) /\ Calculate[p].ThreadId \in Nat
    BY <1>1, SettledFacts, SubtreeClosed
  <2>2. CASE ChildrenOf(entries_, p) = {}
    <3>1. Calculate[p].ThreadId = Calculate[p].ThreadId + Below(p)
      BY <2>1, <2>2 DEF Packed
    <3> QED BY <2>1, <3>1
  <2>3. CASE ChildrenOf(entries_, p) # {}
    <3>1. PICK c \in ChildrenOf(entries_, p) : Row(c) + Below(c) = Below(p)
      BY <2>1, <2>3 DEF Packed
    <3>2. PICK b \in Subtree(entries_, c) :
            Calculate[b].ThreadId = Calculate[c].ThreadId + Below(c)
      BY <1>2
    <3>3. c \in Entries /\ Calculate[c].ThreadId = Calculate[p].ThreadId + Row(c)
      BY SettledFacts
    <3>4. Row(c) \in Nat /\ Below(c) \in Nat
      BY <3>3, SettledFacts
    <3>5. Calculate[b].ThreadId = Calculate[p].ThreadId + Below(p)
      BY <2>1, <3>1, <3>2, <3>3, <3>4
    <3>6. b \in Subtree(entries_, p)
      BY <1>1, <2>1, SubtreeClosed, SubtreeChildren
    <3> QED BY <3>5, <3>6
  <2> QED BY <2>2, <2>3
<1> HIDE DEF S
<1>3. Entries \subseteq S
  BY <1>1, <1>2, BottomUp
<1> QED BY <1>3 DEF S

\* Two entries with neither below the other are below two roots, or two
\* children of one entry.
Apart(a, b) ==
  \E c, d \in Entries :
    /\ c # d /\ a \in Subtree(entries_, c) /\ b \in Subtree(entries_, d)
    /\ \/ c \in Elements(roots_) /\ d \in Elements(roots_)
       \/ \E p \in Entries : c \in ChildrenOf(entries_, p) /\ d \in ChildrenOf(entries_, p)

LEMMA ContainedOrApart ==
  ASSUME HierarchyInv, RankInv, NEW a \in Entries, NEW b \in Entries
  PROVE  Contains(a, b) \/ Contains(b, a) \/ Apart(a, b)
<1> DEFINE S == {x \in Entries : Contains(a, x) \/ Contains(x, a) \/ Apart(a, x)}
<1>1. ASSUME NEW x \in Entries, Parents(entries_, x) \subseteq S PROVE x \in S
  <2>1. x \in Subtree(entries_, x)
    BY SubtreeClosed
  <2>2. CASE x \in Elements(roots_)
    <3>1. PICK r \in Elements(roots_) : a \in Subtree(entries_, r)
      BY ReachedFacts DEF Reached
    <3>2. r \in Entries
      BY ReachedFacts
    <3>3. CASE r = x
      BY <3>1, <3>3 DEF Contains
    <3>4. CASE r # x
      <4>1. Apart(a, x)
        BY <2>1, <2>2, <3>1, <3>2, <3>4 DEF Apart
      <4> QED BY <4>1
    <3> QED BY <3>3, <3>4
  <2>3. CASE x \notin Elements(roots_)
    <3>1. PICK p \in Parents(entries_, x) : p \in S
      BY <2>3, <1>1, ParentEntryFacts
    <3>2. p \in Entries /\ x \in ChildrenOf(entries_, p)
      BY <3>1, ChildFacts DEF Entries
    <3>3. CASE Contains(a, p)
      BY <3>2, <3>3, SubtreeClosed DEF Contains
    <3>4. CASE Contains(p, a) /\ a # p
      <4>1. PICK c \in ChildrenOf(entries_, p) : a \in Subtree(entries_, c)
        BY <3>2, <3>4, SubtreeChildren DEF Contains
      <4>2. c \in Entries
        BY <3>2, <4>1, ChildFacts
      <4>3. CASE c = x
        BY <4>1, <4>3 DEF Contains
      <4>4. CASE c # x
        <5>1. Apart(a, x)
          BY <2>1, <3>2, <4>1, <4>2, <4>4 DEF Apart
        <5> QED BY <5>1
      <4> QED BY <4>3, <4>4
    <3>5. CASE Contains(p, a) /\ a = p
      BY <3>3, <3>5 DEF Contains
    <3>6. CASE Apart(a, p)
      <4>1. \A d \in Entries : p \in Subtree(entries_, d) => x \in Subtree(entries_, d)
        BY <3>2, SubtreeClosed
      <4>2. Apart(a, x)
        BY <3>6, <4>1 DEF Apart
      <4> QED BY <4>2
    <3> QED BY <3>1, <3>3, <3>4, <3>5, <3>6
  <2> QED BY <2>2, <2>3
<1> HIDE DEF S
<1>2. Entries \subseteq S
  BY <1>1, TopDown
<1> QED BY <1>2 DEF S

\* Two entries that are apart run one after the other, or are on rows of their
\* own, as roots are that run at the same time, and with them all that is below.
LEMMA ApartFacts ==
  ASSUME Settled, NEW a \in Entries, NEW b \in Entries, Apart(a, b),
         Calculate[a].ProcessId = Calculate[b].ProcessId,
         Calculate[a].ThreadId = Calculate[b].ThreadId
  PROVE  \/ entries_[a].StopTimestamp <= entries_[b].StartTimestamp
         \/ entries_[b].StopTimestamp <= entries_[a].StartTimestamp
<1>1. PICK c \in Entries, d \in Entries :
        /\ c # d /\ a \in Subtree(entries_, c) /\ b \in Subtree(entries_, d)
        /\ \/ c \in Elements(roots_) /\ d \in Elements(roots_)
           \/ \E p \in Entries : c \in ChildrenOf(entries_, p) /\ d \in ChildrenOf(entries_, p)
  BY DEF Apart
<1>2. /\ HierarchyInv /\ RankInv /\ DataInv /\ Active = {}
      /\ Forest(entries_, roots_) /\ roots_ \in Seq(Activities)
  BY TypeFacts DEF Settled, HierarchyInv, ForestInv
<1>3. \A x \in {a, b, c, d} :
        /\ Row(x) \in Nat /\ Below(x) \in Nat
        /\ Calculate[x].ThreadId \in Nat
        /\ entries_[x].StartTimestamp \in Nat /\ entries_[x].StopTimestamp \in Nat
  BY <1>1, SettledFacts
<1>4. /\ Calculate[a].ProcessId = Calculate[c].ProcessId
      /\ Calculate[c].ThreadId <= Calculate[a].ThreadId
      /\ Calculate[a].ThreadId + Below(a) <= Calculate[c].ThreadId + Below(c)
      /\ entries_[c].StartTimestamp <= entries_[a].StartTimestamp
      /\ entries_[a].StopTimestamp <= entries_[c].StopTimestamp
  BY <1>1, SubtreeBounds
<1>5. /\ Calculate[b].ProcessId = Calculate[d].ProcessId
      /\ Calculate[d].ThreadId <= Calculate[b].ThreadId
      /\ Calculate[b].ThreadId + Below(b) <= Calculate[d].ThreadId + Below(d)
      /\ entries_[d].StartTimestamp <= entries_[b].StartTimestamp
      /\ entries_[b].StopTimestamp <= entries_[d].StopTimestamp
  BY <1>1, SubtreeBounds
<1>6. CASE ~ OverlapsWith(entries_, c, d)
  <2>1. \/ entries_[d].StopTimestamp <= entries_[c].StartTimestamp
        \/ entries_[c].StopTimestamp <= entries_[d].StartTimestamp
    BY <1>3, <1>6 DEF OverlapsWith
  <2> QED BY <2>1, <1>3, <1>4, <1>5
<1>7. ASSUME OverlapsWith(entries_, c, d), c \in Elements(roots_), d \in Elements(roots_)
      PROVE  FALSE
  <2> DEFINE process == FirstFit(entries_, roots_, Activities)
  <2>1. PICK i \in DOMAIN roots_ : roots_[i] = c
    BY <1>7 DEF Elements
  <2>2. PICK j \in DOMAIN roots_ : roots_[j] = d
    BY <1>7 DEF Elements
  <2>3. process[i] = process[j]
    <3>1. Calculate[c].ProcessId = process[i] /\ Calculate[d].ProcessId = process[j]
      BY <2>1, <2>2, <1>2, RemapFacts
    <3> QED BY <3>1, <1>4, <1>5
  <2>4. /\ Len(roots_) \in Nat /\ DOMAIN roots_ = 1 .. Len(roots_)
        /\ roots_[i] \in Activities /\ roots_[j] \in Activities
    BY <1>2
  <2>5. \A k \in 1 .. Len(roots_) : \A l \in Clashing(entries_, roots_, Activities, k) :
          process[k] # process[l]
    BY <2>4, FirstFitFacts
  <2>6. i < j \/ j < i
    BY <2>1, <2>2, <2>4, <1>1
  <2>7. OverlapsWith(entries_, d, c)
    BY <1>7 DEF OverlapsWith
  <2>8. CASE j < i
    <3>1. j \in Clashing(entries_, roots_, Activities, i)
      BY <1>7, <2>1, <2>2, <2>4, <2>8 DEF Clashing
    <3> QED BY <3>1, <2>3, <2>4, <2>5
  <2>9. CASE i < j
    <3>1. i \in Clashing(entries_, roots_, Activities, j)
      BY <2>1, <2>2, <2>4, <2>7, <2>9 DEF Clashing
    <3> QED BY <3>1, <2>3, <2>4, <2>5
  <2> QED BY <2>6, <2>8, <2>9
<1>8. ASSUME OverlapsWith(entries_, c, d), NEW p \in Entries,
             c \in ChildrenOf(entries_, p), d \in ChildrenOf(entries_, p)
      PROVE  FALSE
  <2>1. Row(c) + Below(c) < Row(d) \/ Row(d) + Below(d) < Row(c)
    BY <1>1, <1>8, SettledFacts DEF Packed
  <2>2. /\ Calculate[c].ThreadId = Calculate[p].ThreadId + Row(c)
        /\ Calculate[d].ThreadId = Calculate[p].ThreadId + Row(d)
        /\ Calculate[p].ThreadId \in Nat
    BY <1>8, SettledFacts
  <2>3. /\ Row(c) \in Nat /\ Below(c) \in Nat /\ Row(d) \in Nat /\ Below(d) \in Nat
        /\ Calculate[a].ThreadId \in Nat
        /\ Below(a) \in Nat /\ Below(b) \in Nat
    BY <1>3
  <2>4. /\ Calculate[p].ThreadId + Row(c) <= Calculate[a].ThreadId
        /\ Calculate[a].ThreadId <= Calculate[p].ThreadId + Row(c) + Below(c)
    BY <2>2, <2>3, <1>4
  <2>5. /\ Calculate[p].ThreadId + Row(d) <= Calculate[a].ThreadId
        /\ Calculate[a].ThreadId <= Calculate[p].ThreadId + Row(d) + Below(d)
    BY <2>2, <2>3, <1>5
  <2> QED BY <2>1, <2>2, <2>3, <2>4, <2>5
<1> QED BY <1>1, <1>6, <1>7, <1>8

LEMMA WrittenFacts ==
  ASSUME Settled, remappings_ = Calculate, NEW a \in Entries
  PROVE  /\ Written(a) \in Slice
         /\ Written(a).pid = Calculate[a].ProcessId /\ Written(a).tid = Calculate[a].ThreadId
         /\ Written(a).ts = entries_[a].StartTimestamp \div NsPerUs
         /\ Written(a).end <= entries_[a].StopTimestamp \div NsPerUs
         /\ ChildrenOf(entries_, a) # {} =>
              Written(a).end = entries_[a].StopTimestamp \div NsPerUs
<1>1. /\ Calculate[a].ProcessId \in Nat /\ Calculate[a].ThreadId \in Nat
      /\ entries_[a].StartTimestamp \in Nat /\ entries_[a].StopTimestamp \in Nat
      /\ entries_[a].StartTimestamp <= entries_[a].StopTimestamp
      /\ entries_[a].Name \in Kinds \cup SymbolKeys
  BY SettledFacts
<1> DEFINE start == entries_[a].StartTimestamp
           stop == entries_[a].StopTimestamp
           end == IF entries_[a].Children = <<>> THEN StopUs(entries_[a]) ELSE stop \div NsPerUs
<1>2. /\ start \div NsPerUs \in Nat /\ stop \div NsPerUs \in Nat
      /\ (stop - start) \div NsPerUs \in Nat
      /\ (start \div NsPerUs) + ((stop - start) \div NsPerUs) <= stop \div NsPerUs
  BY <1>1, MicrosecondFacts
<1>3. StopUs(entries_[a]) = (start \div NsPerUs) + ((stop - start) \div NsPerUs)
  BY DEF StopUs
<1>4. Written(a) = [pid |-> Calculate[a].ProcessId, tid |-> Calculate[a].ThreadId,
                    name |-> entries_[a].Name, ts |-> start \div NsPerUs, end |-> end]
  BY DEF Written
<1>5. end \in Nat /\ end <= stop \div NsPerUs
  BY <1>2, <1>3
<1>6. ChildrenOf(entries_, a) # {} => end = stop \div NsPerUs
  BY DEF ChildrenOf, Elements
<1> HIDE DEF end
<1>7. Written(a) \in Slice
  BY <1>1, <1>2, <1>4, <1>5 DEF Slice
<1> QED BY <1>4, <1>5, <1>6, <1>7

LEMMA SettledAtEnd ==
  ASSUME RowsInv, analysis # "running"
  PROVE  /\ Settled /\ remappings_ = Calculate
         /\ analysis = "exported" =>
              /\ \A a \in Entries : traceEvents[a] = Written(a)
              /\ \A a \in Activities \ Entries : traceEvents[a] = Null
<1>1. /\ HierarchyInv /\ SpanInv /\ RankInv /\ DataInv /\ PackedInv
      /\ Active = {} /\ remappings_ = Calculate
      /\ analysis = "exported" =>
           traceEvents = [a \in Activities |-> IF a \in Reached THEN Written(a) ELSE Null]
  BY DEF RowsInv, OutputInv
<1>2. Reached = Entries /\ Entries \subseteq Activities
  BY <1>1, ReachedFacts DEF Entries
<1> QED BY <1>1, <1>2 DEF Settled

\* Timestamps, rows and written slices are what they are declared to be; no row
\* or microsecond is negative.
THEOREM TypeCorrect == Spec => []TypeOK
<1>1. RowsInv => TypeOK
  <2> SUFFICES ASSUME RowsInv PROVE TypeOK
    OBVIOUS
  <2>1. /\ HierarchyTypeOK
        /\ localOffsetsData_ \in [Activities -> LocalOffsetData \cup {Null}]
        /\ analysis \in {"running", "exported", "failed"}
    BY DEF RowsInv, HierarchyInv, DataInv, DataTypeOK, OutputInv
  <2>2. remappings_ \in [Activities -> Remap \cup {Null}]
    <3>1. CASE analysis = "running"
      BY <3>1 DEF RowsInv, OutputInv
    <3>2. CASE analysis # "running"
      BY <3>2, SettledAtEnd, RemapFacts DEF Settled
    <3> QED BY <3>1, <3>2
  <2>3. traceEvents \in [Activities -> Slice \cup {Null}]
    <3>1. CASE analysis = "exported"
      <4>1. \A a \in Activities : traceEvents[a] \in Slice \cup {Null}
        BY <3>1, SettledAtEnd, WrittenFacts
      <4>2. traceEvents = [a \in Activities |-> traceEvents[a]]
        BY <3>1 DEF RowsInv, OutputInv
      <4> QED BY <4>1, <4>2
    <3>2. CASE analysis # "exported"
      BY <3>2 DEF RowsInv, OutputInv
    <3> QED BY <3>1, <3>2
  <2> QED BY <2>1, <2>2, <2>3 DEF TypeOK
<1> QED BY <1>1, RowsInvariance, PTL

\* An entry that was not filtered out is written, and on rows of its own.
THEOREM EntriesExported == Spec => []EverythingExported
<1>1. RowsInv => EverythingExported
  <2> SUFFICES ASSUME RowsInv, analysis = "exported", NEW a \in Activities
               PROVE  /\ traceEvents[a] # Null <=> a \in Entries
                      /\ a \in Entries => remappings_[a] # Null /\ localOffsetsData_[a] # Null
    BY DEF EverythingExported
  <2>1. /\ Settled /\ remappings_ = Calculate
        /\ \A x \in Entries : traceEvents[x] = Written(x)
        /\ \A x \in Activities \ Entries : traceEvents[x] = Null
    BY SettledAtEnd
  <2>2. CASE a \in Entries
    <3>1. traceEvents[a] \in Slice /\ localOffsetsData_[a] # Null
      BY <2>1, <2>2, WrittenFacts, SettledFacts
    <3>2. remappings_[a] \in Remap
      BY <2>1, <2>2, RemapFacts DEF Settled
    <3> QED BY <2>2, <3>1, <3>2, NoRowAssumption
  <2>3. CASE a \notin Entries
    BY <2>1, <2>3
  <2> QED BY <2>2, <2>3
<1> QED BY <1>1, RowsInvariance, PTL

\* A root is the n-th process of the output only if n - 1 others run when it starts.
THEOREM ProcessesStayPacked == Spec => []ProcessesPacked
<1>1. RowsInv => ProcessesPacked
  <2> SUFFICES ASSUME RowsInv, analysis # "running", NEW r \in Elements(roots_)
               PROVE  \E R \in SUBSET Elements(roots_) :
                        /\ r \in R
                        /\ Cardinality(R) = remappings_[r].ProcessId + 1
                        /\ \A a, b \in R : a # b => OverlapsWith(entries_, a, b)
    BY DEF ProcessesPacked
  <2>1. Settled /\ remappings_ = Calculate
    BY SettledAtEnd
  <2>2. /\ HierarchyInv /\ RankInv /\ DataInv /\ Active = {}
        /\ entries_ \in Entrylike /\ roots_ \in Seq(Activities)
        /\ OneToOne(roots_) /\ InOrder(entries_, roots_)
        /\ \A i \in DOMAIN roots_ : entries_[roots_[i]] # Null
    BY <2>1, TypeFacts, ListedFacts
       DEF Settled, HierarchyInv, ForestInv, Forest, TimesInv, Entries
  <2>3. PICK i \in DOMAIN roots_ : roots_[i] = r
    BY DEF Elements
  <2>4. remappings_[r].ProcessId = FirstFit(entries_, roots_, Activities)[i]
    BY <2>1, <2>2, <2>3, RemapFacts
  <2> QED BY <2>2, <2>3, <2>4, RowsNeeded
<1> QED BY <1>1, RowsInvariance, PTL

\* An entry asks for the rows that what is below it ends up on, no more and no less.
THEOREM RowsStayExact == Spec => []RequiredRowsExact
<1>1. RowsInv => RequiredRowsExact
  <2> SUFFICES ASSUME RowsInv, analysis # "running", NEW a \in Entries
               PROVE  remappings_[a].ThreadId
                        + localOffsetsData_[a].RequiredThreadIdToFitHierarchy
                        = Max({remappings_[b].ThreadId : b \in Subtree(entries_, a)})
    BY DEF RequiredRowsExact
  <2> DEFINE S == {remappings_[b].ThreadId : b \in Subtree(entries_, a)}
             last == Calculate[a].ThreadId + Below(a)
  <2>1. Settled /\ remappings_ = Calculate
    BY SettledAtEnd
  <2>2. last \in Nat
    BY <2>1, SettledFacts
  <2>3. \A b \in Subtree(entries_, a) :
          Calculate[b].ThreadId \in Nat /\ Calculate[b].ThreadId <= last
    <3> TAKE b \in Subtree(entries_, a)
    <3>1. b \in Entries /\ Calculate[b].ThreadId + Below(b) <= last
      BY <2>1, SubtreeBounds
    <3>2. Calculate[b].ThreadId \in Nat /\ Below(b) \in Nat
      BY <2>1, <3>1, SettledFacts
    <3> QED BY <3>1, <3>2, <2>2
  <2>4. last \in S
    BY <2>1, LastRowUsed
  <2>5. S \in SUBSET Nat /\ \A x \in S : x <= last
    BY <2>1, <2>3
  <2> HIDE DEF S, last
  <2>6. Max(S) \in S /\ \A x \in S : x <= Max(S)
    BY <2>2, <2>4, <2>5, MaxFacts
  <2>7. Max(S) = last
    <3>1. Max(S) \in Nat /\ Max(S) <= last /\ last <= Max(S)
      BY <2>4, <2>5, <2>6
    <3> QED BY <3>1, <2>2
  <2> QED BY <2>1, <2>7 DEF S, last, Below
<1> QED BY <1>1, RowsInvariance, PTL

\* No slice of a thread covers half of another one.
THEOREM SlicesStayNested == Spec => []SlicesNest
<1>1. ASSUME Settled, remappings_ = Calculate, NEW a \in Entries, NEW b \in Entries, Contains(a, b)
      PROVE  Written(a).ts <= Written(b).ts /\ Written(b).end <= Written(a).end
  <2>1. HierarchyInv /\ b \in Subtree(entries_, a)
    BY <1>1 DEF Settled, Contains
  <2>2. /\ entries_[a].StartTimestamp <= entries_[b].StartTimestamp
        /\ entries_[b].StopTimestamp <= entries_[a].StopTimestamp
    BY <2>1, <1>1, SubtreeBounds
  <2>3. \A x \in {a, b} :
          /\ entries_[x].StartTimestamp \in Nat /\ entries_[x].StopTimestamp \in Nat
          /\ Written(x).ts = entries_[x].StartTimestamp \div NsPerUs
          /\ Written(x).ts \in Nat /\ Written(x).end \in Nat
          /\ Written(x).end <= entries_[x].StopTimestamp \div NsPerUs
          /\ ChildrenOf(entries_, x) # {} =>
               Written(x).end = entries_[x].StopTimestamp \div NsPerUs
    BY <1>1, SettledFacts, WrittenFacts DEF Slice
  <2>4. Written(a).ts <= Written(b).ts
    BY <2>2, <2>3, MicrosecondFacts
  <2>5. CASE a = b
    BY <2>3, <2>5
  <2>6. CASE a # b
    <3>1. ChildrenOf(entries_, a) # {}
      BY <2>1, <2>6, SubtreeChildren
    <3>2. /\ entries_[b].StopTimestamp \div NsPerUs \in Nat
          /\ entries_[a].StopTimestamp \div NsPerUs \in Nat
          /\ entries_[b].StopTimestamp \div NsPerUs <= entries_[a].StopTimestamp \div NsPerUs
      BY <2>2, <2>3, MicrosecondFacts
    <3>3. Written(b).end <= Written(a).end
      BY <3>1, <3>2, <2>3
    <3> QED BY <2>4, <3>3
  <2> QED BY <2>4, <2>5, <2>6
<1>2. ASSUME Settled, remappings_ = Calculate, NEW a \in Entries, NEW b \in Entries,
             entries_[a].StopTimestamp <= entries_[b].StartTimestamp
      PROVE  Written(a).end <= Written(b).ts
  <2>1. /\ entries_[a].StopTimestamp \in Nat /\ entries_[b].StartTimestamp \in Nat
        /\ Written(b).ts = entries_[b].StartTimestamp \div NsPerUs
        /\ Written(a).end \in Nat
        /\ Written(a).end <= entries_[a].StopTimestamp \div NsPerUs
    BY <1>2, SettledFacts, WrittenFacts DEF Slice
  <2>2. /\ entries_[a].StopTimestamp \div NsPerUs \in Nat
        /\ entries_[b].StartTimestamp \div NsPerUs \in Nat
        /\ entries_[a].StopTimestamp \div NsPerUs <= entries_[b].StartTimestamp \div NsPerUs
    BY <1>2, <2>1, MicrosecondFacts
  <2> QED BY <2>1, <2>2
<1>3. RowsInv => SlicesNest
  <2> SUFFICES ASSUME RowsInv, analysis = "exported", NEW a \in Entries, NEW b \in Entries,
                      traceEvents[a].pid = traceEvents[b].pid,
                      traceEvents[a].tid = traceEvents[b].tid
               PROVE  LET s == traceEvents[a]
                          t == traceEvents[b]
                      IN  \/ Contains(a, b) /\ s.ts <= t.ts /\ t.end <= s.end
                          \/ Contains(b, a) /\ t.ts <= s.ts /\ s.end <= t.end
                          \/ s.end <= t.ts
                          \/ t.end <= s.ts
    BY DEF SlicesNest
  <2>1. /\ Settled /\ remappings_ = Calculate
        /\ traceEvents[a] = Written(a) /\ traceEvents[b] = Written(b)
    BY SettledAtEnd
  <2>2. CASE Contains(a, b)
    BY <2>1, <2>2, <1>1
  <2>3. CASE Contains(b, a)
    BY <2>1, <2>3, <1>1
  <2>4. CASE Apart(a, b)
    <3>1. /\ Calculate[a].ProcessId = Calculate[b].ProcessId
          /\ Calculate[a].ThreadId = Calculate[b].ThreadId
      BY <2>1, WrittenFacts
    <3>2. \/ entries_[a].StopTimestamp <= entries_[b].StartTimestamp
          \/ entries_[b].StopTimestamp <= entries_[a].StartTimestamp
      BY <3>1, <2>1, <2>4, ApartFacts
    <3> QED BY <3>2, <2>1, <1>2
  <2>5. Contains(a, b) \/ Contains(b, a) \/ Apart(a, b)
    BY <2>1, ContainedOrApart DEF Settled
  <2> QED BY <2>2, <2>3, <2>4, <2>5
<1> QED BY <1>3, RowsInvariance, PTL

=============================================================================
