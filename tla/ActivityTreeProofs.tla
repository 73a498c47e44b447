------------------------- MODULE ActivityTreeProofs -------------------------
(* The event stacks stay the paths of a forest, whatever the trace. *)
EXTENDS ActivityTree, FiniteSetTheorems, WellFoundedInduction, TLAPS

-----------------------------------------------------------------------------
(* Naturals. *)

\* A non-empty set of naturals has a least element.
LEMMA LeastElement ==
  ASSUME NEW S \in SUBSET Nat, S # {}
  PROVE  \E m \in S : \A n \in S : m <= n
<1> DEFINE T == {0 .. m : m \in S}
<1>1. IsWellFoundedOn(StrictSubsetOrdering(Nat), FiniteSubsetsOf(Nat))
  BY FS_StrictSubsetOrderingWellFounded
<1>2. T \subseteq FiniteSubsetsOf(Nat)
  <2> SUFFICES ASSUME NEW m \in S PROVE 0 .. m \in FiniteSubsetsOf(Nat)
    OBVIOUS
  <2>1. IsFiniteSet(0 .. m)
    BY FS_Interval
  <2> QED BY <2>1 DEF FiniteSubsetsOf
<1>3. T # {}
  OBVIOUS
<1> HIDE DEF T
<1>4. PICK x \in T : \A y \in T : ~ (<<y, x>> \in StrictSubsetOrdering(Nat))
  BY <1>1, <1>2, <1>3, WFMin
<1>5. PICK m \in S : x = 0 .. m
  BY DEF T
<1>6. ASSUME NEW n \in S PROVE m <= n
  <2>1. 0 .. n \in T
    BY DEF T
  <2>2. ~ (<<0 .. n, 0 .. m>> \in StrictSubsetOrdering(Nat))
    BY <1>4, <1>5, <2>1
  <2>3. ASSUME n < m PROVE FALSE
    <3>1. 0 .. n \subseteq 0 .. m /\ 0 .. n # 0 .. m
      <4>1. m \in 0 .. m /\ m \notin 0 .. n BY <2>3
      <4> QED BY <2>3, <4>1
    <3>2. 0 .. n \in SUBSET Nat /\ 0 .. m \in SUBSET Nat
      OBVIOUS
    <3> QED BY <2>2, <3>1, <3>2 DEF StrictSubsetOrdering
  <2> QED BY <2>3
<1> QED BY <1>6

\* Induction, for a set of naturals: what holds for every element of a set that
\* has 0, and with each number the next, holds for all naturals.
LEMMA Induction ==
  ASSUME NEW S \in SUBSET Nat, 0 \in S, \A n \in S : n + 1 \in S
  PROVE  S = Nat
<1> SUFFICES ASSUME Nat \ S # {} PROVE FALSE
  OBVIOUS
<1>1. PICK m \in Nat \ S : \A n \in Nat \ S : m <= n
  BY LeastElement
<1>2. m # 0 /\ m - 1 \in Nat
  OBVIOUS
<1>3. m - 1 \in S
  BY <1>1, <1>2
<1> QED BY <1>2, <1>3

-----------------------------------------------------------------------------
(* The forest. *)

LEMMA TreeInitInv == TreeInit => TreeInv
  BY NullAssumption DEF TreeInit, TreeInv, TreeTypeOK, Active

LEMMA BeginRootInv ==
  ASSUME TreeInv, NEW a \in Activities, NEW k \in Kinds, BeginRoot(a, k)
  PROVE  /\ TreeInv'
         /\ Active' = Active \cup {a}
         /\ a \notin Active
<1>1. k # Null
  BY NullAssumption
<1>2. Active' = Active \cup {a} /\ a \notin Active
  BY <1>1 DEF TreeInv, TreeTypeOK, BeginRoot, Active
<1>3. TreeTypeOK'
  BY NullAssumption DEF TreeInv, TreeTypeOK, BeginRoot
<1>4. /\ \A b \in Active : b # a /\ a \notin stack[b]
      /\ parent[a] = Null
  BY <1>2 DEF TreeInv
<1>5. /\ stack'[a] = {a}
      /\ parent' = parent
      /\ \A b \in Activities \ {a} : stack'[b] = stack[b]
  BY DEF TreeInv, TreeTypeOK, BeginRoot
<1> QED
  BY <1>2, <1>3, <1>4, <1>5 DEF TreeInv, Active

LEMMA BeginNestedInv ==
  ASSUME TreeInv, NEW a \in Activities, NEW p \in Activities, NEW k \in Kinds,
         BeginNested(a, p, k)
  PROVE  /\ TreeInv'
         /\ Active' = Active \cup {a}
         /\ a \notin Active
         /\ p \in Active
<1>1. k # Null
  BY NullAssumption
<1>2. Active' = Active \cup {a} /\ a \notin Active /\ p \in Active
  BY <1>1 DEF TreeInv, TreeTypeOK, BeginNested, Active
<1>3. TreeTypeOK'
  BY DEF TreeInv, TreeTypeOK, BeginNested
<1>4. /\ \A b \in Active : b # a /\ a \notin stack[b]
      /\ a # p
  BY <1>2 DEF TreeInv
<1>5. /\ stack'[a] = stack[p] \cup {a}
      /\ parent'[a] = p
      /\ \A b \in Activities \ {a} : stack'[b] = stack[b] /\ parent'[b] = parent[b]
  BY DEF TreeInv, TreeTypeOK, BeginNested
<1>6. p # Null
  BY NullAssumption
<1>7. /\ p \in stack[p]
      /\ \A x \in stack[p] : x \in Active /\ stack[x] \subseteq stack[p]
      /\ \A x \in stack[p] \ {p} : \E c \in stack[p] : parent[c] = x
  BY <1>2 DEF TreeInv
<1>8. \A b \in Activities \ Active' : parent'[b] = Null /\ stack'[b] = {}
  BY <1>2, <1>5 DEF TreeInv
<1>9. \A b \in Active' : b \in stack'[b]
  BY <1>2, <1>5 DEF TreeInv, Active
<1>10. \A b \in Active' : parent'[b] = Null => stack'[b] = {b}
  BY <1>2, <1>5, <1>6 DEF TreeInv, Active
<1>11. \A b \in Active' : parent'[b] # Null =>
         /\ parent'[b] \in Active'
         /\ stack'[b] = stack'[parent'[b]] \cup {b}
         /\ b \notin stack'[parent'[b]]
  <2> TAKE b \in Active'
  <2>1. CASE b = a
    BY <2>1, <1>2, <1>4, <1>5
  <2>2. CASE b # a
    <3>1. parent[b] # Null => parent[b] \in Active /\ parent[b] # a
      BY <2>2, <1>2, <1>4 DEF TreeInv
    <3> QED BY <2>2, <3>1, <1>2, <1>5 DEF TreeInv, TreeTypeOK, Active
  <2> QED BY <2>1, <2>2
<1>12. \A b \in Active' : \A x \in stack'[b] : x \in Active' /\ stack'[x] \subseteq stack'[b]
  <2> TAKE b \in Active'
  <2> TAKE x \in stack'[b]
  <2>1. CASE b = a
    BY <2>1, <1>2, <1>4, <1>5, <1>7 DEF Active
  <2>2. CASE b # a
    <3>1. b \in Active /\ stack'[b] = stack[b]
      BY <2>2, <1>2, <1>5 DEF Active
    <3>2. x \in Active /\ stack[x] \subseteq stack[b] /\ x # a
      BY <3>1, <1>4 DEF TreeInv
    <3> QED BY <3>1, <3>2, <1>2, <1>5 DEF Active
  <2> QED BY <2>1, <2>2
<1>13. \A b \in Active' : \A x \in stack'[b] \ {b} :
         /\ b \notin stack'[x]
         /\ \E c \in stack'[b] : parent'[c] = x
  <2> TAKE b \in Active'
  <2> TAKE x \in stack'[b] \ {b}
  <2>1. CASE b = a
    <3>1. x \in stack[p] /\ x \in Active /\ x # a
      BY <2>1, <1>5, <1>7, <1>4
    <3>2. a \notin stack'[x]
      BY <3>1, <1>4, <1>5 DEF Active
    <3>3. CASE x = p
      BY <3>2, <3>3, <2>1, <1>5
    <3>4. CASE x # p
      <4>1. PICK c \in stack[p] : parent[c] = x
        BY <3>1, <3>4, <1>7
      <4>2. c \in Active /\ c # a
        BY <4>1, <1>7, <1>4
      <4> QED BY <4>1, <4>2, <3>2, <2>1, <1>5 DEF Active
    <3> QED BY <3>3, <3>4
  <2>2. CASE b # a
    <3>1. b \in Active /\ stack'[b] = stack[b]
      BY <2>2, <1>2, <1>5 DEF Active
    <3>2. x \in Active /\ x # a /\ b \notin stack[x]
      BY <3>1, <1>4 DEF TreeInv
    <3>3. PICK c \in stack[b] : parent[c] = x
      BY <3>1 DEF TreeInv
    <3>4. c \in Active /\ c # a
      BY <3>1, <3>3, <1>4 DEF TreeInv
    <3> QED BY <3>1, <3>2, <3>3, <3>4, <1>5 DEF Active
  <2> QED BY <2>1, <2>2
<1> QED
  BY <1>2, <1>3, <1>8, <1>9, <1>10, <1>11, <1>12, <1>13 DEF TreeInv

LEMMA EndInv ==
  ASSUME TreeInv, NEW a \in Activities, End(a)
  PROVE  /\ TreeInv'
         /\ Active' = Active \ {a}
         /\ a \in Active
         /\ \A b \in Active \ {a} : a \notin stack[b] /\ parent[b] # a
<1>1. Active' = Active \ {a} /\ a \in Active
  BY DEF TreeInv, TreeTypeOK, End, Active
<1>2. TreeTypeOK'
  BY DEF TreeInv, TreeTypeOK, End
<1>3. \A b \in Active \ {a} : a \notin stack[b] /\ parent[b] # a
  BY DEF TreeInv, TreeTypeOK, End, Children, Active
<1>4. /\ stack'[a] = {}
      /\ parent'[a] = Null
      /\ \A b \in Activities \ {a} : stack'[b] = stack[b] /\ parent'[b] = parent[b]
  BY DEF TreeInv, TreeTypeOK, End
<1>5. \A b \in Active' : \A x \in stack'[b] \ {b} :
         /\ b \notin stack'[x]
         /\ \E c \in stack'[b] : parent'[c] = x
  <2> TAKE b \in Active'
  <2> TAKE x \in stack'[b] \ {b}
  <2>1. b \in Active /\ b # a /\ stack'[b] = stack[b]
    BY <1>1, <1>4 DEF Active
  <2>2. x \in Active /\ x # a /\ b \notin stack[x]
    BY <2>1, <1>3 DEF TreeInv
  <2>3. PICK c \in stack[b] : parent[c] = x
    BY <2>1 DEF TreeInv
  <2>4. c \in Active /\ c # a
    BY <2>1, <2>3, <1>3 DEF TreeInv
  <2> QED BY <2>1, <2>2, <2>3, <2>4, <1>4 DEF Active
<1>6. \A b \in Active' : \A x \in stack'[b] : x \in Active' /\ stack'[x] \subseteq stack'[b]
  <2> TAKE b \in Active'
  <2> TAKE x \in stack'[b]
  <2>1. b \in Active /\ b # a /\ stack'[b] = stack[b]
    BY <1>1, <1>4 DEF Active
  <2>2. x \in Active /\ x # a /\ stack[x] \subseteq stack[b]
    BY <2>1, <1>3 DEF TreeInv
  <2> QED BY <2>1, <2>2, <1>1, <1>4 DEF Active
<1>7. \A b \in Active' : parent'[b] # Null =>
         /\ parent'[b] \in Active'
         /\ stack'[b] = stack'[parent'[b]] \cup {b}
         /\ b \notin stack'[parent'[b]]
  BY <1>1, <1>3, <1>4 DEF TreeInv, TreeTypeOK, Active
<1>8. /\ \A b \in Activities \ Active' : parent'[b] = Null /\ stack'[b] = {}
      /\ \A b \in Active' : b \in stack'[b]
      /\ \A b \in Active' : parent'[b] = Null => stack'[b] = {b}
  BY <1>1, <1>4 DEF TreeInv, Active
<1> QED
  BY <1>1, <1>2, <1>3, <1>5, <1>6, <1>7, <1>8 DEF TreeInv

=============================================================================
