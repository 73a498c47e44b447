-------------------------- MODULE TimeTraceProofs ---------------------------
(***************************************************************************)
(* The entries of the time trace form a forest whatever is filtered out,   *)
(* in any trace, with any filter and any number of activities.             *)
(***************************************************************************)
EXTENDS TimeTrace, ActivityTreeProofs, FiniteSetTheorems

USE NullAssumption, NestingAssumption

-----------------------------------------------------------------------------
(* Sequences of pointers. *)

OneToOne(s) == \A i, j \in DOMAIN s : s[i] = s[j] => i = j

LEMMA AppendFacts ==
  ASSUME NEW S, NEW s \in Seq(S), NEW x \in S
  PROVE  /\ Append(s, x) \in Seq(S)
         /\ Elements(Append(s, x)) = Elements(s) \cup {x}
         /\ OneToOne(s) /\ x \notin Elements(s) => OneToOne(Append(s, x))
         /\ DOMAIN Append(s, x) = DOMAIN s \cup {Len(s) + 1}
         /\ \A i \in DOMAIN s : Append(s, x)[i] = s[i] /\ i < Len(s) + 1
         /\ Append(s, x)[Len(s) + 1] = x
<1> DEFINE n == Len(s) + 1
           t == Append(s, x)
<1>1. /\ Len(s) \in Nat /\ DOMAIN s = 1 .. Len(s)
      /\ t \in Seq(S) /\ Len(t) = n /\ DOMAIN t = 1 .. n
      /\ t[n] = x
      /\ \A i \in 1 .. Len(s) : t[i] = s[i]
  OBVIOUS
<1> HIDE DEF t
<1>2. DOMAIN t = DOMAIN s \cup {n} /\ \A i \in DOMAIN s : i < n
  BY <1>1
<1>3. Elements(t) = Elements(s) \cup {x}
  BY <1>1, <1>2 DEF Elements
<1>4. OneToOne(s) /\ x \notin Elements(s) => OneToOne(t)
  BY <1>1, <1>2 DEF Elements, OneToOne
<1> QED BY <1>1, <1>2, <1>3, <1>4 DEF t

\* What is left of a sequence is in the same order.
LEMMA WithoutFacts ==
  ASSUME NEW S, NEW s \in Seq(S), OneToOne(s), NEW x \in Elements(s)
  PROVE  /\ Without(s, x) \in Seq(S)
         /\ Elements(Without(s, x)) = Elements(s) \ {x}
         /\ OneToOne(Without(s, x))
         /\ \A i, j \in DOMAIN Without(s, x) : i < j =>
              \E k, l \in DOMAIN s : /\ k < l
                                     /\ Without(s, x)[i] = s[k]
                                     /\ Without(s, x)[j] = s[l]
<1> DEFINE first == CHOOSE i \in DOMAIN s : s[i] = x /\ \A j \in 1 .. i - 1 : s[j] # x
           t == [i \in 1 .. Len(s) - 1 |-> IF i < first THEN s[i] ELSE s[i + 1]]
           old(i) == IF i < first THEN i ELSE i + 1
<1>1. Len(s) \in Nat /\ DOMAIN s = 1 .. Len(s) /\ \A i \in DOMAIN s : s[i] \in S
  OBVIOUS
<1>2. first \in DOMAIN s /\ s[first] = x
  <2>1. PICK i \in DOMAIN s : s[i] = x
    BY DEF Elements
  <2>2. \A j \in 1 .. i - 1 : s[j] # x
    BY <1>1, <2>1 DEF OneToOne
  <2> QED BY <2>1, <2>2
<1>3. Without(s, x) = t
  BY DEF Without
<1> HIDE DEF first
<1>4. DOMAIN t = 1 .. Len(s) - 1 /\ Len(s) - 1 \in Nat
  BY <1>1, <1>2
<1>5. \A i \in DOMAIN t : /\ old(i) \in DOMAIN s /\ t[i] = s[old(i)] /\ old(i) # first
  BY <1>1, <1>2, <1>4
<1>6. \A i, j \in DOMAIN t : i < j => old(i) < old(j)
  BY <1>1, <1>2, <1>4
<1>7. \A k \in DOMAIN s \ {first} : \E i \in DOMAIN t : old(i) = k
  <2> TAKE k \in DOMAIN s \ {first}
  <2>1. CASE k < first
    BY <2>1, <1>1, <1>2, <1>4
  <2>2. CASE k > first
    <3>1. k - 1 \in DOMAIN t /\ old(k - 1) = k
      BY <2>2, <1>1, <1>2, <1>4
    <3> QED BY <3>1
  <2> QED BY <2>1, <2>2, <1>1, <1>2
<1>8. t \in Seq(S)
  <2>1. t \in [1 .. Len(s) - 1 -> S]
    BY <1>1, <1>4, <1>5
  <2> HIDE DEF t
  <2> QED BY <2>1, <1>4
<1> HIDE DEF t, old
<1>9. Elements(t) = Elements(s) \ {x}
  <2>1. \A i \in DOMAIN t : t[i] \in Elements(s) \ {x}
    BY <1>2, <1>5 DEF Elements, OneToOne
  <2>2. \A k \in DOMAIN s : s[k] # x => s[k] \in Elements(t)
    BY <1>2, <1>5, <1>7 DEF Elements
  <2> QED BY <2>1, <2>2 DEF Elements
<1>10. OneToOne(t)
  <2>1. \A i, j \in DOMAIN t : old(i) = old(j) => i = j
    BY <1>1, <1>2, <1>4 DEF old
  <2> QED BY <2>1, <1>5 DEF OneToOne
<1>11. ASSUME NEW i \in DOMAIN t, NEW j \in DOMAIN t, i < j
       PROVE  \E k, l \in DOMAIN s : k < l /\ t[i] = s[k] /\ t[j] = s[l]
  <2>1. old(i) \in DOMAIN s /\ old(j) \in DOMAIN s /\ old(i) < old(j)
    BY <1>5, <1>6, <1>11
  <2>2. t[i] = s[old(i)] /\ t[j] = s[old(j)]
    BY <1>5
  <2> QED BY <2>1, <2>2
<1> QED BY <1>3, <1>8, <1>9, <1>10, <1>11

-----------------------------------------------------------------------------
(* Entries, and what is below them. *)

Entrylike == [Activities -> Entry \cup {Null}]

\* The entries with a pointer to the entry of c.
Parents(es, c) == {p \in Activities : es[p] # Null /\ c \in ChildrenOf(es, p)}

\* Roots have no parent, every other entry has one, and nothing points to an
\* erased entry, or twice to one.
Forest(es, rs) ==
  /\ \A r \in Elements(rs) : es[r] # Null /\ Parents(es, r) = {}
  /\ OneToOne(rs)
  /\ \A p \in Activities : es[p] # Null => OneToOne(es[p].Children)
  /\ \A c \in Activities : Parents(es, c) # {} => es[c] # Null
  /\ \A c \in Activities : \A p, q \in Parents(es, c) : p = q
  /\ \A a \in Activities : es[a] # Null /\ a \notin Elements(rs) => Parents(es, a) # {}

LEMMA EntryFacts ==
  ASSUME NEW es \in Entrylike, NEW p \in Activities, es[p] # Null
  PROVE  /\ es[p] \in Entry
         /\ es[p].StartTimestamp \in 0 .. MaxClock
         /\ es[p].StopTimestamp \in 0 .. MaxClock
         /\ es[p].Name \in Kinds \cup SymbolKeys
         /\ es[p].Children \in Seq(Activities)
         /\ ChildrenOf(es, p) \subseteq Activities
<1>1. es[p] \in Entry
  BY DEF Entrylike
<1>2. es[p].Children \in Seq(Activities)
  BY <1>1 DEF Entry
<1>3. ChildrenOf(es, p) \subseteq Activities
  BY <1>2 DEF ChildrenOf, Elements
<1> QED BY <1>1, <1>2, <1>3 DEF Entry

\* Something below a, other than a itself, is below a with its parent.
LEMMA SubtreeFacts ==
  ASSUME NEW es \in Entrylike, NEW rs, Forest(es, rs), NEW a \in Activities
  PROVE  /\ a \in Subtree(es, a)
         /\ Subtree(es, a) \subseteq Activities
         /\ \A c \in Activities \ {a} : \A p \in Parents(es, c) :
              p \in Subtree(es, a) <=> c \in Subtree(es, a)
         /\ \A c \in Activities \ {a} : Parents(es, c) = {} => c \notin Subtree(es, a)
<1> DEFINE Sub == Subtree(es, a)
           Closed(S) == a \in S /\ \A y \in S : es[y] # Null => ChildrenOf(es, y) \subseteq S
<1>1. /\ Sub \subseteq Activities
      /\ \A S \in SUBSET Activities : Closed(S) => Sub \subseteq S
      /\ \A x \in Activities : (\A S \in SUBSET Activities : Closed(S) => x \in S) => x \in Sub
  BY DEF Subtree
<1>2. a \in Sub
  BY <1>1
<1>3. \A y \in Sub : es[y] # Null => ChildrenOf(es, y) \subseteq Sub
  <2> SUFFICES ASSUME NEW y \in Sub, es[y] # Null, NEW c \in ChildrenOf(es, y)
               PROVE  c \in Sub
    OBVIOUS
  <2>1. c \in Activities
    BY <1>1, EntryFacts
  <2>2. ASSUME NEW S \in SUBSET Activities, Closed(S) PROVE c \in S
    BY <2>2, <1>1
  <2> QED BY <2>1, <2>2, <1>1
<1> HIDE DEF Sub
<1>4. ASSUME NEW c \in Activities \ {a}, c \in Sub, \A y \in Sub : y \notin Parents(es, c)
      PROVE  FALSE
  <2>1. Closed(Sub \ {c})
    <3> SUFFICES ASSUME NEW y \in Sub \ {c}, es[y] # Null PROVE c \notin ChildrenOf(es, y)
      BY <1>2, <1>3
    <3> QED BY <1>1, <1>4 DEF Parents
  <2> QED BY <2>1, <1>1, <1>4
<1>5. ASSUME NEW c \in Activities \ {a}, NEW p \in Parents(es, c)
      PROVE  p \in Sub <=> c \in Sub
  <2>1. p \in Sub => c \in Sub
    BY <1>3 DEF Parents
  <2>2. c \in Sub => p \in Sub
    <3>1. \A q \in Parents(es, c) : q = p
      BY DEF Forest
    <3> QED BY <3>1, <1>4
  <2> QED BY <2>1, <2>2
<1>6. ASSUME NEW c \in Activities \ {a}, Parents(es, c) = {} PROVE c \notin Sub
  BY <1>4, <1>6
<1> QED BY <1>1, <1>2, <1>5, <1>6 DEF Sub

\* Times and names do not matter.
LEMMA SameForest ==
  ASSUME NEW es \in Entrylike, NEW fs \in Entrylike,
         NEW rs \in Seq(Activities), Forest(es, rs),
         \A x \in Activities : es[x] = Null <=> fs[x] = Null,
         \A x \in Activities : es[x] # Null => fs[x].Children = es[x].Children
  PROVE  Forest(fs, rs) /\ \A c : Parents(fs, c) = Parents(es, c)
<1>1. \A c : Parents(fs, c) = Parents(es, c)
  BY DEF Parents, ChildrenOf
<1>2. \A x \in Activities : fs[x] # Null => es[x] # Null /\ fs[x].Children = es[x].Children
  OBVIOUS
<1>3. \A r \in Elements(rs) : r \in Activities
  BY DEF Elements
<1> QED BY <1>1, <1>2, <1>3 DEF Forest

-----------------------------------------------------------------------------
(* How the handlers change the entries. *)

NewEntry(e) == e \in Entry /\ e.Children = <<>>

WithRoot(es, a, e) == [es EXCEPT ![a] = e]
WithChild(es, p, a, e) == [es EXCEPT ![p].Children = Append(@, a), ![a] = e]

LEMMA AddRootForest ==
  ASSUME NEW es \in Entrylike, NEW rs \in Seq(Activities), Forest(es, rs),
         NEW a \in Activities, es[a] = Null, NEW e, NewEntry(e)
  PROVE  /\ WithRoot(es, a, e) \in Entrylike
         /\ Append(rs, a) \in Seq(Activities)
         /\ Forest(WithRoot(es, a, e), Append(rs, a))
         /\ \A c : Parents(WithRoot(es, a, e), c) = Parents(es, c)
<1> DEFINE fs == WithRoot(es, a, e)
           ss == Append(rs, a)
<1>1. /\ fs \in Entrylike
      /\ fs[a] = e /\ \A x \in Activities \ {a} : fs[x] = es[x]
  BY DEF Entrylike, NewEntry, WithRoot
<1> HIDE DEF fs
<1>2. e # Null /\ ChildrenOf(fs, a) = {} /\ OneToOne(fs[a].Children)
  BY <1>1, NoEntryAssumption DEF NewEntry, ChildrenOf, Elements, OneToOne
<1>3. \A x \in Activities \ {a} : ChildrenOf(fs, x) = ChildrenOf(es, x)
  BY <1>1 DEF ChildrenOf
<1>4. \A c : Parents(fs, c) = Parents(es, c)
  BY <1>1, <1>2, <1>3 DEF Parents
<1>5. Parents(es, a) = {}
  BY DEF Forest
<1>6. a \notin Elements(rs)
  BY DEF Forest
<1>7. ss \in Seq(Activities) /\ Elements(ss) = Elements(rs) \cup {a} /\ OneToOne(ss)
  BY <1>6, AppendFacts DEF Forest
<1>8. Elements(rs) \subseteq Activities
  BY DEF Elements
<1> HIDE DEF ss
<1>9. \A r \in Elements(ss) : fs[r] # Null /\ Parents(fs, r) = {}
  BY <1>1, <1>2, <1>4, <1>5, <1>7, <1>8 DEF Forest
<1>10. \A p \in Activities : fs[p] # Null => OneToOne(fs[p].Children)
  BY <1>1, <1>2 DEF Forest
<1>11. \A c \in Activities : Parents(fs, c) # {} => fs[c] # Null
  BY <1>1, <1>2, <1>4 DEF Forest
<1>12. \A c \in Activities : \A p, q \in Parents(fs, c) : p = q
  BY <1>4 DEF Forest
<1>13. \A x \in Activities : fs[x] # Null /\ x \notin Elements(ss) => Parents(fs, x) # {}
  BY <1>1, <1>4, <1>7 DEF Forest
<1>14. Forest(fs, ss)
  BY <1>7, <1>9, <1>10, <1>11, <1>12, <1>13 DEF Forest
<1> QED BY <1>1, <1>4, <1>7, <1>14 DEF fs, ss

LEMMA AddChildForest ==
  ASSUME NEW es \in Entrylike, NEW rs \in Seq(Activities), Forest(es, rs),
         NEW a \in Activities, es[a] = Null, NEW e, NewEntry(e),
         NEW p \in Activities, es[p] # Null
  PROVE  LET fs == WithChild(es, p, a, e) IN
         /\ fs \in Entrylike
         /\ Forest(fs, rs)
         /\ \A c : c # a => Parents(fs, c) = Parents(es, c)
         /\ Parents(fs, a) = {p}
         /\ fs[a] = e
         /\ fs[p].Children = Append(es[p].Children, a)
         /\ fs[p].StartTimestamp = es[p].StartTimestamp
         /\ fs[p].StopTimestamp = es[p].StopTimestamp
         /\ fs[p].Name = es[p].Name
         /\ \A x \in Activities \ {a, p} : fs[x] = es[x]
<1> DEFINE fs == WithChild(es, p, a, e)
<1>0. a # p
  OBVIOUS
<1>1. es[p] \in Entry /\ es[p].Children \in Seq(Activities)
  BY EntryFacts
<1>2. a \notin ChildrenOf(es, p) /\ Parents(es, a) = {}
  BY DEF Forest, Parents
<1>3. /\ Append(es[p].Children, a) \in Seq(Activities)
      /\ Elements(Append(es[p].Children, a)) = Elements(es[p].Children) \cup {a}
      /\ OneToOne(Append(es[p].Children, a))
  BY <1>1, <1>2, AppendFacts DEF Forest, ChildrenOf
<1>4. /\ fs[a] = e
      /\ fs[p] = [es[p] EXCEPT !.Children = Append(es[p].Children, a)]
      /\ \A x \in Activities \ {a, p} : fs[x] = es[x]
      /\ fs = [x \in Activities |-> fs[x]]
  BY <1>0 DEF Entrylike, WithChild
<1> HIDE DEF fs
<1>5. /\ fs[p] \in Entry /\ fs[p].Children = Append(es[p].Children, a)
      /\ fs[p].StartTimestamp = es[p].StartTimestamp
      /\ fs[p].StopTimestamp = es[p].StopTimestamp
      /\ fs[p].Name = es[p].Name
  BY <1>1, <1>3, <1>4 DEF Entry
<1>6. fs \in Entrylike
  <2>1. \A x \in Activities : fs[x] \in Entry \cup {Null}
    BY <1>4, <1>5 DEF NewEntry, Entrylike
  <2> QED BY <1>4, <2>1 DEF Entrylike
<1>7. /\ fs[a] # Null /\ fs[p] # Null
      /\ \A x \in Activities \ {a} : fs[x] = Null <=> es[x] = Null
  BY <1>4, <1>5, NoEntryAssumption DEF NewEntry
<1>8. /\ ChildrenOf(fs, a) = {} /\ OneToOne(fs[a].Children)
      /\ ChildrenOf(fs, p) = ChildrenOf(es, p) \cup {a}
      /\ \A x \in Activities \ {a, p} : ChildrenOf(fs, x) = ChildrenOf(es, x)
  <2>1. ChildrenOf(fs, a) = {} /\ OneToOne(fs[a].Children)
    BY <1>4 DEF NewEntry, ChildrenOf, Elements, OneToOne
  <2>2. ChildrenOf(fs, p) = ChildrenOf(es, p) \cup {a}
    BY <1>3, <1>5 DEF ChildrenOf
  <2>3. \A x \in Activities \ {a, p} : ChildrenOf(fs, x) = ChildrenOf(es, x)
    BY <1>4 DEF ChildrenOf
  <2> QED BY <2>1, <2>2, <2>3
<1>9. /\ \A c : c # a => Parents(fs, c) = Parents(es, c)
      /\ Parents(fs, a) = {p}
  BY <1>0, <1>2, <1>7, <1>8 DEF Parents
<1>10. Elements(rs) \subseteq Activities /\ a \notin Elements(rs)
  BY DEF Elements, Forest
<1>11. \A r \in Elements(rs) : fs[r] # Null /\ Parents(fs, r) = {}
  BY <1>7, <1>9, <1>10 DEF Forest
<1>12. \A q \in Activities : fs[q] # Null => OneToOne(fs[q].Children)
  BY <1>3, <1>4, <1>5, <1>8 DEF Forest
<1>13. \A c \in Activities : Parents(fs, c) # {} => fs[c] # Null
  BY <1>7, <1>9 DEF Forest
<1>14. \A c \in Activities : \A q, r \in Parents(fs, c) : q = r
  BY <1>9 DEF Forest
<1>15. \A x \in Activities : fs[x] # Null /\ x \notin Elements(rs) => Parents(fs, x) # {}
  BY <1>7, <1>9 DEF Forest
<1>16. Forest(fs, rs)
  BY <1>11, <1>12, <1>13, <1>14, <1>15 DEF Forest
<1> QED BY <1>4, <1>5, <1>6, <1>9, <1>16 DEF fs

\* Erasing an entry that has a parent, with everything below it.
LEMMA IgnoreForest ==
  ASSUME NEW es \in Entrylike, NEW rs \in Seq(Activities), Forest(es, rs),
         NEW a \in Activities, NEW p \in Parents(es, a), p \notin Subtree(es, a)
  PROVE  LET fs == IgnoreEntry(es, a, p) IN
         /\ fs \in Entrylike
         /\ Forest(fs, rs)
         /\ \A x \in Subtree(es, a) : fs[x] = Null
         /\ fs[p] = [es[p] EXCEPT !.Children = Without(es[p].Children, a)]
         /\ \A x \in Activities \ Subtree(es, a) : x # p => fs[x] = es[x]
         /\ \A c \in Activities \ Subtree(es, a) : Parents(fs, c) = Parents(es, c)
<1> DEFINE fs == IgnoreEntry(es, a, p)
           kept == Without(es[p].Children, a)
<1>0. p \in Activities /\ es[p] # Null /\ a \in ChildrenOf(es, p)
  BY DEF Parents
<1>1. es[p] \in Entry /\ es[p].Children \in Seq(Activities)
  BY <1>0, EntryFacts
<1>2. /\ kept \in Seq(Activities)
      /\ Elements(kept) = Elements(es[p].Children) \ {a}
      /\ OneToOne(kept)
  BY <1>0, <1>1, WithoutFacts DEF Forest, ChildrenOf
<1> DEFINE Sub == Subtree(es, a)
<1>3. /\ a \in Sub /\ Sub \subseteq Activities
      /\ \A c \in Activities \ {a} : \A q \in Parents(es, c) : q \in Sub <=> c \in Sub
      /\ \A c \in Activities \ {a} : Parents(es, c) = {} => c \notin Sub
  BY SubtreeFacts
<1>4. /\ \A x \in Sub : fs[x] = Null
      /\ fs[p] = [es[p] EXCEPT !.Children = kept]
      /\ \A x \in Activities \ Sub : x # p => fs[x] = es[x]
  BY <1>0, <1>3 DEF IgnoreEntry
<1>5. DOMAIN fs = Activities /\ fs = [x \in Activities |-> fs[x]]
  BY DEF IgnoreEntry
<1>6. p \notin Sub
  OBVIOUS
<1> HIDE DEF fs, kept, Sub
<1>7. fs[p] \in Entry /\ fs[p].Children = kept
  BY <1>1, <1>2, <1>4 DEF Entry
<1>8. fs \in Entrylike
  <2>1. \A x \in Activities : fs[x] \in Entry \cup {Null}
    BY <1>4, <1>7 DEF Entrylike
  <2> QED BY <2>1, <1>5 DEF Entrylike
<1>9. /\ fs[p] # Null
      /\ \A x \in Activities \ Sub : fs[x] = Null <=> es[x] = Null
  BY <1>0, <1>4, <1>7, NoEntryAssumption
<1>10. /\ ChildrenOf(fs, p) = ChildrenOf(es, p) \ {a}
       /\ \A x \in Activities \ Sub : x # p => ChildrenOf(fs, x) = ChildrenOf(es, x)
  BY <1>2, <1>4, <1>7 DEF ChildrenOf
<1>11. \A c \in Activities : \A q : q \in Parents(fs, c) <=>
         /\ q \in Parents(es, c) /\ q \notin Sub
         /\ q = p => c # a
  BY <1>0, <1>4, <1>9, <1>10 DEF Parents
<1>12. \A c \in Sub : Parents(fs, c) = {}
  <2> SUFFICES ASSUME NEW c \in Sub, NEW q \in Parents(fs, c) PROVE FALSE
    OBVIOUS
  <2>1. q \in Parents(es, c) /\ q \notin Sub /\ (q = p => c # a)
    BY <1>3, <1>11
  <2>2. CASE c = a
    BY <2>1, <2>2 DEF Forest
  <2>3. CASE c # a
    BY <2>1, <2>3, <1>3
  <2> QED BY <2>2, <2>3
<1>13. \A c \in Activities \ Sub : Parents(fs, c) = Parents(es, c)
  <2> TAKE c \in Activities \ Sub
  <2>1. c # a /\ \A q \in Parents(es, c) : q \notin Sub
    BY <1>3
  <2>2. \A q : q \in Parents(fs, c) <=> q \in Parents(es, c)
    BY <2>1, <1>11
  <2> QED BY <2>2
<1>14. Elements(rs) \subseteq Activities /\ \A r \in Elements(rs) : r \notin Sub
  <2>1. Elements(rs) \subseteq Activities
    BY DEF Elements
  <2>2. a \notin Elements(rs)
    BY DEF Forest
  <2> QED BY <2>1, <2>2, <1>3 DEF Forest
<1>15. \A r \in Elements(rs) : fs[r] # Null /\ Parents(fs, r) = {}
  BY <1>9, <1>13, <1>14 DEF Forest
<1>16. \A q \in Activities : fs[q] # Null => OneToOne(fs[q].Children)
  <2> TAKE q \in Activities
  <2> HAVE fs[q] # Null
  <2>1. q \notin Sub
    BY <1>4
  <2> QED BY <2>1, <1>2, <1>4, <1>7, <1>9 DEF Forest
<1>17. \A c \in Activities : Parents(fs, c) # {} => fs[c] # Null
  BY <1>9, <1>12, <1>13 DEF Forest
<1>18. \A c \in Activities : \A q, r \in Parents(fs, c) : q = r
  BY <1>12, <1>13 DEF Forest
<1>19. \A x \in Activities : fs[x] # Null /\ x \notin Elements(rs) => Parents(fs, x) # {}
  BY <1>4, <1>9, <1>13 DEF Forest
<1>20. Forest(fs, rs)
  BY <1>15, <1>16, <1>17, <1>18, <1>19 DEF Forest
<1> QED BY <1>4, <1>8, <1>13, <1>20 DEF fs, kept, Sub

-----------------------------------------------------------------------------
(* The inductive invariant. *)

IdsInv ==
  /\ Active \subseteq started
  /\ Entries \subseteq started
  /\ \A key \in SymbolKeys : unresolvedTemplateInstantiationsPerSymbol_[key] \subseteq started

ForestInv == Forest(entries_, roots_)

KeptInv ==
  \A a \in Active :
    /\ a \in Entries
    /\ IF parent[a] = Null THEN a \in Elements(roots_) ELSE parent[a] \in Parents(entries_, a)

InOrder(es, s) ==
  \A i, j \in DOMAIN s : i < j => es[s[i]].StartTimestamp <= es[s[j]].StartTimestamp

TimesInv ==
  /\ \A a \in Entries :
       entries_[a].StartTimestamp <= clock /\ entries_[a].StopTimestamp <= clock
  /\ InOrder(entries_, roots_)
  /\ \A p \in Entries : InOrder(entries_, entries_[p].Children)
  /\ \A c \in Activities : \A p \in Parents(entries_, c) :
       /\ entries_[p].StartTimestamp <= entries_[c].StartTimestamp
       /\ p \notin Active => entries_[c].StopTimestamp <= entries_[p].StopTimestamp

\* A specialization is not named before its instantiations have stopped, and an
\* entry whose name is to come is still waiting for it.
NamesInv ==
  /\ \A a \in Active :
       /\ symbolKey[a] # Null <=> kind[a] = "TemplateInstantiation"
       /\ symbolKey[a] # Null => parent[a] # Null
       /\ symbolKey[a] \notin symbolNames_
  /\ \A a \in Entries \ Active :
       symbolKey[a] \in SymbolKeys \ symbolNames_ =>
         a \in unresolvedTemplateInstantiationsPerSymbol_[symbolKey[a]]
  /\ \A key \in SymbolKeys :
       \A a \in unresolvedTemplateInstantiationsPerSymbol_[key] : symbolKey[a] = key
  /\ NamesResolved

HierarchyInv ==
  /\ HierarchyTypeOK /\ TreeInv /\ IdsInv
  /\ ForestInv /\ KeptInv /\ TimesInv /\ NamesInv

LEMMA TypeFacts ==
  ASSUME HierarchyTypeOK
  PROVE  /\ entries_ \in Entrylike
         /\ roots_ \in Seq(Activities)
         /\ Elements(roots_) \subseteq Activities
         /\ clock \in 0 .. MaxClock /\ MaxClock \in Nat
         /\ Entries \subseteq Activities
         /\ Active \subseteq Activities
  BY FilterAssumption DEF HierarchyTypeOK, Entrylike, Entries, Active, Elements

LEMMA HierarchyInitInv == HierarchyInit => HierarchyInv
<1> SUFFICES ASSUME HierarchyInit PROVE HierarchyInv
  OBVIOUS
<1>1. TreeInv
  BY TreeInitInv DEF HierarchyInit
<1>2. Active = {} /\ Entries = {} /\ roots_ = <<>>
  BY DEF HierarchyInit, TreeInit, Active, Entries
<1>3. HierarchyTypeOK
  BY <1>1, FilterAssumption DEF TreeInv, HierarchyInit, HierarchyTypeOK
<1>4. \A c : Parents(entries_, c) = {}
  BY DEF Parents, HierarchyInit
<1>5. ForestInv
  BY <1>2, <1>4 DEF ForestInv, Forest, Elements, OneToOne, HierarchyInit
<1>6. IdsInv
  BY <1>2 DEF IdsInv, HierarchyInit
<1>7. KeptInv
  BY <1>2 DEF KeptInv
<1>8. TimesInv
  BY <1>2, <1>4 DEF TimesInv, InOrder
<1>9. NamesInv
  BY <1>2 DEF NamesInv, NamesResolved, HierarchyInit
<1> QED BY <1>1, <1>3, <1>5, <1>6, <1>7, <1>8, <1>9 DEF HierarchyInv

-----------------------------------------------------------------------------
(* An activity starts. *)

\* What is the same for roots and the other activities.
LEMMA AnnounceFacts ==
  ASSUME HierarchyInv, NEW a \in Activities, NEW k \in Kinds, NEW key \in Keys,
         Announce(a, k, key)
  PROVE  /\ a \notin started /\ a \notin Active /\ a \notin Entries /\ entries_[a] = Null
         /\ started' = started \cup {a} /\ clock' = clock
         /\ symbolKey'[a] = key
         /\ \A x \in Activities \ {a} : symbolKey'[x] = symbolKey[x]
         /\ symbolKey' \in [Activities -> SymbolKeys \cup {Null}]
         /\ key # Null <=> k = "TemplateInstantiation"
         /\ key \notin symbolNames_
         /\ NewEntry(CreateEntry(k))
         /\ CreateEntry(k).StartTimestamp = clock
         /\ CreateEntry(k).StopTimestamp = clock
<1>1. /\ HierarchyTypeOK /\ IdsInv
  BY DEF HierarchyInv
<1>2. /\ a \notin started /\ started' = started \cup {a} /\ clock' = clock
      /\ symbolKey' = [symbolKey EXCEPT ![a] = key]
      /\ IF k = "TemplateInstantiation" THEN key \in SymbolKeys \ symbolNames_ ELSE key = Null
  BY DEF Announce
<1>3. a \notin Active /\ a \notin Entries /\ entries_[a] = Null
  BY <1>1, <1>2 DEF IdsInv, Entries
<1>4. /\ symbolKey'[a] = key
      /\ \A x \in Activities \ {a} : symbolKey'[x] = symbolKey[x]
      /\ symbolKey' \in [Activities -> SymbolKeys \cup {Null}]
  BY <1>1, <1>2 DEF HierarchyTypeOK, Keys
<1>5. (key # Null <=> k = "TemplateInstantiation") /\ key \notin symbolNames_
  BY <1>1, <1>2, KeyAssumption DEF HierarchyTypeOK
<1>6. /\ NewEntry(CreateEntry(k))
      /\ CreateEntry(k).StartTimestamp = clock
      /\ CreateEntry(k).StopTimestamp = clock
  <2>1. clock \in 0 .. MaxClock
    BY <1>1, TypeFacts
  <2>2. <<>> \in Seq(Activities)
    OBVIOUS
  <2> QED BY <2>1, <2>2 DEF NewEntry, CreateEntry, Entry
<1> QED BY <1>2, <1>3, <1>4, <1>5, <1>6

LEMMA StartRootInv ==
  ASSUME HierarchyInv, NEW a \in Activities, NEW k \in Kinds, NEW key \in Keys,
         StartRootEntry(a, k, key)
  PROVE  HierarchyInv'
<1>1. /\ HierarchyTypeOK /\ TreeInv /\ IdsInv
      /\ ForestInv /\ KeptInv /\ TimesInv /\ NamesInv
  BY DEF HierarchyInv
<1>2. TreeInv' /\ Active' = Active \cup {a}
  BY <1>1, BeginRootInv DEF StartRootEntry
<1>3. /\ kind'[a] = k /\ k \in RootKinds
      /\ \A b \in Activities \ {a} : kind'[b] = kind[b]
      /\ parent' = parent /\ parent[a] = Null
  BY <1>1, AnnounceFacts DEF StartRootEntry, BeginRoot, TreeInv, TreeTypeOK, Active
<1> DEFINE e == CreateEntry(k)
<1>4. /\ a \notin started /\ a \notin Active /\ a \notin Entries /\ entries_[a] = Null
      /\ started' = started \cup {a} /\ clock' = clock
      /\ symbolKey'[a] = key
      /\ \A x \in Activities \ {a} : symbolKey'[x] = symbolKey[x]
      /\ symbolKey' \in [Activities -> SymbolKeys \cup {Null}]
      /\ key # Null <=> k = "TemplateInstantiation"
      /\ key \notin symbolNames_
      /\ NewEntry(e) /\ e.StartTimestamp = clock /\ e.StopTimestamp = clock
  BY AnnounceFacts DEF StartRootEntry
<1>5. /\ entries_ \in Entrylike /\ roots_ \in Seq(Activities)
      /\ Elements(roots_) \subseteq Activities
      /\ clock \in Nat
      /\ Entries \subseteq Activities /\ Active \subseteq Activities
  BY <1>1, TypeFacts
<1> HIDE DEF e
<1>6. /\ entries_' = WithRoot(entries_, a, e)
      /\ roots_' = Append(roots_, a)
      /\ symbolNames_' = symbolNames_
      /\ unresolvedTemplateInstantiationsPerSymbol_' = unresolvedTemplateInstantiationsPerSymbol_
  BY DEF StartRootEntry, symbolVars, WithRoot, e
<1>7. /\ entries_' \in Entrylike
      /\ roots_' \in Seq(Activities)
      /\ Forest(entries_', roots_')
      /\ \A c : Parents(entries_', c) = Parents(entries_, c)
  <2>1. Forest(entries_, roots_)
    BY <1>1 DEF ForestInv
  <2> QED BY <2>1, <1>4, <1>5, <1>6, AddRootForest
<1>8. entries_'[a] = e /\ \A x \in Activities \ {a} : entries_'[x] = entries_[x]
  BY <1>5, <1>6 DEF Entrylike, WithRoot
<1>9. Entries' = Entries \cup {a}
  BY <1>4, <1>8, NoEntryAssumption DEF Entries, NewEntry
<1>10. HierarchyTypeOK'
  BY <1>1, <1>2, <1>4, <1>6, <1>7 DEF HierarchyTypeOK, TreeInv, Entrylike
<1>11. IdsInv'
  BY <1>1, <1>2, <1>4, <1>6, <1>9 DEF IdsInv
<1>12. /\ Elements(roots_') = Elements(roots_) \cup {a}
       /\ DOMAIN roots_' = DOMAIN roots_ \cup {Len(roots_) + 1}
       /\ \A i \in DOMAIN roots_ : roots_'[i] = roots_[i] /\ i < Len(roots_) + 1
       /\ roots_'[Len(roots_) + 1] = a
  BY <1>5, <1>6, AppendFacts
<1>13. KeptInv'
  BY <1>1, <1>2, <1>3, <1>4, <1>5, <1>7, <1>9, <1>12 DEF KeptInv
<1>14. /\ \A x \in Entries : x # a /\ entries_'[x] = entries_[x]
                             /\ entries_[x].StartTimestamp <= clock
       /\ \A c \in Activities : \A p \in Parents(entries_, c) : p \in Entries /\ c \in Entries
  BY <1>1, <1>4, <1>5, <1>8 DEF TimesInv, ForestInv, Forest, Parents, Entries
<1>15. TimesInv'
  <2>1. (\A x \in Entries :
           entries_[x].StartTimestamp <= clock /\ entries_[x].StopTimestamp <= clock)'
    BY <1>1, <1>4, <1>5, <1>8, <1>9, <1>14 DEF TimesInv
  <2>2. InOrder(entries_', roots_')
    <3> SUFFICES ASSUME NEW i \in DOMAIN roots_', NEW j \in DOMAIN roots_', i < j
                 PROVE  entries_'[roots_'[i]].StartTimestamp <= entries_'[roots_'[j]].StartTimestamp
      BY DEF InOrder
    <3>1. Len(roots_) \in Nat /\ DOMAIN roots_ = 1 .. Len(roots_)
      BY <1>5
    <3>2. i \in DOMAIN roots_
      BY <3>1, <1>12
    <3>3. roots_[i] \in Entries
      BY <3>2, <1>1, <1>5 DEF ForestInv, Forest, Elements, Entries
    <3>4. CASE j = Len(roots_) + 1
      BY <3>2, <3>3, <3>4, <1>4, <1>8, <1>12, <1>14
    <3>5. CASE j \in DOMAIN roots_
      <4>1. roots_[j] \in Entries
        BY <3>5, <1>1, <1>5 DEF ForestInv, Forest, Elements, Entries
      <4> QED BY <3>2, <3>3, <3>5, <4>1, <1>1, <1>12, <1>14 DEF TimesInv, InOrder
    <3> QED BY <3>4, <3>5, <1>12
  <2>3. \A p \in Entries' : InOrder(entries_', entries_'[p].Children)
    <3>1. InOrder(entries_', entries_'[a].Children)
      BY <1>4, <1>8 DEF NewEntry, InOrder
    <3>2. ASSUME NEW p \in Entries PROVE InOrder(entries_', entries_'[p].Children)
      <4>1. \A i \in DOMAIN entries_[p].Children :
              entries_[p].Children[i] \in Entries
        <5> TAKE i \in DOMAIN entries_[p].Children
        <5>1. entries_[p].Children[i] \in ChildrenOf(entries_, p)
          BY DEF ChildrenOf, Elements
        <5>2. entries_[p].Children[i] \in Activities
          BY <5>1, <1>5, EntryFacts DEF Entries
        <5>3. p \in Parents(entries_, entries_[p].Children[i])
          BY <5>1, <1>5 DEF Parents, Entries
        <5> QED BY <5>2, <5>3, <1>14
      <4> QED BY <4>1, <1>1, <1>14 DEF TimesInv, InOrder
    <3> QED BY <3>1, <3>2, <1>9
  <2>4. \A c \in Activities : \A p \in Parents(entries_', c) :
          /\ entries_'[p].StartTimestamp <= entries_'[c].StartTimestamp
          /\ p \notin Active' => entries_'[c].StopTimestamp <= entries_'[p].StopTimestamp
    BY <1>1, <1>2, <1>7, <1>14 DEF TimesInv
  <2> QED BY <2>1, <2>2, <2>3, <2>4 DEF TimesInv
<1>16. NamesInv'
  <2>1. \A b \in Active' :
          /\ symbolKey'[b] # Null <=> kind'[b] = "TemplateInstantiation"
          /\ symbolKey'[b] # Null => parent'[b] # Null
          /\ symbolKey'[b] \notin symbolNames_'
    BY <1>1, <1>2, <1>3, <1>4, <1>5, <1>6, GroupAssumption DEF NamesInv
  <2>2. \A b \in Entries' \ Active' : b \in Entries \ Active /\ b # a
    BY <1>2, <1>9
  <2>3. \A b \in Entries' \ Active' :
          symbolKey'[b] \in SymbolKeys \ symbolNames_' =>
            b \in unresolvedTemplateInstantiationsPerSymbol_'[symbolKey'[b]]
    BY <2>2, <1>1, <1>4, <1>5, <1>6 DEF NamesInv
  <2>4. \A q \in SymbolKeys :
          \A b \in unresolvedTemplateInstantiationsPerSymbol_'[q] : symbolKey'[b] = q
    <3>1. \A q \in SymbolKeys : \A b \in unresolvedTemplateInstantiationsPerSymbol_[q] :
            b \in Activities \ {a}
      BY <1>1, <1>4 DEF IdsInv, HierarchyTypeOK
    <3> QED BY <3>1, <1>1, <1>4, <1>6 DEF NamesInv
  <2>5. NamesResolved'
    <3> SUFFICES ASSUME NEW b \in Entries', symbolKey'[b] \in symbolNames_'
                 PROVE  entries_'[b].Name = symbolKey'[b]
      BY DEF NamesResolved
    <3>1. b \in Entries /\ b # a
      BY <1>4, <1>6, <1>9
    <3> QED BY <3>1, <1>1, <1>4, <1>5, <1>6, <1>14 DEF NamesInv, NamesResolved
  <2> QED BY <2>1, <2>3, <2>4, <2>5 DEF NamesInv
<1> QED BY <1>2, <1>7, <1>10, <1>11, <1>13, <1>15, <1>16 DEF HierarchyInv, ForestInv

\* The places of children in their parent's list, as entries.
LEMMA ListedFacts ==
  ASSUME HierarchyTypeOK, ForestInv
  PROVE  /\ \A i \in DOMAIN roots_ : roots_[i] \in Entries
         /\ \A p \in Entries : \A i \in DOMAIN entries_[p].Children :
              /\ entries_[p].Children[i] \in Entries
              /\ p \in Parents(entries_, entries_[p].Children[i])
         /\ \A c \in Activities : \A p \in Parents(entries_, c) : p \in Entries /\ c \in Entries
<1>1. entries_ \in Entrylike /\ Elements(roots_) \subseteq Activities
  BY TypeFacts
<1>2. \A i \in DOMAIN roots_ : roots_[i] \in Entries
  BY <1>1 DEF ForestInv, Forest, Elements, Entries
<1>3. \A c \in Activities : \A p \in Parents(entries_, c) : p \in Entries /\ c \in Entries
  BY DEF ForestInv, Forest, Parents, Entries
<1>4. ASSUME NEW p \in Entries, NEW i \in DOMAIN entries_[p].Children
      PROVE  /\ entries_[p].Children[i] \in Entries
             /\ p \in Parents(entries_, entries_[p].Children[i])
  <2>1. entries_[p].Children[i] \in ChildrenOf(entries_, p)
    BY DEF ChildrenOf, Elements
  <2>2. entries_[p].Children[i] \in Activities
    BY <2>1, <1>1, EntryFacts DEF Entries
  <2>3. p \in Parents(entries_, entries_[p].Children[i])
    BY <2>1 DEF Parents, Entries
  <2> QED BY <2>2, <2>3, <1>3
<1> QED BY <1>2, <1>3, <1>4

LEMMA StartNestedInv ==
  ASSUME HierarchyInv, NEW a \in Activities, NEW p \in Activities, NEW k \in Kinds,
         NEW key \in Keys, StartNestedEntry(a, p, k, key)
  PROVE  HierarchyInv'
<1>1. /\ HierarchyTypeOK /\ TreeInv /\ IdsInv
      /\ ForestInv /\ KeptInv /\ TimesInv /\ NamesInv
  BY DEF HierarchyInv
<1>2. TreeInv' /\ Active' = Active \cup {a} /\ p \in Active
  BY <1>1, BeginNestedInv DEF StartNestedEntry
<1>3. /\ kind'[a] = k /\ parent'[a] = p
      /\ \A b \in Activities \ {a} : kind'[b] = kind[b] /\ parent'[b] = parent[b]
  BY <1>1 DEF StartNestedEntry, BeginNested, TreeInv, TreeTypeOK
<1> DEFINE e == CreateEntry(k)
<1>4. /\ a \notin started /\ a \notin Active /\ a \notin Entries /\ entries_[a] = Null
      /\ started' = started \cup {a} /\ clock' = clock
      /\ symbolKey'[a] = key
      /\ \A x \in Activities \ {a} : symbolKey'[x] = symbolKey[x]
      /\ symbolKey' \in [Activities -> SymbolKeys \cup {Null}]
      /\ key # Null <=> k = "TemplateInstantiation"
      /\ key \notin symbolNames_
      /\ NewEntry(e) /\ e.StartTimestamp = clock /\ e.StopTimestamp = clock
  BY AnnounceFacts DEF StartNestedEntry
<1>5. /\ entries_ \in Entrylike /\ roots_ \in Seq(Activities)
      /\ Elements(roots_) \subseteq Activities
      /\ clock \in Nat
      /\ Entries \subseteq Activities /\ Active \subseteq Activities
  BY <1>1, TypeFacts
<1>6. p \in Entries /\ entries_[p] # Null /\ p # a
  BY <1>1, <1>2, <1>4 DEF KeptInv, Entries
<1> HIDE DEF e
<1>7. /\ entries_' = WithChild(entries_, p, a, e)
      /\ roots_' = roots_
      /\ symbolNames_' = symbolNames_
      /\ unresolvedTemplateInstantiationsPerSymbol_' = unresolvedTemplateInstantiationsPerSymbol_
  BY DEF StartNestedEntry, symbolVars, WithChild, e
<1> DEFINE more == Append(entries_[p].Children, a)
<1>8. /\ entries_' \in Entrylike
      /\ Forest(entries_', roots_)
      /\ \A c : c # a => Parents(entries_', c) = Parents(entries_, c)
      /\ Parents(entries_', a) = {p}
      /\ entries_'[a] = e
      /\ entries_'[p].Children = more
      /\ entries_'[p].StartTimestamp = entries_[p].StartTimestamp
      /\ entries_'[p].StopTimestamp = entries_[p].StopTimestamp
      /\ entries_'[p].Name = entries_[p].Name
      /\ entries_'[p] # Null
      /\ \A x \in Activities \ {a, p} : entries_'[x] = entries_[x]
  <2>1. Forest(entries_, roots_)
    BY <1>1 DEF ForestInv
  <2> DEFINE fs == WithChild(entries_, p, a, e)
  <2>2. /\ fs \in Entrylike
        /\ Forest(fs, roots_)
        /\ \A c : c # a => Parents(fs, c) = Parents(entries_, c)
        /\ Parents(fs, a) = {p}
        /\ fs[a] = e
        /\ fs[p].Children = Append(entries_[p].Children, a)
        /\ fs[p].StartTimestamp = entries_[p].StartTimestamp
        /\ fs[p].StopTimestamp = entries_[p].StopTimestamp
        /\ fs[p].Name = entries_[p].Name
        /\ \A x \in Activities \ {a, p} : fs[x] = entries_[x]
    BY <2>1, <1>4, <1>5, <1>6, AddChildForest
  <2>3. fs[p] # Null
    BY <2>2 DEF Parents
  <2> QED BY <2>2, <2>3, <1>7
<1>9. /\ entries_[p] \in Entry /\ entries_[p].Children \in Seq(Activities)
  BY <1>5, <1>6, EntryFacts
<1>10. /\ DOMAIN more = DOMAIN entries_[p].Children \cup {Len(entries_[p].Children) + 1}
       /\ \A i \in DOMAIN entries_[p].Children :
            more[i] = entries_[p].Children[i] /\ i < Len(entries_[p].Children) + 1
       /\ more[Len(entries_[p].Children) + 1] = a
       /\ more \in Seq(Activities)
  BY <1>9, AppendFacts
<1>11. /\ DOMAIN entries_[p].Children = 1 .. Len(entries_[p].Children)
       /\ Len(entries_[p].Children) \in Nat
  BY <1>9
<1> HIDE DEF more
<1>12. /\ entries_'[p].Children = more
       /\ \A x \in Entries : /\ x # a /\ x \in Activities
                             /\ entries_'[x] # Null
                             /\ entries_'[x].StartTimestamp = entries_[x].StartTimestamp
                             /\ entries_'[x].StopTimestamp = entries_[x].StopTimestamp
                             /\ entries_'[x].Name = entries_[x].Name
                             /\ x # p => entries_'[x].Children = entries_[x].Children
                             /\ entries_[x].StartTimestamp <= clock
  <2>1. \A x \in Entries : x # a /\ x \in Activities /\ entries_[x].StartTimestamp <= clock
                           /\ entries_[x] # Null
    BY <1>1, <1>4 DEF TimesInv, Entries
  <2> QED BY <2>1, <1>8
<1>13. Entries' = Entries \cup {a}
  <2>1. e # Null
    BY <1>4, NoEntryAssumption DEF NewEntry
  <2>2. \A x \in Activities : x # a => (entries_'[x] # Null <=> entries_[x] # Null)
    BY <1>6, <1>8, <1>12
  <2> QED BY <2>1, <2>2, <1>8 DEF Entries
<1>14. HierarchyTypeOK'
  BY <1>1, <1>2, <1>4, <1>7, <1>8 DEF HierarchyTypeOK, TreeInv, Entrylike
<1>15. IdsInv'
  BY <1>1, <1>2, <1>4, <1>7, <1>13 DEF IdsInv
<1>16. KeptInv'
  <2> SUFFICES ASSUME NEW b \in Active'
               PROVE  /\ b \in Entries'
                      /\ IF parent'[b] = Null THEN b \in Elements(roots_)
                                              ELSE parent'[b] \in Parents(entries_', b)
    BY <1>7 DEF KeptInv
  <2>1. CASE b = a
    BY <2>1, <1>3, <1>8, <1>13
  <2>2. CASE b # a
    <3>1. b \in Active
      BY <2>2, <1>2
    <3> QED BY <2>2, <3>1, <1>1, <1>3, <1>5, <1>8, <1>13 DEF KeptInv
  <2> QED BY <2>1, <2>2
<1>17. /\ \A i \in DOMAIN roots_ : roots_[i] \in Entries
       /\ \A q \in Entries : \A i \in DOMAIN entries_[q].Children :
            entries_[q].Children[i] \in Entries
       /\ \A c \in Activities : \A q \in Parents(entries_, c) : q \in Entries /\ c \in Entries
  BY <1>1, ListedFacts
<1>18. TimesInv'
  <2>1. (\A x \in Entries :
           entries_[x].StartTimestamp <= clock /\ entries_[x].StopTimestamp <= clock)'
    BY <1>1, <1>4, <1>5, <1>8, <1>12, <1>13 DEF TimesInv
  <2>2. InOrder(entries_', roots_)
    BY <1>1, <1>12, <1>17 DEF TimesInv, InOrder
  <2>3. ASSUME NEW q \in Entries' PROVE InOrder(entries_', entries_'[q].Children)
    <3>1. CASE q = a
      BY <3>1, <1>4, <1>8 DEF NewEntry, InOrder
    <3>2. CASE q = p
      <4> SUFFICES ASSUME NEW i \in DOMAIN more, NEW j \in DOMAIN more, i < j
                   PROVE  entries_'[more[i]].StartTimestamp <= entries_'[more[j]].StartTimestamp
        BY <3>2, <1>12 DEF InOrder
      <4>1. i \in DOMAIN entries_[p].Children
        BY <1>10, <1>11
      <4>2. more[i] = entries_[p].Children[i] /\ more[i] \in Entries
        BY <4>1, <1>6, <1>10, <1>17
      <4>3. CASE j = Len(entries_[p].Children) + 1
        BY <4>2, <4>3, <1>4, <1>8, <1>10, <1>12
      <4>4. CASE j \in DOMAIN entries_[p].Children
        <5>1. more[j] = entries_[p].Children[j] /\ more[j] \in Entries
          BY <4>4, <1>6, <1>10, <1>17
        <5>2. InOrder(entries_, entries_[p].Children)
          BY <1>1, <1>6 DEF TimesInv
        <5> QED BY <4>1, <4>2, <4>4, <5>1, <5>2, <1>12 DEF InOrder
      <4> QED BY <4>3, <4>4, <1>10
    <3>3. CASE q # a /\ q # p
      <4>1. q \in Entries /\ entries_'[q].Children = entries_[q].Children
        BY <3>3, <1>12, <1>13
      <4> QED BY <4>1, <1>1, <1>12, <1>17 DEF TimesInv, InOrder
    <3> QED BY <3>1, <3>2, <3>3
  <2>4. \A c \in Activities : \A q \in Parents(entries_', c) :
          /\ entries_'[q].StartTimestamp <= entries_'[c].StartTimestamp
          /\ q \notin Active' => entries_'[c].StopTimestamp <= entries_'[q].StopTimestamp
    <3> TAKE c \in Activities
    <3> TAKE q \in Parents(entries_', c)
    <3>1. CASE c = a
      BY <3>1, <1>2, <1>4, <1>6, <1>8, <1>12
    <3>2. CASE c # a
      <4>1. q \in Parents(entries_, c) /\ q \in Entries /\ c \in Entries
        BY <3>2, <1>8, <1>17
      <4> QED BY <4>1, <1>1, <1>2, <1>12 DEF TimesInv
    <3> QED BY <3>1, <3>2
  <2> QED BY <2>1, <2>2, <2>3, <2>4, <1>7 DEF TimesInv
<1>19. NamesInv'
  <2>1. \A b \in Active' :
          /\ symbolKey'[b] # Null <=> kind'[b] = "TemplateInstantiation"
          /\ symbolKey'[b] # Null => parent'[b] # Null
          /\ symbolKey'[b] \notin symbolNames_'
    BY <1>1, <1>2, <1>3, <1>4, <1>5, <1>7, NullAssumption DEF NamesInv
  <2>2. \A b \in Entries' \ Active' : b \in Entries \ Active /\ b # a
    BY <1>2, <1>13
  <2>3. \A b \in Entries' \ Active' :
          symbolKey'[b] \in SymbolKeys \ symbolNames_' =>
            b \in unresolvedTemplateInstantiationsPerSymbol_'[symbolKey'[b]]
    BY <2>2, <1>1, <1>4, <1>5, <1>7 DEF NamesInv
  <2>4. \A q \in SymbolKeys :
          \A b \in unresolvedTemplateInstantiationsPerSymbol_'[q] : symbolKey'[b] = q
    <3>1. \A q \in SymbolKeys : \A b \in unresolvedTemplateInstantiationsPerSymbol_[q] :
            b \in Activities \ {a}
      BY <1>1, <1>4 DEF IdsInv, HierarchyTypeOK
    <3> QED BY <3>1, <1>1, <1>4, <1>7 DEF NamesInv
  <2>5. NamesResolved'
    <3> SUFFICES ASSUME NEW b \in Entries', symbolKey'[b] \in symbolNames_'
                 PROVE  entries_'[b].Name = symbolKey'[b]
      BY DEF NamesResolved
    <3>1. b \in Entries /\ b # a
      BY <1>4, <1>7, <1>13
    <3> QED BY <3>1, <1>1, <1>4, <1>5, <1>7, <1>12 DEF NamesInv, NamesResolved
  <2> QED BY <2>1, <2>3, <2>4, <2>5 DEF NamesInv
<1> QED BY <1>2, <1>7, <1>8, <1>14, <1>15, <1>16, <1>18, <1>19 DEF HierarchyInv, ForestInv

LEMMA TickInv == HierarchyInv /\ Tick => HierarchyInv'
<1> SUFFICES ASSUME HierarchyInv, Tick PROVE HierarchyInv'
  OBVIOUS
<1>1. /\ HierarchyTypeOK /\ TreeInv /\ IdsInv
      /\ ForestInv /\ KeptInv /\ TimesInv /\ NamesInv
  BY DEF HierarchyInv
<1>2. /\ clock' \in 0 .. MaxClock /\ clock <= clock' /\ clock \in Nat
      /\ treeVars' = treeVars /\ started' = started /\ symbolKey' = symbolKey
      /\ entries_' = entries_ /\ roots_' = roots_
      /\ symbolNames_' = symbolNames_
      /\ unresolvedTemplateInstantiationsPerSymbol_' = unresolvedTemplateInstantiationsPerSymbol_
  BY <1>1, TypeFacts DEF Tick, symbolVars
<1>3. Active' = Active /\ Entries' = Entries /\ TreeInv'
  BY <1>1, <1>2 DEF treeVars, Active, Entries, TreeInv, TreeTypeOK
<1>4. HierarchyTypeOK'
  BY <1>1, <1>2, <1>3 DEF HierarchyTypeOK, TreeInv
<1>5. IdsInv' /\ ForestInv' /\ KeptInv'
  BY <1>1, <1>2, <1>3 DEF IdsInv, ForestInv, KeptInv, treeVars
<1>6. \A a \in Entries : entries_[a].StartTimestamp \in Nat /\ entries_[a].StopTimestamp \in Nat
  BY <1>1, TypeFacts, EntryFacts DEF Entries
<1>7. TimesInv'
  BY <1>1, <1>2, <1>3, <1>6 DEF TimesInv
<1>8. NamesInv'
  BY <1>1, <1>2, <1>3 DEF NamesInv, NamesResolved, treeVars
<1> QED BY <1>3, <1>4, <1>5, <1>7, <1>8 DEF HierarchyInv

-----------------------------------------------------------------------------
(* The name of a specialization becomes known. *)

LEMMA SymbolNameInv ==
  ASSUME HierarchyInv, NEW key \in SymbolKeys, OnSymbolName(key)
  PROVE  HierarchyInv'
<1>1. /\ HierarchyTypeOK /\ TreeInv /\ IdsInv
      /\ ForestInv /\ KeptInv /\ TimesInv /\ NamesInv
  BY DEF HierarchyInv
<1>2. /\ key \notin symbolNames_ /\ \A a \in Active : symbolKey[a] # key
      /\ symbolNames_' = symbolNames_ \cup {key}
      /\ unresolvedTemplateInstantiationsPerSymbol_' =
           [unresolvedTemplateInstantiationsPerSymbol_ EXCEPT ![key] = {}]
      /\ treeVars' = treeVars /\ clock' = clock /\ started' = started
      /\ symbolKey' = symbolKey /\ roots_' = roots_
      /\ \A a \in Activities : entries_'[a] =
           IF a \in Subscribers(key) THEN [entries_[a] EXCEPT !.Name = key] ELSE entries_[a]
      /\ DOMAIN entries_' = Activities /\ entries_' = [a \in Activities |-> entries_'[a]]
  BY DEF OnSymbolName, traceVars
<1>3. Active' = Active /\ TreeInv' /\ kind' = kind /\ parent' = parent
  BY <1>1, <1>2 DEF treeVars, Active, TreeInv, TreeTypeOK
<1>4. /\ entries_ \in Entrylike /\ roots_ \in Seq(Activities) /\ Entries \subseteq Activities
  BY <1>1, TypeFacts
<1>5. \A a \in Entries : /\ entries_[a] \in Entry
                         /\ entries_[a].Children \in Seq(Activities)
  BY <1>4, EntryFacts DEF Entries
<1>6. ASSUME NEW a \in Entries
      PROVE  /\ entries_'[a] \in Entry
             /\ entries_'[a].Children = entries_[a].Children
             /\ entries_'[a].StartTimestamp = entries_[a].StartTimestamp
             /\ entries_'[a].StopTimestamp = entries_[a].StopTimestamp
             /\ entries_'[a].Name = IF a \in Subscribers(key) THEN key ELSE entries_[a].Name
  <2>1. CASE a \in Subscribers(key)
    <3>1. entries_'[a] = [entries_[a] EXCEPT !.Name = key]
      BY <2>1, <1>2, <1>4
    <3> QED BY <2>1, <3>1, <1>5 DEF Entry
  <2>2. CASE a \notin Subscribers(key)
    BY <2>2, <1>2, <1>4, <1>5
  <2> QED BY <2>1, <2>2
<1>7. \A a \in Activities \ Entries : entries_'[a] = Null
  BY <1>2 DEF Subscribers, Entries
<1>8. entries_' \in Entrylike
  BY <1>2, <1>6, <1>7 DEF Entrylike
<1>9. /\ Entries' = Entries
      /\ \A x \in Activities : entries_[x] = Null <=> entries_'[x] = Null
  BY <1>6, <1>7, NoEntryAssumption DEF Entries
<1>10. /\ Forest(entries_', roots_)
       /\ \A c : Parents(entries_', c) = Parents(entries_, c)
  <2>1. \A x \in Activities : entries_[x] # Null => entries_'[x].Children = entries_[x].Children
    BY <1>6 DEF Entries
  <2>2. Forest(entries_, roots_)
    BY <1>1 DEF ForestInv
  <2> QED BY <2>1, <2>2, <1>4, <1>8, <1>9, SameForest
<1>11. /\ unresolvedTemplateInstantiationsPerSymbol_'[key] = {}
       /\ \A q \in SymbolKeys \ {key} : unresolvedTemplateInstantiationsPerSymbol_'[q]
                                          = unresolvedTemplateInstantiationsPerSymbol_[q]
       /\ unresolvedTemplateInstantiationsPerSymbol_' \in [SymbolKeys -> SUBSET Activities]
  BY <1>1, <1>2 DEF HierarchyTypeOK
<1>12. HierarchyTypeOK'
  BY <1>1, <1>2, <1>3, <1>8, <1>11 DEF HierarchyTypeOK, TreeInv, Entrylike
<1>13. IdsInv'
  BY <1>1, <1>2, <1>3, <1>9, <1>11 DEF IdsInv
<1>14. KeptInv'
  BY <1>1, <1>2, <1>3, <1>9, <1>10 DEF KeptInv, Active
<1>15. /\ \A i \in DOMAIN roots_ : roots_[i] \in Entries
       /\ \A q \in Entries : \A i \in DOMAIN entries_[q].Children :
            entries_[q].Children[i] \in Entries
       /\ \A c \in Activities : \A q \in Parents(entries_, c) : q \in Entries /\ c \in Entries
  BY <1>1, ListedFacts
<1>16. TimesInv'
  BY <1>1, <1>2, <1>3, <1>6, <1>9, <1>10, <1>15 DEF TimesInv, InOrder
<1>17. NamesInv'
  <2>1. \A a \in Active' :
          /\ symbolKey'[a] # Null <=> kind'[a] = "TemplateInstantiation"
          /\ symbolKey'[a] # Null => parent'[a] # Null
          /\ symbolKey'[a] \notin symbolNames_'
    BY <1>1, <1>2, <1>3 DEF NamesInv
  <2>2. \A a \in Entries' \ Active' :
          symbolKey'[a] \in SymbolKeys \ symbolNames_' =>
            a \in unresolvedTemplateInstantiationsPerSymbol_'[symbolKey'[a]]
    BY <1>1, <1>2, <1>3, <1>9, <1>11 DEF NamesInv
  <2>3. \A q \in SymbolKeys :
          \A a \in unresolvedTemplateInstantiationsPerSymbol_'[q] : symbolKey'[a] = q
    BY <1>1, <1>2, <1>11 DEF NamesInv
  <2>4. NamesResolved'
    <3> SUFFICES ASSUME NEW a \in Entries, symbolKey[a] \in symbolNames_ \cup {key}
                 PROVE  entries_'[a].Name = symbolKey[a]
      BY <1>2, <1>9 DEF NamesResolved
    <3>1. CASE symbolKey[a] = key
      <4>1. a \in unresolvedTemplateInstantiationsPerSymbol_[key]
        BY <3>1, <1>1, <1>2 DEF NamesInv
      <4> QED BY <3>1, <4>1, <1>6 DEF Subscribers
    <3>2. CASE symbolKey[a] # key
      <4>1. a \notin Subscribers(key)
        BY <3>2, <1>1 DEF NamesInv, Subscribers
      <4>2. entries_[a].Name = symbolKey[a]
        BY <3>2, <1>1 DEF NamesInv, NamesResolved
      <4> QED BY <4>1, <4>2, <1>6
    <3> QED BY <3>1, <3>2
  <2> QED BY <2>1, <2>2, <2>3, <2>4 DEF NamesInv
<1> QED BY <1>2, <1>3, <1>10, <1>12, <1>13, <1>14, <1>16, <1>17 DEF HierarchyInv, ForestInv

-----------------------------------------------------------------------------
(* An activity stops, and its entry may be erased with what is below it. *)

Stamped(a) == [entries_ EXCEPT ![a].StopTimestamp = clock]

LEMMA StampedFacts ==
  ASSUME HierarchyInv, NEW a \in Entries
  PROVE  /\ Stamped(a) \in Entrylike
         /\ Forest(Stamped(a), roots_)
         /\ \A c : Parents(Stamped(a), c) = Parents(entries_, c)
         /\ \A x \in Activities : Stamped(a)[x] = Null <=> entries_[x] = Null
         /\ \A x \in Entries :
              /\ Stamped(a)[x].StartTimestamp = entries_[x].StartTimestamp
              /\ Stamped(a)[x].StopTimestamp =
                   IF x = a THEN clock ELSE entries_[x].StopTimestamp
              /\ Stamped(a)[x].Name = entries_[x].Name
              /\ Stamped(a)[x].Children = entries_[x].Children
<1>1. HierarchyTypeOK /\ Forest(entries_, roots_)
  BY DEF HierarchyInv, ForestInv
<1>2. /\ entries_ \in Entrylike /\ roots_ \in Seq(Activities)
      /\ clock \in 0 .. MaxClock /\ Entries \subseteq Activities
  BY <1>1, TypeFacts
<1>3. entries_[a] \in Entry /\ entries_[a] # Null
  BY <1>2, EntryFacts DEF Entries
<1> DEFINE fs == Stamped(a)
<1>4. /\ fs[a] = [entries_[a] EXCEPT !.StopTimestamp = clock]
      /\ \A x \in Activities \ {a} : fs[x] = entries_[x]
      /\ fs = [x \in Activities |-> fs[x]]
  BY <1>2 DEF Stamped, Entrylike
<1> HIDE DEF fs
<1>5. /\ fs[a] \in Entry
      /\ fs[a].StartTimestamp = entries_[a].StartTimestamp
      /\ fs[a].StopTimestamp = clock
      /\ fs[a].Name = entries_[a].Name
      /\ fs[a].Children = entries_[a].Children
  BY <1>2, <1>3, <1>4 DEF Entry
<1>6. fs \in Entrylike
  <2>1. \A x \in Activities : fs[x] \in Entry \cup {Null}
    BY <1>2, <1>4, <1>5 DEF Entrylike
  <2> QED BY <2>1, <1>4 DEF Entrylike
<1>7. \A x \in Activities : fs[x] = Null <=> entries_[x] = Null
  BY <1>3, <1>4, <1>5, NoEntryAssumption
<1>8. \A x \in Entries :
        /\ fs[x].StartTimestamp = entries_[x].StartTimestamp
        /\ fs[x].StopTimestamp = IF x = a THEN clock ELSE entries_[x].StopTimestamp
        /\ fs[x].Name = entries_[x].Name
        /\ fs[x].Children = entries_[x].Children
  BY <1>2, <1>4, <1>5
<1>9. \A x \in Activities : entries_[x] # Null => fs[x].Children = entries_[x].Children
  BY <1>8 DEF Entries
<1>10. Forest(fs, roots_) /\ \A c : Parents(fs, c) = Parents(entries_, c)
  BY <1>1, <1>2, <1>6, <1>7, <1>9, SameForest
<1> QED BY <1>6, <1>7, <1>8, <1>10 DEF fs

\* No activity that is still running is below one that stops.
LEMMA NoneBelow ==
  ASSUME HierarchyInv, NEW a \in Active, NEW es,
         \A b \in Active \ {a} : parent[b] # a,
         \A c : Parents(es, c) = Parents(entries_, c),
         es \in Entrylike
  PROVE  \A b \in Active \ {a} : b \notin Subtree(es, a)
<1> DEFINE S == {x \in Activities : x = a \/ x \notin Active}
<1>1. a \in S /\ S \in SUBSET Activities
  BY DEF Active
<1>2. ASSUME NEW y \in S, es[y] # Null, NEW c \in ChildrenOf(es, y)
      PROVE  c \in S
  <2>1. c \in Activities
    BY <1>2, EntryFacts
  <2>2. y \in Parents(entries_, c)
    BY <1>2 DEF Parents
  <2>3. CASE c \in Active /\ c # a
    <3>1. IF parent[c] = Null THEN c \in Elements(roots_) ELSE parent[c] \in Parents(entries_, c)
      BY <2>3 DEF HierarchyInv, KeptInv
    <3>2. parent[c] # Null
      BY <2>2, <3>1 DEF HierarchyInv, ForestInv, Forest
    <3>3. y = parent[c]
      BY <2>1, <2>2, <3>1, <3>2 DEF HierarchyInv, ForestInv, Forest
    <3>4. parent[c] \in Active
      BY <2>3, <3>2 DEF HierarchyInv, TreeInv
    <3> QED BY <2>3, <3>3, <3>4
  <2> QED BY <2>1, <2>3
<1>3. Subtree(es, a) \subseteq S
  BY <1>1, <1>2 DEF Subtree
<1> QED BY <1>3

\* What is left of the entries when a stops: an erased one takes everything
\* below it along and nothing above it, and nothing that is left has moved.
LEMMA StopFacts ==
  ASSUME HierarchyInv, NEW a \in Activities, StopEntry(a)
  PROVE  /\ entries_' \in Entrylike
         /\ Forest(entries_', roots_)
         /\ \A x \in Entries' :
              /\ x \in Entries
              /\ entries_'[x].StartTimestamp = entries_[x].StartTimestamp
              /\ entries_'[x].StopTimestamp =
                   IF x = a THEN clock ELSE entries_[x].StopTimestamp
              /\ entries_'[x].Name = entries_[x].Name
              /\ Parents(entries_', x) = Parents(entries_, x)
              /\ \A i, j \in DOMAIN entries_'[x].Children : i < j =>
                   \E k, l \in DOMAIN entries_[x].Children :
                     /\ k < l
                     /\ entries_'[x].Children[i] = entries_[x].Children[k]
                     /\ entries_'[x].Children[j] = entries_[x].Children[l]
         /\ \A b \in Active \ {a} : b \in Entries'
         /\ a \in Entries' <=> ~ IsIgnored(a)
         /\ \A c \in Entries \ Entries' : c # a => Parents(entries_, c) \cap Entries' = {}
<1>1. /\ HierarchyTypeOK /\ TreeInv /\ IdsInv
      /\ ForestInv /\ KeptInv /\ TimesInv /\ NamesInv
  BY DEF HierarchyInv
<1>2. a \in Active /\ \A b \in Active \ {a} : parent[b] # a
  BY <1>1, EndInv DEF StopEntry
<1>3. /\ entries_ \in Entrylike /\ roots_ \in Seq(Activities)
      /\ clock \in 0 .. MaxClock /\ Entries \subseteq Activities /\ Active \subseteq Activities
  BY <1>1, TypeFacts
<1>4. a \in Entries
  BY <1>1, <1>2 DEF KeptInv
<1> DEFINE es == Stamped(a)
<1>5. /\ es \in Entrylike
      /\ Forest(es, roots_)
      /\ \A c : Parents(es, c) = Parents(entries_, c)
      /\ \A x \in Activities : es[x] = Null <=> entries_[x] = Null
      /\ \A x \in Entries :
           /\ es[x].StartTimestamp = entries_[x].StartTimestamp
           /\ es[x].StopTimestamp = IF x = a THEN clock ELSE entries_[x].StopTimestamp
           /\ es[x].Name = entries_[x].Name
           /\ es[x].Children = entries_[x].Children
  BY <1>4, StampedFacts
<1>6. entries_' = IF IsIgnored(a) THEN IgnoreEntry(es, a, parent[a]) ELSE es
  BY DEF StopEntry, FinishEntry, Stamped
<1>7. \A b \in Active \ {a} : b \notin Subtree(es, a)
  <2>1. /\ es \in Entrylike
        /\ \A c : Parents(es, c) = Parents(entries_, c)
    BY <1>5
  <2> HIDE DEF es
  <2> QED BY <2>1, <1>2, NoneBelow
<1> HIDE DEF es
<1>8. \A b \in Active \ {a} : b \in Entries
  BY <1>1 DEF KeptInv
<1>9. \A x \in Entries : entries_[x].Children \in Seq(Activities)
  BY <1>3, EntryFacts DEF Entries
<1>10. CASE ~ IsIgnored(a)
  <2>1. entries_' = es
    BY <1>6, <1>10
  <2>2. Entries' = Entries
    BY <2>1, <1>5 DEF Entries
  <2>3. ASSUME NEW x \in Entries, NEW i \in DOMAIN es[x].Children,
               NEW j \in DOMAIN es[x].Children, i < j
        PROVE  \E k, l \in DOMAIN entries_[x].Children :
                 /\ k < l
                 /\ es[x].Children[i] = entries_[x].Children[k]
                 /\ es[x].Children[j] = entries_[x].Children[l]
    <3>1. es[x].Children = entries_[x].Children
      BY <1>5
    <3> QED BY <2>3, <3>1
  <2> QED BY <2>1, <2>2, <2>3, <1>4, <1>5, <1>8, <1>10
<1>11. CASE IsIgnored(a)
  <2> DEFINE p == parent[a]
             Sub == Subtree(es, a)
  <2>1. parent[a] # Null
    BY <1>11 DEF IsIgnored
  <2>2. p \in Parents(entries_, a) /\ p \in Active /\ p # a
    BY <2>1, <1>1, <1>2 DEF KeptInv, TreeInv
  <2>3. p \in Parents(es, a) /\ p \notin Sub
    BY <2>2, <1>5, <1>7
  <2>4. /\ a \in Sub /\ Sub \subseteq Activities
        /\ \A c \in Activities \ {a} : \A q \in Parents(es, c) : q \in Sub <=> c \in Sub
        /\ \A c \in Activities \ {a} : Parents(es, c) = {} => c \notin Sub
    BY <1>5, SubtreeFacts
  <2>5. entries_' = IgnoreEntry(es, a, p)
    BY <1>6, <1>11
  <2> HIDE DEF p
  <2>6. /\ entries_' \in Entrylike
        /\ Forest(entries_', roots_)
        /\ \A x \in Sub : entries_'[x] = Null
        /\ entries_'[p] = [es[p] EXCEPT !.Children = Without(es[p].Children, a)]
        /\ \A x \in Activities \ Sub : x # p => entries_'[x] = es[x]
        /\ \A c \in Activities \ Sub : Parents(entries_', c) = Parents(es, c)
    <3> DEFINE fs == IgnoreEntry(es, a, p)
    <3>1. /\ fs \in Entrylike
          /\ Forest(fs, roots_)
          /\ \A x \in Sub : fs[x] = Null
          /\ fs[p] = [es[p] EXCEPT !.Children = Without(es[p].Children, a)]
          /\ \A x \in Activities \ Sub : x # p => fs[x] = es[x]
          /\ \A c \in Activities \ Sub : Parents(fs, c) = Parents(es, c)
      BY <2>3, <1>3, <1>5, IgnoreForest
    <3> QED BY <3>1, <2>5
  <2> HIDE DEF Sub
  <2>7. es[p] \in Entry /\ es[p] # Null /\ p \in Entries /\ p \in Activities
    BY <2>2, <2>3, <1>5, EntryFacts DEF Parents, Entries
  <2>8. /\ Without(es[p].Children, a) \in Seq(Activities)
        /\ \A i, j \in DOMAIN Without(es[p].Children, a) : i < j =>
             \E k, l \in DOMAIN es[p].Children :
               /\ k < l
               /\ Without(es[p].Children, a)[i] = es[p].Children[k]
               /\ Without(es[p].Children, a)[j] = es[p].Children[l]
    <3>1. es[p].Children \in Seq(Activities)
      BY <2>7, <1>5, EntryFacts
    <3>2. a \in Elements(es[p].Children)
      BY <2>3 DEF Parents, ChildrenOf
    <3>3. OneToOne(es[p].Children)
      BY <2>7, <1>5 DEF Forest
    <3> QED BY <3>1, <3>2, <3>3, WithoutFacts
  <2>9. /\ entries_'[p] \in Entry
        /\ entries_'[p].Children = Without(es[p].Children, a)
        /\ entries_'[p].StartTimestamp = es[p].StartTimestamp
        /\ entries_'[p].StopTimestamp = es[p].StopTimestamp
        /\ entries_'[p].Name = es[p].Name
    BY <2>6, <2>7, <2>8 DEF Entry
  <2>10. \A x \in Activities : x \in Entries' <=> x \in Entries /\ x \notin Sub
    <3> TAKE x \in Activities
    <3>1. CASE x = p
      BY <3>1, <2>3, <2>7, <2>9, NoEntryAssumption DEF Entries
    <3>2. CASE x # p
      BY <3>2, <2>6, <1>5 DEF Entries
    <3> QED BY <3>1, <3>2
  <2>11. Entries' \subseteq Activities
    BY DEF Entries
  <2>12. ASSUME NEW x \in Entries'
         PROVE  /\ x \in Entries
                /\ entries_'[x].StartTimestamp = entries_[x].StartTimestamp
                /\ entries_'[x].StopTimestamp =
                     IF x = a THEN clock ELSE entries_[x].StopTimestamp
                /\ entries_'[x].Name = entries_[x].Name
                /\ Parents(entries_', x) = Parents(entries_, x)
    <3>1. x \in Activities /\ x \in Entries /\ x \notin Sub
      BY <2>10, <2>11
    <3>2. Parents(entries_', x) = Parents(entries_, x)
      BY <3>1, <2>6, <1>5
    <3>3. CASE x = p
      BY <3>1, <3>2, <3>3, <2>9, <1>5
    <3>4. CASE x # p
      BY <3>1, <3>2, <3>4, <2>6, <1>5
    <3> QED BY <3>3, <3>4
  <2>13. ASSUME NEW x \in Entries', NEW i \in DOMAIN entries_'[x].Children,
                NEW j \in DOMAIN entries_'[x].Children, i < j
         PROVE  \E k, l \in DOMAIN entries_[x].Children :
                  /\ k < l
                  /\ entries_'[x].Children[i] = entries_[x].Children[k]
                  /\ entries_'[x].Children[j] = entries_[x].Children[l]
    <3>1. x \in Activities /\ x \in Entries /\ x \notin Sub
      BY <2>10, <2>11
    <3>2. es[x].Children = entries_[x].Children
      BY <3>1, <1>5
    <3>3. CASE x = p
      BY <3>2, <3>3, <2>8, <2>9, <2>13
    <3>4. CASE x # p
      <4>1. entries_'[x].Children = entries_[x].Children
        BY <3>1, <3>2, <3>4, <2>6
      <4> QED BY <4>1, <2>13
    <3> QED BY <3>3, <3>4
  <2>14. \A b \in Active \ {a} : b \in Entries'
    BY <2>10, <1>3, <1>7, <1>8 DEF Sub
  <2>15. a \notin Entries'
    BY <2>4, <2>10, <2>11
  <2>16. \A c \in Entries \ Entries' : c # a => Parents(entries_, c) \cap Entries' = {}
    <3> SUFFICES ASSUME NEW c \in Entries \ Entries', c # a,
                        NEW q \in Parents(entries_, c), q \in Entries'
                 PROVE  FALSE
      OBVIOUS
    <3>1. c \in Sub /\ c \in Activities
      BY <2>10, <1>3
    <3>2. q \in Sub
      BY <3>1, <2>4, <1>5
    <3> QED BY <3>2, <2>10, <2>11
  <2> QED BY <2>6, <2>12, <2>13, <2>14, <2>15, <2>16, <1>11
<1> QED BY <1>10, <1>11

LEMMA StopInv ==
  ASSUME HierarchyInv, NEW a \in Activities, StopEntry(a)
  PROVE  HierarchyInv'
<1>1. /\ HierarchyTypeOK /\ TreeInv /\ IdsInv
      /\ ForestInv /\ KeptInv /\ TimesInv /\ NamesInv
  BY DEF HierarchyInv
<1>2. /\ TreeInv' /\ Active' = Active \ {a} /\ a \in Active
      /\ \A b \in Active \ {a} : parent[b] # a
  BY <1>1, EndInv DEF StopEntry
<1>3. \A b \in Active \ {a} : parent'[b] = parent[b] /\ kind'[b] = kind[b]
  BY <1>1 DEF StopEntry, End, TreeInv, TreeTypeOK, Active
<1>4. /\ entries_ \in Entrylike /\ roots_ \in Seq(Activities)
      /\ clock \in 0 .. MaxClock /\ Entries \subseteq Activities /\ Active \subseteq Activities
  BY <1>1, TypeFacts
<1>5. /\ entries_' \in Entrylike
      /\ Forest(entries_', roots_)
      /\ \A x \in Entries' :
           /\ x \in Entries
           /\ entries_'[x].StartTimestamp = entries_[x].StartTimestamp
           /\ entries_'[x].StopTimestamp = IF x = a THEN clock ELSE entries_[x].StopTimestamp
           /\ entries_'[x].Name = entries_[x].Name
           /\ Parents(entries_', x) = Parents(entries_, x)
      /\ \A b \in Active \ {a} : b \in Entries'
      /\ a \in Entries' <=> ~ IsIgnored(a)
  BY StopFacts
<1>6. /\ clock' = clock /\ started' = started /\ symbolKey' = symbolKey
      /\ roots_' = roots_ /\ symbolNames_' = symbolNames_
  BY DEF StopEntry
<1>7. /\ unresolvedTemplateInstantiationsPerSymbol_' \in [SymbolKeys -> SUBSET Activities]
      /\ \A key \in SymbolKeys :
           unresolvedTemplateInstantiationsPerSymbol_'[key] =
             IF AwaitsName(a) /\ symbolKey[a] = key
               THEN unresolvedTemplateInstantiationsPerSymbol_[key] \cup {a}
               ELSE unresolvedTemplateInstantiationsPerSymbol_[key]
  <2>1. symbolKey[a] # Null => symbolKey[a] \in SymbolKeys
    BY <1>1 DEF HierarchyTypeOK
  <2> QED BY <2>1, <1>1 DEF StopEntry, HierarchyTypeOK, AwaitsName
<1>8. HierarchyTypeOK'
  BY <1>1, <1>2, <1>5, <1>6, <1>7 DEF HierarchyTypeOK, TreeInv, Entrylike
<1>9. IdsInv'
  BY <1>1, <1>2, <1>5, <1>6, <1>7 DEF IdsInv
<1>10. KeptInv'
  BY <1>1, <1>2, <1>3, <1>5, <1>6 DEF KeptInv
<1>11. /\ \A i \in DOMAIN roots_ : roots_[i] \in Entries
       /\ \A q \in Entries : \A i \in DOMAIN entries_[q].Children :
            entries_[q].Children[i] \in Entries
       /\ \A c \in Activities : \A q \in Parents(entries_, c) : q \in Entries /\ c \in Entries
  BY <1>1, ListedFacts
<1>12. \A c \in Activities : \A q \in Parents(entries_', c) : q \in Entries' /\ c \in Entries'
  BY <1>5 DEF Forest, Parents, Entries
<1>13. Elements(roots_) \subseteq Entries'
  BY <1>4, <1>5 DEF Forest, Elements, Entries
<1>14. TimesInv'
  <2>1. (\A x \in Entries :
           entries_[x].StartTimestamp <= clock /\ entries_[x].StopTimestamp <= clock)'
    BY <1>1, <1>4, <1>5, <1>6 DEF TimesInv
  <2>2. InOrder(entries_', roots_)
    <3>1. \A i \in DOMAIN roots_ : roots_[i] \in Entries'
      BY <1>13 DEF Elements
    <3> QED BY <3>1, <1>1, <1>5 DEF TimesInv, InOrder
  <2>3. ASSUME NEW q \in Entries' PROVE InOrder(entries_', entries_'[q].Children)
    <3> SUFFICES ASSUME NEW i \in DOMAIN entries_'[q].Children,
                        NEW j \in DOMAIN entries_'[q].Children, i < j
                 PROVE  entries_'[entries_'[q].Children[i]].StartTimestamp
                          <= entries_'[entries_'[q].Children[j]].StartTimestamp
      BY DEF InOrder
    <3>1. PICK k \in DOMAIN entries_[q].Children, l \in DOMAIN entries_[q].Children :
            /\ k < l
            /\ entries_'[q].Children[i] = entries_[q].Children[k]
            /\ entries_'[q].Children[j] = entries_[q].Children[l]
      BY StopFacts
    <3>2. q \in Entries /\ InOrder(entries_, entries_[q].Children)
      BY <1>1, <1>5 DEF TimesInv
    <3>3. entries_'[q].Children[i] \in Entries' /\ entries_'[q].Children[j] \in Entries'
      <4>1. /\ entries_'[q].Children[i] \in ChildrenOf(entries_', q)
            /\ entries_'[q].Children[j] \in ChildrenOf(entries_', q)
        BY DEF ChildrenOf, Elements
      <4>2. entries_'[q] # Null /\ q \in Activities
        BY DEF Entries
      <4>3. ChildrenOf(entries_', q) \subseteq Activities
        BY <4>2, <1>5, EntryFacts
      <4> QED BY <4>1, <4>2, <4>3, <1>12 DEF Parents
    <3> QED BY <3>1, <3>2, <3>3, <1>5 DEF InOrder
  <2>4. \A c \in Activities : \A q \in Parents(entries_', c) :
          /\ entries_'[q].StartTimestamp <= entries_'[c].StartTimestamp
          /\ q \notin Active' => entries_'[c].StopTimestamp <= entries_'[q].StopTimestamp
    <3> TAKE c \in Activities
    <3> TAKE q \in Parents(entries_', c)
    <3>1. /\ q \in Entries' /\ c \in Entries' /\ q \in Entries /\ c \in Entries
          /\ q \in Parents(entries_, c)
      BY <1>5, <1>12
    <3>2. entries_'[q].StartTimestamp <= entries_'[c].StartTimestamp
      BY <3>1, <1>1, <1>5 DEF TimesInv
    <3>3. ASSUME q \notin Active'
          PROVE  entries_'[c].StopTimestamp <= entries_'[q].StopTimestamp
      <4>1. /\ entries_[c].StopTimestamp <= clock /\ clock <= clock
            /\ q \notin Active => entries_[c].StopTimestamp <= entries_[q].StopTimestamp
        BY <3>1, <1>1, <1>4 DEF TimesInv
      <4>2. CASE q = a
        BY <3>1, <4>1, <4>2, <1>5
      <4>3. CASE q # a
        <5>1. q \notin Active
          BY <3>3, <4>3, <1>2
        <5>2. c # a
          <6>1. ASSUME c = a PROVE FALSE
            <7>1. IF parent[a] = Null THEN a \in Elements(roots_)
                                      ELSE parent[a] \in Parents(entries_, a)
              BY <1>1, <1>2 DEF KeptInv
            <7>2. parent[a] # Null
              BY <7>1, <6>1, <3>1, <1>1 DEF ForestInv, Forest
            <7>3. q = parent[a]
              BY <7>1, <7>2, <6>1, <3>1, <1>1 DEF ForestInv, Forest
            <7> QED BY <7>2, <7>3, <5>1, <1>1, <1>2 DEF TreeInv
          <6> QED BY <6>1
        <5> QED BY <3>1, <4>1, <4>3, <5>1, <5>2, <1>5
      <4> QED BY <4>2, <4>3
    <3> QED BY <3>2, <3>3
  <2> QED BY <2>1, <2>2, <2>3, <2>4, <1>6 DEF TimesInv
<1>15. NamesInv'
  <2>1. \A b \in Active' :
          /\ symbolKey'[b] # Null <=> kind'[b] = "TemplateInstantiation"
          /\ symbolKey'[b] # Null => parent'[b] # Null
          /\ symbolKey'[b] \notin symbolNames_'
    BY <1>1, <1>2, <1>3, <1>6 DEF NamesInv
  <2>2. ASSUME NEW b \in Entries' \ Active', symbolKey[b] \in SymbolKeys \ symbolNames_
        PROVE  b \in unresolvedTemplateInstantiationsPerSymbol_'[symbolKey[b]]
    <3>1. b \in Entries
      BY <1>5
    <3>2. CASE b = a
      <4>1. symbolKey[a] # Null /\ parent[a] # Null /\ ~ IsIgnored(a)
        BY <2>2, <3>2, <1>1, <1>2, <1>5, KeyAssumption DEF NamesInv
      <4> QED BY <2>2, <3>2, <4>1, <1>7 DEF AwaitsName
    <3>3. CASE b # a
      <4>1. b \notin Active
        BY <3>3, <1>2
      <4> QED BY <2>2, <3>1, <4>1, <1>1, <1>7 DEF NamesInv
    <3> QED BY <3>2, <3>3
  <2>3. \A q \in SymbolKeys :
          \A b \in unresolvedTemplateInstantiationsPerSymbol_'[q] : symbolKey'[b] = q
    BY <1>1, <1>6, <1>7 DEF NamesInv
  <2>4. NamesResolved'
    BY <1>1, <1>5, <1>6 DEF NamesInv, NamesResolved
  <2> QED BY <2>1, <2>2, <2>3, <2>4, <1>6 DEF NamesInv
<1> QED BY <1>2, <1>5, <1>6, <1>8, <1>9, <1>10, <1>14, <1>15 DEF HierarchyInv, ForestInv

-----------------------------------------------------------------------------
(* Every step of the time trace. *)

\* The rest of the model leaves the hierarchy alone.
LEMMA StutterInv == HierarchyInv /\ UNCHANGED hierarchyVars => HierarchyInv'
<1> SUFFICES ASSUME HierarchyInv, UNCHANGED hierarchyVars PROVE HierarchyInv'
  OBVIOUS
<1>1. /\ HierarchyTypeOK /\ TreeInv /\ IdsInv
      /\ ForestInv /\ KeptInv /\ TimesInv /\ NamesInv
  BY DEF HierarchyInv
<1>2. /\ kind' = kind /\ parent' = parent /\ stack' = stack
      /\ clock' = clock /\ started' = started /\ symbolKey' = symbolKey
      /\ entries_' = entries_ /\ roots_' = roots_
      /\ symbolNames_' = symbolNames_
      /\ unresolvedTemplateInstantiationsPerSymbol_' = unresolvedTemplateInstantiationsPerSymbol_
  BY DEF hierarchyVars, traceVars, symbolVars, treeVars
<1>3. Active' = Active /\ Entries' = Entries /\ TreeInv'
  BY <1>1, <1>2 DEF Active, Entries, TreeInv, TreeTypeOK
<1>4. HierarchyTypeOK' /\ IdsInv' /\ ForestInv' /\ KeptInv'
  BY <1>1, <1>2, <1>3 DEF HierarchyTypeOK, TreeInv, IdsInv, ForestInv, KeptInv
<1>5. TimesInv' /\ NamesInv'
  BY <1>1, <1>2, <1>3 DEF TimesInv, NamesInv, NamesResolved
<1> QED BY <1>3, <1>4, <1>5 DEF HierarchyInv

LEMMA StepInv == HierarchyInv /\ [Next]_vars => HierarchyInv'
<1> SUFFICES ASSUME HierarchyInv, [Next]_vars PROVE HierarchyInv'
  OBVIOUS
<1>1. ASSUME NEW a \in Activities, NEW k \in Kinds, NEW key \in Keys, StartRoot(a, k, key)
      PROVE  HierarchyInv'
  BY <1>1, StartRootInv DEF StartRoot
<1>2. ASSUME NEW a \in Activities, NEW p \in Activities, NEW k \in Kinds, NEW key \in Keys,
             StartNested(a, p, k, key)
      PROVE  HierarchyInv'
  BY <1>2, StartNestedInv DEF StartNested
<1>3. ASSUME NEW a \in Activities, StopActivity(a) PROVE HierarchyInv'
  BY <1>3, StopInv DEF StopActivity
<1>4. ASSUME NEW key \in SymbolKeys, SymbolName(key) PROVE HierarchyInv'
  BY <1>4, SymbolNameInv DEF SymbolName
<1>5. CASE TimePasses
  BY <1>5, TickInv DEF TimePasses
<1>6. CASE OnEndAnalysis
  BY <1>6, StutterInv DEF OnEndAnalysis
<1>7. CASE UNCHANGED vars
  BY <1>7, StutterInv DEF vars
<1> QED BY <1>1, <1>2, <1>3, <1>4, <1>5, <1>6, <1>7 DEF Next

\* The inductive invariant holds in every trace.
THEOREM HierarchyInvariance == Spec => []HierarchyInv
<1>1. Init => HierarchyInv
  BY HierarchyInitInv DEF Init
<1> QED BY <1>1, StepInv, PTL DEF Spec

LEMMA HoldersOf ==
  ASSUME HierarchyInv, NEW a \in Activities
  PROVE  Cardinality(Holders(a)) = IF a \in Entries THEN 1 ELSE 0
<1>1. /\ HierarchyTypeOK /\ Forest(entries_, roots_)
  BY DEF HierarchyInv, ForestInv
<1>2. /\ entries_ \in Entrylike /\ roots_ \in Seq(Activities) /\ Entries \subseteq Activities
  BY <1>1, TypeFacts
<1> DEFINE inRoots == {<<Null, i>> : i \in {i \in DOMAIN roots_ : roots_[i] = a}}
           in(p) == {<<p, i>> : i \in {i \in DOMAIN entries_[p].Children :
                                         entries_[p].Children[i] = a}}
<1>3. Holders(a) = inRoots \cup UNION {in(p) : p \in Entries}
  BY DEF Holders
<1>4. \A p \in Entries : in(p) # {} <=> p \in Parents(entries_, a)
  <2> TAKE p \in Entries
  <2>1. p \in Activities /\ entries_[p] # Null
    BY DEF Entries
  <2>2. p \in Parents(entries_, a) <=>
          \E i \in DOMAIN entries_[p].Children : entries_[p].Children[i] = a
    BY <2>1 DEF Parents, ChildrenOf, Elements
  <2>3. ASSUME NEW i \in DOMAIN entries_[p].Children, entries_[p].Children[i] = a
        PROVE  <<p, i>> \in in(p)
    BY <2>3
  <2>4. ASSUME NEW x \in in(p)
        PROVE  \E i \in DOMAIN entries_[p].Children : entries_[p].Children[i] = a
    BY <2>4
  <2> QED BY <2>2, <2>3, <2>4
<1>5. inRoots # {} <=> a \in Elements(roots_)
  <2>1. ASSUME NEW i \in DOMAIN roots_, roots_[i] = a PROVE <<Null, i>> \in inRoots
    BY <2>1
  <2>2. ASSUME NEW x \in inRoots PROVE \E i \in DOMAIN roots_ : roots_[i] = a
    BY <2>2
  <2> QED BY <2>1, <2>2 DEF Elements
<1>6. CASE a \notin Entries
  <2>1. a \notin Elements(roots_) /\ Parents(entries_, a) = {}
    BY <1>1, <1>6 DEF Forest, Entries
  <2>2. Holders(a) = {}
    <3>1. UNION {in(p) : p \in Entries} = {}
      BY <2>1, <1>4
    <3> QED BY <2>1, <3>1, <1>3, <1>5
  <2> QED BY <2>2, <1>6, FS_EmptySet
<1>7. CASE a \in Elements(roots_)
  <2>1. a \in Entries /\ Parents(entries_, a) = {}
    BY <1>1, <1>7 DEF Forest, Entries
  <2>2. PICK i \in DOMAIN roots_ : roots_[i] = a
    BY <1>7 DEF Elements
  <2>3. \A j \in DOMAIN roots_ : roots_[j] = a => j = i
    BY <2>2, <1>1 DEF Forest, OneToOne
  <2>4. inRoots = {<<Null, i>>}
    BY <2>2, <2>3
  <2>5. UNION {in(p) : p \in Entries} = {}
    BY <2>1, <1>4
  <2>6. Holders(a) = {<<Null, i>>}
    BY <2>4, <2>5, <1>3
  <2> QED BY <2>1, <2>6, FS_Singleton
<1>8. CASE a \in Entries /\ a \notin Elements(roots_)
  <2>1. PICK p \in Parents(entries_, a) : TRUE
    BY <1>1, <1>8 DEF Forest, Entries
  <2>2. \A q \in Entries : q # p => in(q) = {}
    BY <1>1, <1>4, <2>1 DEF Forest
  <2>3. p \in Entries /\ p \in Activities /\ entries_[p] # Null
    BY DEF Parents, Entries
  <2>4. PICK i \in DOMAIN entries_[p].Children : entries_[p].Children[i] = a
    BY DEF Parents, ChildrenOf, Elements
  <2>5. \A j \in DOMAIN entries_[p].Children : entries_[p].Children[j] = a => j = i
    BY <2>3, <2>4, <1>1 DEF Forest, OneToOne
  <2>6. in(p) = {<<p, i>>}
    BY <2>4, <2>5
  <2> HIDE DEF in, inRoots
  <2>7. UNION {in(q) : q \in Entries} = {<<p, i>>}
    BY <2>2, <2>3, <2>6
  <2>8. Holders(a) = {<<p, i>>}
    BY <2>7, <1>3, <1>5, <1>8
  <2> QED BY <2>8, <1>8, FS_Singleton
<1>9. Elements(roots_) \subseteq Entries
  BY <1>1, <1>2 DEF Forest, Elements, Entries
<1> QED BY <1>6, <1>7, <1>8, <1>9

\* Whatever is filtered out and in whatever order activities stop, no pointer in
\* the hierarchy dangles and every entry is pointed to exactly once.
THEOREM PointersStayValid == Spec => []PointersValid
<1>1. HierarchyInv => PointersValid
  BY HoldersOf DEF PointersValid
<1> QED BY <1>1, HierarchyInvariance, PTL

\* An activity that is running has its entry, where its next event looks for it.
THEOREM ActiveStayKept == Spec => []ActiveKept
<1>1. HierarchyInv => ActiveKept
  BY DEF HierarchyInv, KeptInv, ActiveKept, Parents
<1> QED BY <1>1, HierarchyInvariance, PTL

\* Siblings stay in the order they started and within their parent's time.
THEOREM IntervalsStayNested == Spec => []IntervalsNest
<1>1. HierarchyInv => IntervalsNest
  <2> SUFFICES ASSUME HierarchyInv PROVE IntervalsNest
    OBVIOUS
  <2>1. HierarchyTypeOK /\ TimesInv
    BY DEF HierarchyInv
  <2>2. entries_ \in Entrylike
    BY <2>1, TypeFacts
  <2>3. \A p \in Entries : \A c \in ChildrenOf(entries_, p) :
          c \in Activities /\ p \in Parents(entries_, c)
    BY <2>2, EntryFacts DEF Parents, Entries
  <2> QED BY <2>1, <2>3 DEF IntervalsNest, TimesInv, InOrder
<1> QED BY <1>1, HierarchyInvariance, PTL

\* A name reaches every instantiation that waits for it and is still shown.
THEOREM NamesStayResolved == Spec => []NamesResolved
<1>1. HierarchyInv => NamesResolved
  BY DEF HierarchyInv, NamesInv
<1> QED BY <1>1, HierarchyInvariance, PTL

\* An instantiation inside another one is erased with it, or not at all.
THEOREM GroupsStayWhole == Spec => GroupsKeptWhole
<1>1. HierarchyInv /\ [Next]_vars => [GroupKeptWhole]_hierarchyVars
  <2> SUFFICES ASSUME HierarchyInv, [Next]_vars, hierarchyVars' # hierarchyVars,
                      AnalyzeTemplates, NEW p \in Entries, NEW c \in Entries,
                      symbolKey[p] # Null, symbolKey[c] # Null,
                      c \in ChildrenOf(entries_, p), entries_'[c] = Null
               PROVE  entries_'[p] = Null
    BY DEF GroupKeptWhole
  <2>1. /\ HierarchyTypeOK /\ TreeInv /\ ForestInv /\ KeptInv /\ NamesInv
        /\ p \in Activities /\ c \in Activities
        /\ entries_[p] # Null /\ entries_[c] # Null
    BY DEF HierarchyInv, Entries
  <2>2. PICK a \in Activities : StopEntry(a)
    <3>1. ASSUME NEW a \in Activities, NEW k \in Kinds, NEW key \in Keys,
                 StartRoot(a, k, key)
          PROVE  FALSE
      <4>1. NewEntry(CreateEntry(k))
        BY <3>1, AnnounceFacts DEF StartRoot, StartRootEntry
      <4>2. entries_'[c] \in {entries_[c], CreateEntry(k)}
        BY <3>1, <2>1 DEF StartRoot, StartRootEntry, HierarchyTypeOK
      <4> QED BY <4>1, <4>2, <2>1, NoEntryAssumption DEF NewEntry
    <3>2. ASSUME NEW a \in Activities, NEW q \in Activities, NEW k \in Kinds,
                 NEW key \in Keys, StartNested(a, q, k, key)
          PROVE  FALSE
      <4>1. HierarchyInv' /\ c \in started /\ c # a
        BY <3>2, StartNestedInv, AnnounceFacts
        DEF StartNested, StartNestedEntry, HierarchyInv, IdsInv
      <4>2. entries_' = WithChild(entries_, q, a, CreateEntry(k)) /\ q # a
        BY <3>2, <2>1, BeginNestedInv DEF StartNested, StartNestedEntry, WithChild
      <4>3. CASE c # q
        BY <4>1, <4>2, <4>3, <2>1 DEF WithChild, HierarchyTypeOK
      <4>4. CASE c = q
        <5>1. entries_[q] \in Entry
          BY <4>4, <2>1, TypeFacts, EntryFacts
        <5>2. entries_[q].Children \in Seq(Activities)
          BY <5>1 DEF Entry
        <5>3. entries_'[q] = [entries_[q] EXCEPT !.Children = Append(entries_[q].Children, a)]
          BY <4>2, <2>1 DEF WithChild, HierarchyTypeOK
        <5>4. Append(entries_[q].Children, a) \in Seq(Activities)
          BY <5>2
        <5>5. entries_'[q] \in Entry
          BY <5>1, <5>3, <5>4 DEF Entry
        <5> QED BY <4>4, <5>5, NoEntryAssumption
      <4> QED BY <4>3, <4>4
    <3>3. ASSUME NEW key \in SymbolKeys, SymbolName(key) PROVE FALSE
      <4>1. entries_'[c] \in {entries_[c], [entries_[c] EXCEPT !.Name = key]}
        BY <3>3, <2>1 DEF SymbolName, OnSymbolName
      <4>2. entries_[c] \in Entry
        BY <2>1, TypeFacts, EntryFacts
      <4>3. [entries_[c] EXCEPT !.Name = key] \in Entry
        BY <4>2 DEF Entry
      <4> QED BY <4>1, <4>2, <4>3, NoEntryAssumption
    <3>4. entries_' # entries_
      BY <2>1
    <3> QED BY <3>1, <3>2, <3>3, <3>4
        DEF Next, StopActivity, TimePasses, Tick, OnEndAnalysis, vars, hierarchyVars
  <2>3. c \notin Entries' /\ (p \notin Entries' => entries_'[p] = Null)
    BY <2>1 DEF Entries
  <2>4. p \in Parents(entries_, c)
    BY <2>1 DEF Parents
  <2>5. CASE c # a
    BY <2>2, <2>3, <2>4, <2>5, StopFacts
  <2>6. CASE c = a
    <3>1. IsIgnored(a) /\ a \in Active
      BY <2>2, <2>3, <2>6, <2>1, StopFacts, EndInv DEF StopEntry
    <3>2. kind[a] = "TemplateInstantiation" /\ parent[a] # Null
      BY <3>1, <2>6, <2>1 DEF NamesInv
    <3>3. IsGroupRoot(a)
      BY <3>1, <3>2 DEF IsIgnored
    <3>4. p = parent[a] /\ p \in Active
      BY <3>1, <3>2, <2>1, <2>4, <2>6 DEF KeptInv, ForestInv, Forest, TreeInv
    <3>5. kind[p] = "TemplateInstantiation"
      BY <3>4, <2>1 DEF NamesInv
    <3> QED BY <3>3, <3>4, <3>5 DEF IsGroupRoot
  <2> QED BY <2>5, <2>6
<1> QED BY <1>1, HierarchyInvariance, PTL DEF Spec, GroupsKeptWhole

=============================================================================
