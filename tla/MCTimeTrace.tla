---------------------------- MODULE MCTimeTrace -----------------------------
(* Instances of TimeTrace for TLC. *)
EXTENDS TimeTrace

\* Activities of one kind, in any nesting: what the rows depend on.
LayoutRoots == {"Activity"}
LayoutNesting == [k \in Kinds |-> IF k = "Activity" THEN {"Activity"} ELSE {}]

\* What the filter looks at: functions, and groups of template instantiations.
FilterRoots == {"Activity", "Function"}
FilterNesting ==
  [k \in Kinds |->
     CASE k = "Activity"              -> {"Function", "TemplateInstantiation"}
       [] k = "TemplateInstantiation" -> {"TemplateInstantiation", "Activity"}
       [] OTHER                       -> {}]

\* Ids are interchangeable: only the traces that use them in order matter.
First[n \in 0 .. Cardinality(Activities)] ==   \* the first n ids
  IF n = 0 THEN {}
  ELSE LET before == First[n - 1] IN before \cup {CHOOSE a \in Activities : a \notin before}
IdsInOrder == started = First[Cardinality(started)]

\* One process whose entries all run at the same time: what the rows depend on
\* in a wide hierarchy.  They start level by level, at most three below one
\* entry, and stop in the reverse order.
Rank(a) == CHOOSE n \in 1 .. Cardinality(Activities) : a \in First[n] \ First[n - 1]
LevelByLevel ==
  \A a, b \in Active :
    parent[a] # Null /\ parent[b] # Null /\ Rank(a) < Rank(b)
      => Rank(parent[a]) <= Rank(parent[b])
AllAtOnce ==
  /\ IdsInOrder /\ Len(roots_) <= 1
  /\ clock = 0 => Active = started /\ LevelByLevel
  /\ clock = 1 => started = Activities /\ Active = First[Cardinality(Active)]
  /\ \A a \in Active : Len(entries_[a].Children) <= 3

\* One process.
OneProcess == IdsInOrder /\ Len(roots_) <= 1

=============================================================================
