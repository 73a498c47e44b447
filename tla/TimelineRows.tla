---------------------------- MODULE TimelineRows ----------------------------
(***************************************************************************)
(* What ContextBuilder promises about timelines, with no trace, pool or    *)
(* reuse count: a table whose rows are handed out to activities, the       *)
(* topmost free row first, and taken back.                                 *)
(***************************************************************************)
EXTENDS Integers, FiniteSets

CONSTANTS
  Owners,   \* who may hold a row
  NoRow     \* not a number: what an owner without a row has

VARIABLE row

TypeOK == row \in [Owners -> Nat \cup {NoRow}]

Occupied == {row[o] : o \in Owners} \ {NoRow}

Init == row = [o \in Owners |-> NoRow]

\* o gets the topmost row that nobody holds.
Acquire(o) ==
  /\ row[o] = NoRow
  /\ \E r \in (0 .. Cardinality(Occupied)) \ Occupied :
       /\ 0 .. (r - 1) \subseteq Occupied
       /\ row' = [row EXCEPT ![o] = r]

Release(o) ==
  /\ row[o] # NoRow
  /\ row' = [row EXCEPT ![o] = NoRow]

Next == \E o \in Owners : Acquire(o) \/ Release(o)

Spec == Init /\ [][Next]_row

\* No row has two holders.
RowsExclusive ==
  \A o, q \in Owners : o # q /\ row[o] # NoRow => row[o] # row[q]

=============================================================================
