---------------------------- MODULE ActivityTree ----------------------------
(***************************************************************************)
(* The event source of vcperf: the C++ Build Insights SDK replays a trace  *)
(* of start and stop events and hands every analyzer an EventStack, the    *)
(* chain of activities from a root to the activity of the event.  The SDK  *)
(* is not part of the repository.  This module states what the analyzers   *)
(* under src/ rely on: an activity starts while its parent is active, and  *)
(* stops when none of its children is.  An activity without a parent in    *)
(* the trace (the collection started in the middle of the build) is a root *)
(* whatever its kind.                                                      *)
(*                                                                         *)
(* An element of Activities is an instance id that the trace may use       *)
(* again once the activity has stopped.  A real id is never used twice;    *)
(* reuse keeps traces of any length inside a finite set and is the harder  *)
(* case, as anything an analyzer forgot to erase meets the next activity.  *)
(***************************************************************************)
EXTENDS Naturals, FiniteSets

CONSTANTS
  Activities,   \* instance ids
  Null,         \* no activity
  RootKinds,    \* the kinds of activities that may have no parent in the trace
  ChildKinds    \* the kinds of children an activity of each kind may have

\* The kinds some analyzer or view tells apart.  "Phase" stands for the other
\* steps of a compiler or linker that the Build Explorer view lists (C1DLL, the
\* passes of the linker, code generation), "Activity" for everything else.
Kinds == {"Compiler", "Linker", "CompilerPass", "C2DLL", "Thread", "Function",
          "FrontEndFile", "TemplateInstantiation", "Phase", "Activity"}

InvocationKinds == {"Compiler", "Linker"}

ASSUME NullAssumption == Null \notin Activities /\ Null \notin Kinds

\* A compiler pass with a parent has the compiler invocation as its parent.
ASSUME NestingAssumption ==
  /\ RootKinds \subseteq Kinds
  /\ ChildKinds \in [Kinds -> SUBSET Kinds]
  /\ \A k \in Kinds : "CompilerPass" \in ChildKinds[k] => k = "Compiler"

VARIABLES
  kind,     \* kind[a]: the type of activity a, Null when a is not active
  parent,   \* parent[a]: the activity below a in its event stack, Null for a root
  stack     \* stack[a]: the activities of the event stack that ends in a

treeVars == <<kind, parent, stack>>

TreeTypeOK ==
  /\ kind \in [Activities -> Kinds \cup {Null}]
  /\ parent \in [Activities -> Activities \cup {Null}]
  /\ stack \in [Activities -> SUBSET Activities]

Active == {a \in Activities : kind[a] # Null}
Children(a) == {c \in Activities : parent[c] = a}

\* The innermost activity of one of the kinds ks in the event stack of a, if any:
\* what a parameter of that type is bound to when the stack is matched.
Innermost(a, ks) ==
  {x \in stack[a] : /\ kind[x] \in ks
                    /\ \A y \in stack[a] : kind[y] \in ks => y \in stack[x]}

\* The group of kind k that ends in the innermost k of a's stack: the activities
\* of that kind with nothing else between them.
InnermostGroup(a, k) ==
  {x \in stack[a] : \E n \in Innermost(a, {k}) :
     x \in stack[n] /\ \A y \in stack[n] : x \in stack[y] => kind[y] = k}

\* Two activities of one chain: one of them runs on behalf of the other.
Related(a, b) == a \in stack[b] \/ b \in stack[a]

TreeInit ==
  /\ kind = [a \in Activities |-> Null]
  /\ parent = [a \in Activities |-> Null]
  /\ stack = [a \in Activities |-> {}]

BeginRoot(a, k) ==
  /\ kind[a] = Null
  /\ k \in RootKinds
  /\ kind' = [kind EXCEPT ![a] = k]
  /\ stack' = [stack EXCEPT ![a] = {a}]
  /\ UNCHANGED parent

BeginNested(a, p, k) ==
  /\ kind[a] = Null
  /\ kind[p] # Null
  /\ k \in ChildKinds[kind[p]]
  /\ kind' = [kind EXCEPT ![a] = k]
  /\ parent' = [parent EXCEPT ![a] = p]
  /\ stack' = [stack EXCEPT ![a] = stack[p] \cup {a}]

End(a) ==
  /\ kind[a] # Null
  /\ Children(a) = {}
  /\ kind' = [kind EXCEPT ![a] = Null]
  /\ parent' = [parent EXCEPT ![a] = Null]
  /\ stack' = [stack EXCEPT ![a] = {}]

-----------------------------------------------------------------------------
\* The event stacks are the paths of a forest of active activities.
TreeInv ==
  /\ TreeTypeOK
  /\ \A a \in Activities \ Active : parent[a] = Null /\ stack[a] = {}
  /\ \A a \in Active : a \in stack[a]
  /\ \A a \in Active : parent[a] = Null => stack[a] = {a}
  /\ \A a \in Active : parent[a] # Null =>
       /\ parent[a] \in Active
       /\ stack[a] = stack[parent[a]] \cup {a}
       /\ a \notin stack[parent[a]]
  /\ \A a \in Active : \A x \in stack[a] : x \in Active /\ stack[x] \subseteq stack[a]
  /\ \A a \in Active : \A x \in stack[a] \ {a} :
       /\ a \notin stack[x]
       /\ \E c \in stack[a] : parent[c] = x

=============================================================================
