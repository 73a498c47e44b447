-------------------------- MODULE MCTemplatePasses --------------------------
(* Instances of TemplatePasses for TLC. *)
EXTENDS TemplatePasses, TLC

CONSTANTS p1, p2, s1, s2

\* Two templates with one specialization each.
OneEach == (s1 :> p1) @@ (s2 :> p2)

NameSymmetry == Permutations(Names)

=============================================================================
