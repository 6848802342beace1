-------------------------- MODULE MCPromptSession --------------------------
(* Instances of PromptSession for TLC. *)
EXTENDS PromptSession, FiniteSets, TLC

CONSTANTS q1, q2, c1, c2

(* The deadline of one prompt passes. *)
OneLate == Cardinality(late) <= 1

SymmetricConns == Permutations(Conns)
Symmetry == Permutations(Conns) \cup Permutations(Prompts)
=============================================================================
