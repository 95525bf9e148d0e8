----------------------------- MODULE MCSession -------------------------------
(* Session on small instances. *)
EXTENDS Session, TLC

\* Messages, prompts, patterns and goroutines are interchangeable.
Symmetry == Permutations(Msgs) \cup Permutations(Prompts) \cup Permutations(Runs)
==============================================================================
