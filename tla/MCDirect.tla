------------------------------ MODULE MCDirect ------------------------------
(* An instance of DirectSim: sources are interchangeable.                  *)
EXTENDS DirectSim, TLC

Symmetry == Permutations(Source)

=============================================================================
