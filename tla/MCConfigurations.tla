------------------------- MODULE MCConfigurations -------------------------
(* Model-checking instance of Configurations; sessions and names are        *)
(* interchangeable.                                                         *)
EXTENDS Configurations, TLC

Symmetry == Permutations(Sessions) \cup Permutations(Names)

=============================================================================
