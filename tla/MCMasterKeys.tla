---------------------------- MODULE MCMasterKeys ----------------------------
(* Model-checking instance of MasterKeys. *)
EXTENDS MasterKeys, TLC

CONSTANT k1

MCSeeded == {k1}

MCRequired == {2}

Symmetry == Permutations(Sessions) \cup Permutations(Custodians)
            \cup Permutations(Keys \ Seeded)

=============================================================================
