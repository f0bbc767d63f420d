------------------------- MODULE MCConfigParameters -------------------------
(* Model-checking instance of ConfigParameters: one plain and one sensitive *)
(* parameter; value c is outside what the sensitive one allows.             *)
EXTENDS ConfigParameters, TLC

CONSTANTS plain, secret, a, b, c

MCParams == {plain, secret}

MCValues == {a, b, c}

MCAllowed == (plain :> {a, b, c}) @@ (secret :> {a, b})

MCInitial == (plain :> a) @@ (secret :> a)

MCSensitive == {secret}

Symmetry == Permutations(Sessions)

=============================================================================
