------------------------- MODULE MCResourceCoherence -------------------------
EXTENDS ResourceCoherence, TLC

\* Writing threads are interchangeable.
Symmetry == Permutations(Writers)

\* What the steps and the properties of the passing run depend on: the copies the
\* backend made are not among it.
WithoutCopies ==
  <<spaceVars, recordVars, writers, born,
    [r \in Resources |-> <<uploads[r].stage, uploads[r].generation, uploads[r].seen>>]>>
=============================================================================
