----------------------------- MODULE MCZeroSdk -----------------------------
EXTENDS ZeroSdk, TLC

\* The callers are interchangeable.
CallerSymmetry == Permutations(Callers)
=============================================================================
