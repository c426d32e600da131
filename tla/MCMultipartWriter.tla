-------------------------- MODULE MCMultipartWriter --------------------------
EXTENDS MultipartWriter, TLC

\* Writers are interchangeable.
Symmetry == Permutations(Writers)
=============================================================================
