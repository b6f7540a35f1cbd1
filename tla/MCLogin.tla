------------------------------ MODULE MCLogin ------------------------------
EXTENDS Login, TLC

Interchangeable == Permutations(Workers)
=============================================================================
