----------------------------- MODULE MCAdmission -----------------------------
EXTENDS Admission, TLC

\* Shells are interchangeable.
Symmetric == Permutations(Shells)
=============================================================================
