----------------------------- MODULE MCTRTRelease -----------------------------
\* Model-checking instances of TRTRelease.
EXTENDS TRTRelease, TLC

\* Handlers and release ids are interchangeable.
Symmetry == Permutations(Handlers) \cup Permutations(Releases)

===============================================================================
