---------------------------- MODULE MCTrustVisor ----------------------------
\* Instance of TrustVisor for TLC.
EXTENDS TrustVisor

Symmetry == Permutations(CPU) \cup Permutations(Page)

\* Stopping for good changes no other variable and has no successor: one such
\* state stands for all.
View == IF stopped \in {"halt", "spin"} THEN <<stopped>> ELSE vars
=============================================================================
