-------------------------------- MODULE Lru --------------------------------
(***************************************************************************)
(* The cache set of include/stl/xmhf-lru.h, which nested virtualisation    *)
(* uses for the EPT02s it builds.  A set is two functions on its lines:    *)
(* valid, 0 for an invalid line and otherwise its age from 1 (used last)   *)
(* to NLines, and key.  The operators return the new functions.            *)
(***************************************************************************)
EXTENDS Naturals, FiniteSetsExt

CONSTANT NLines   \* LRU_SIZE

ASSUME NLinesAssumption == NLines \in Nat \ {0}

Line == 0 .. NLines - 1

LRU_SET_INIT == [l \in Line |-> 0]

\* Where the loop of LRU_SET_FIND_EVICT finds the key.  It compares the key of
\* a line only if the line is neither invalid nor the oldest.
Hits(valid, key, k) == {l \in Line : valid[l] \notin {0, NLines} /\ key[l] = k}

\* The line that LRU_SET_FIND_EVICT returns: the first hit, else the last
\* invalid line, else the last line of age NLines.
FoundLine(valid, key, k) ==
  LET invalid == {l \in Line : valid[l] = 0} IN
  IF Hits(valid, key, k) # {} THEN Min(Hits(valid, key, k))
  ELSE IF invalid # {} THEN Max(invalid)
  ELSE Max({l \in Line : valid[l] = NLines})

\* Mutant: the oldest line ages too.
AgedPast(valid, key, k) ==
  LET found == FoundLine(valid, key, k)
      max == IF Hits(valid, key, k) # {} THEN valid[found] ELSE NLines
  IN  [l \in Line |-> IF l = found THEN 1
                      ELSE IF valid[l] \in 1 .. max THEN valid[l] + 1 ELSE valid[l]]

\* The ages after LRU_SET_FIND_EVICT: lines younger than the one found age.
Aged(valid, key, k) ==
  LET found == FoundLine(valid, key, k)
      max == IF Hits(valid, key, k) # {} THEN valid[found] ELSE NLines
  IN  [l \in Line |-> IF l = found THEN 1
                      ELSE IF valid[l] \in 1 .. max - 1 THEN valid[l] + 1 ELSE valid[l]]

\* LRU_SET_INVALIDATE: the first line that has the key, if any, oldest or not.
LRU_SET_INVALIDATE(valid, key, k) ==
  LET lines == {l \in Line : valid[l] # 0 /\ key[l] = k} IN
  IF lines = {} THEN valid ELSE [valid EXCEPT ![Min(lines)] = 0]
=============================================================================
