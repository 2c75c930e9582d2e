---------------------------- MODULE NestedProofs ----------------------------
(***************************************************************************)
(* Nested virtualisation is correct for any number of slots and of cache   *)
(* lines, any VMCS12s and EPT12s of L1, and wherever a change of EPT01     *)
(* arrives.  The argument: a mapping from before a change can only be      *)
(* where no lookup finds it, unless the flush for that change is still     *)
(* noted somewhere; and the line an L2 runs on is always the one used      *)
(* last, so that the lookup of an exit finds it again.                     *)
(***************************************************************************)
EXTENDS Nested, FiniteSetTheorems, TLAPS

-----------------------------------------------------------------------------
(* The inductive invariant *)

\* What lookups keep true of a cache set: lines that a lookup may hit have
\* different keys, and their ages differ.
SetOK(ages, keys) ==
  \A l, m \in Line :
    /\ ages[l] \notin {0, NLines} /\ ages[m] \notin {0, NLines} /\ keys[l] = keys[m] => l = m
    /\ ages[l] \notin {0, NLines} /\ ages[m] = ages[l] => l = m

LruOK == SetOK(valid, key)

\* Where the main thread has flushes blocked.
BlockedAt == {"en_translate", "en_mode", "walk", "insert", "fw_translate", "fw_mode",
              "invept", "un_off", "un_effect"}

\* Where it is inside unblock_ept02_flush.
UnblockingAt == {"un_off", "un_test", "un_read", "un_clear", "un_on", "un_effect"}

\* Where L2 has been entered, or is about to be.
NonrootAt == {"l2", "enter", "walk", "insert", "forward", "fw_translate", "fw_mode"}

\* Which place, mode and VMCS go together.
Places ==
  /\ at # "refused" => (disable <=> at \in BlockedAt)
  /\ at \in {"en_translate", "en_mode", "invept"} => mode = "root"
  /\ at \in NonrootAt => mode = "nonroot"
  /\ at = "l1" => mode # "nonroot"
  /\ at \in UnblockingAt => mode = IF next = "l1" THEN "root" ELSE "nonroot"
  /\ mode = "disabled" => cur = NoSlot
  /\ mode = "nonroot" \/ at \in {"en_translate", "en_mode"} => loaded = cur /\ cur # NoSlot
  /\ at = "insert" => guest_ept_root[cur] # NoEpt

\* Where noted flushes are.
Noted ==
  /\ at \in {"l1", "l2", "enter", "forward"} => visited = {}
  /\ at \notin {"un_clear", "un_on", "un_effect"} => flags = {}
  /\ at = "un_clear" => flags = visited
  /\ hand # "none" => at = "insert"

\* The processor and L1 agree on which VMCS is launched.
Launches ==
  mode # "disabled" => \A s \in Slot : vmcs12_ptr[s] # NoVmcs
                                         => (s \in launched <=> s \in hw_launched)

\* The EPT pointer of the VMCS02 that L2 runs on, with the line used last.
LastLine ==
  IF guest_ept_root[cur] = NoEpt
    THEN eptp[cur] = EPT01
    ELSE /\ LineFits /\ eptp[cur] = guest_ept_cache_line[cur]
         /\ valid[guest_ept_cache_line[cur]] = 1

OnLine == mode = "nonroot" \/ at = "en_mode" => LastLine

\* A change of EPT01 has yet to be carried out.
FlushPending == stopped \/ "entry" \in visited \cup flags

Fresh ==
  ~FlushPending => /\ \A l \in old01 : valid[l] = 0
                   /\ hand # "old"
                   /\ mode = "nonroot" \/ at = "en_mode" => cur \notin oldaddr

\* L1 has no more VMCSs than there are slots, and the cache is not a single line.
Enough == NLines > 1 /\ IsFiniteSet(Vmcs12) /\ Cardinality(Vmcs12) <= NSlots

NestedInductive ==
  /\ TypeOK
  /\ LruOK
  /\ ActiveOnce
  /\ eptp[VMCS01] = EPT01
  /\ at # "halted" => Places /\ Noted /\ Launches /\ OnLine /\ Fresh
  /\ at = "halted" => ~stopped /\ ~Enough

-----------------------------------------------------------------------------
(* The cache set *)

LEMMA LeastOfSet ==
  ASSUME NEW S, S \subseteq Nat, S # {}
  PROVE  \E x \in S : \A y \in S : x <= y
<1>1. \E x \in S : \A y \in S : ~(<<y, x>> \in OpToRel(<, Nat))
  BY NatLessThanWellFounded, WFMin, Zenon
<1>2. \A x, y \in Nat : y < x => <<y, x>> \in OpToRel(<, Nat)
  BY DEF OpToRel
<1>3. PICK x \in S : \A y \in S : ~(<<y, x>> \in OpToRel(<, Nat))
  BY <1>1
<1>4. \A y \in S : ~(y < x)
  BY <1>2, <1>3, Zenon
<1> QED
  BY <1>4

LEMMA MinOfSet ==
  ASSUME NEW S, S \subseteq Nat, S # {}
  PROVE  Min(S) \in S
BY LeastOfSet, Zenon DEF Min

LEMMA MaxOfSet ==
  ASSUME NEW n \in Nat, NEW S, S \subseteq 0 .. n, S # {}
  PROVE  Max(S) \in S
<1> DEFINE T == {t \in Nat : \E x \in S : t = n - x}
<1>1. \A x \in S : n - x \in T
  OBVIOUS
<1>2. PICK t \in T : \A u \in T : t <= u
  <2>1. T \subseteq Nat /\ T # {}
    BY <1>1
  <2> QED
    BY <2>1, LeastOfSet
<1>3. PICK x \in S : t = n - x
  OBVIOUS
<1>4. \A y \in S : n - x <= n - y
  BY <1>1, <1>2, <1>3
<1>5. \A y \in S : x >= y
  BY <1>4
<1> QED
  BY <1>5, Zenon DEF Max

Ages == [Line -> 0 .. NLines]
Keys == Ept12 \cup {NoEpt}

LEMMA LineCount == /\ IsFiniteSet(Line) /\ Cardinality(Line) = NLines
                   /\ IsFiniteSet(1 .. NLines - 1)
                   /\ Cardinality(1 .. NLines - 1) = NLines - 1
<1>1. 0 \in Int /\ 1 \in Int /\ NLines - 1 \in Int /\ NLines > 0
  BY NLinesAssumption
<1>2. IsFiniteSet(Line) /\ Cardinality(Line) = NLines
  BY <1>1, FS_Interval, NLinesAssumption DEF Line
<1>3. /\ IsFiniteSet(1 .. NLines - 1)
      /\ Cardinality(1 .. NLines - 1) = IF 1 > NLines - 1 THEN 0 ELSE NLines - 1 - 1 + 1
  BY <1>1, FS_Interval
<1> QED
  BY <1>1, <1>2, <1>3, NLinesAssumption

\* If no line is invalid then some line has the greatest age: LRU_SET_FIND_EVICT
\* always finds a line to evict.
LEMMA SomeLineOldest ==
  ASSUME NEW ages \in Ages, NEW keys, SetOK(ages, keys)
  PROVE  \E l \in Line : ages[l] \in {0, NLines}
<1> DEFINE young == 1 .. NLines - 1
<1>1. IsFiniteSet(Line) /\ IsFiniteSet(young) /\ Cardinality(young) < Cardinality(Line)
  BY LineCount, NLinesAssumption
<1>2. ASSUME \A l \in Line : ages[l] \notin {0, NLines}
      PROVE  FALSE
  <2>1. ages \in [Line -> young]
    BY <1>2, NLinesAssumption DEF Ages
  <2> HIDE DEF young
  <2>2. \E l, m \in Line : l # m /\ ages[l] = ages[m]
    BY ONLY <1>1, <2>1, FS_PigeonHole
  <2> QED
    BY <1>2, <2>2 DEF SetOK
<1> QED
  BY <1>2

LEMMA FoundOK ==
  ASSUME NEW ages \in Ages, NEW keys, SetOK(ages, keys), NEW k
  PROVE  /\ FoundLine(ages, keys, k) \in Line
         /\ Hits(ages, keys, k) # {}
              => FoundLine(ages, keys, k) \in Hits(ages, keys, k)
         /\ Hits(ages, keys, k) = {} => ages[FoundLine(ages, keys, k)] \in {0, NLines}
<1> DEFINE hits == Hits(ages, keys, k)
           invalid == {l \in Line : ages[l] = 0}
           oldest == {l \in Line : ages[l] = NLines}
<1>1. Line = 0 .. NLines - 1 /\ NLines - 1 \in Nat /\ Line \subseteq Nat
  BY NLinesAssumption DEF Line
<1>2. CASE hits # {}
  <2>1. hits \subseteq Line
    BY DEF Hits
  <2>2. Min(hits) \in hits
    BY <1>1, <1>2, <2>1, MinOfSet
  <2>3. FoundLine(ages, keys, k) = Min(hits)
    BY <1>2 DEF FoundLine
  <2> QED
    BY <1>2, <2>1, <2>2, <2>3
<1>3. CASE hits = {} /\ invalid # {}
  <2>1. Max(invalid) \in invalid
    BY <1>1, <1>3, MaxOfSet
  <2>2. FoundLine(ages, keys, k) = Max(invalid)
    BY <1>3 DEF FoundLine
  <2> QED
    BY <1>3, <2>1, <2>2
<1>4. CASE hits = {} /\ invalid = {}
  <2>1. oldest # {}
    BY <1>4, SomeLineOldest
  <2>2. Max(oldest) \in oldest
    BY <1>1, <2>1, MaxOfSet
  <2>3. FoundLine(ages, keys, k) = Max(oldest)
    BY <1>4 DEF FoundLine
  <2> QED
    BY <1>4, <2>2, <2>3
<1> QED
  BY <1>2, <1>3, <1>4

\* The keys after a lookup of k that found line f.
Relabelled(keys, f, k, newkeys) ==
  \A l \in Line : newkeys[l] = IF l = f THEN k ELSE keys[l]

\* A lookup keeps the set in order, makes the line it finds the one used last
\* and leaves the other invalid lines invalid.
Looked(ages, f, new, newkeys) ==
  /\ new \in Ages
  /\ new[f] = 1
  /\ \A l \in Line : ages[l] = 0 /\ l # f => new[l] = 0
  /\ SetOK(new, newkeys)

LEMMA LookupOK ==
  ASSUME NEW ages \in Ages, NEW keys, SetOK(ages, keys), NEW k,
         NEW newkeys, Relabelled(keys, FoundLine(ages, keys, k), k, newkeys)
  PROVE  Looked(ages, FoundLine(ages, keys, k), Aged(ages, keys, k), newkeys)
<1> DEFINE f == FoundLine(ages, keys, k)
           new == Aged(ages, keys, k)
           hit == Hits(ages, keys, k) # {}
           max == IF hit THEN ages[f] ELSE NLines
<1>1. Relabelled(keys, f, k, newkeys)
  OBVIOUS
<1>2. f \in Line /\ (hit => ages[f] \notin {0, NLines} /\ keys[f] = k)
  BY FoundOK DEF Hits
<1>3. max \in 1 .. NLines
  BY <1>2, NLinesAssumption DEF Ages
<1>4. new = [l \in Line |-> IF l = f THEN 1
                            ELSE IF ages[l] \in 1 .. max - 1 THEN ages[l] + 1 ELSE ages[l]]
  BY DEF Aged
<1>5. \A l \in Line : ages[l] \in 0 .. NLines
  BY DEF Ages
<1>6. ~hit => \A l \in Line : ages[l] \notin {0, NLines} => keys[l] # k
  BY DEF Hits
<1>7. hit => \A l \in Line : l # f /\ ages[l] \notin {0, NLines} => keys[l] # k /\ ages[l] # max
  BY <1>2, <1>5 DEF SetOK
<1>8. NLines \in Nat \ {0}
  BY NLinesAssumption
<1> HIDE DEF f, new, hit, max
<1>9. new \in Ages
  BY <1>3, <1>4, <1>5, <1>8 DEF Ages
<1>10. \A l \in Line : l # f => \/ new[l] = ages[l] /\ ages[l] \notin 1 .. max - 1
                                \/ new[l] = ages[l] + 1 /\ ages[l] \in 1 .. max - 1
  BY <1>4
<1>11. new[f] = 1
  BY <1>2, <1>4
<1>12. \A l \in Line : l # f /\ new[l] \notin {0, NLines} =>
         ages[l] \notin {0, NLines} /\ new[l] # 1 /\ keys[l] # k
  <2> TAKE l \in Line
  <2> HAVE l # f /\ new[l] \notin {0, NLines}
  <2>1. ages[l] \notin {0, NLines}
    BY <1>3, <1>5, <1>8, <1>10
  <2>2. keys[l] # k
    BY <2>1, <1>6, <1>7
  <2>3. new[l] # 1
    <3>1. CASE hit
      BY <3>1, <2>1, <1>3, <1>5, <1>7, <1>8, <1>10
    <3>2. CASE ~hit
      <4>1. max = NLines
        BY <3>2 DEF max
      <4> QED
        BY <4>1, <2>1, <1>5, <1>8, <1>10
    <3> QED
      BY <3>1, <3>2
  <2> QED
    BY <2>1, <2>2, <2>3
<1>13. \A l, m \in Line : l # f /\ m # f /\ new[l] \notin {0, NLines} /\ new[l] = new[m] => l = m
  <2> TAKE l, m \in Line
  <2> HAVE l # f /\ m # f /\ new[l] \notin {0, NLines} /\ new[l] = new[m]
  <2>1. ages[l] \notin {0, NLines} /\ ages[m] \notin {0, NLines}
    BY <1>12
  <2>2. ages[l] = ages[m] => l = m
    BY <2>1 DEF SetOK
  <2>3. hit => ages[l] # max /\ ages[m] # max
    BY <2>1, <1>7
  <2>4. ~hit => max = NLines
    BY DEF max
  <2>5. ages[l] # max /\ ages[m] # max
    BY <2>1, <2>3, <2>4
  <2> QED
    BY <2>2, <2>5, <1>3, <1>5, <1>8, <1>10
<1>14. \A l, m \in Line : l # f /\ m # f /\ new[l] \notin {0, NLines} /\ new[m] \notin {0, NLines}
                           /\ keys[l] = keys[m] => l = m
  BY <1>12 DEF SetOK
<1>15. SetOK(new, newkeys)
  BY <1>1, <1>11, <1>12, <1>13, <1>14 DEF SetOK, Relabelled
<1>16. Looked(ages, f, new, newkeys)
  BY <1>3, <1>8, <1>9, <1>10, <1>11, <1>15 DEF Looked
<1> QED
  BY <1>16 DEF f, new

\* The line used last is found again, unless it is the only one.
LEMMA FoundAgain ==
  ASSUME NEW ages \in Ages, NEW keys, SetOK(ages, keys), NEW l \in Line,
         ages[l] = 1, NLines > 1
  PROVE  Hits(ages, keys, keys[l]) # {} /\ FoundLine(ages, keys, keys[l]) = l
<1>1. l \in Hits(ages, keys, keys[l])
  BY DEF Hits
<1>2. FoundLine(ages, keys, keys[l]) \in Hits(ages, keys, keys[l])
  BY <1>1, FoundOK
<1> QED
  BY <1>1, <1>2 DEF Hits, SetOK

LEMMA InvalidateOK ==
  ASSUME NEW ages \in Ages, NEW keys, SetOK(ages, keys), NEW k
  PROVE  /\ LRU_SET_INVALIDATE(ages, keys, k) \in Ages
         /\ SetOK(LRU_SET_INVALIDATE(ages, keys, k), keys)
         /\ \A l \in Line : ages[l] = 0 => LRU_SET_INVALIDATE(ages, keys, k)[l] = 0
<1> DEFINE lines == {l \in Line : ages[l] # 0 /\ keys[l] = k}
           new == LRU_SET_INVALIDATE(ages, keys, k)
<1>1. CASE lines = {}
  BY <1>1 DEF LRU_SET_INVALIDATE
<1>2. CASE lines # {}
  <2>1. PICK m : m = Min(lines)
    OBVIOUS
  <2>2. lines \subseteq Nat
    BY NLinesAssumption DEF Line
  <2>3. m \in Line
    BY <1>2, <2>1, <2>2, MinOfSet
  <2>4. new = [ages EXCEPT ![m] = 0]
    BY <1>2, <2>1 DEF LRU_SET_INVALIDATE
  <2> HIDE DEF new
  <2>5. new \in Ages /\ \A l \in Line : new[l] = ages[l] \/ new[l] = 0
    BY <2>3, <2>4, NLinesAssumption DEF Ages
  <2>6. \A l \in Line : new[l] \notin {0, NLines} => new[l] = ages[l]
    BY <2>5
  <2>7. SetOK(new, keys)
    BY <2>6 DEF SetOK
  <2> QED
    BY <2>5, <2>7 DEF new
<1> QED
  BY <1>1, <1>2

LEMMA InitOK ==
  ASSUME NEW keys
  PROVE  /\ LRU_SET_INIT \in Ages /\ SetOK(LRU_SET_INIT, keys)
         /\ \A l \in Line : LRU_SET_INIT[l] = 0
BY NLinesAssumption DEF LRU_SET_INIT, Ages, SetOK

-----------------------------------------------------------------------------
(* What get_ept02, rewalk_ept01, flush_ept02 and the translation do *)

LEMMA GetEffect ==
  ASSUME TypeOK, NEW ages \in Ages, SetOK(ages, key), NEW k \in Keys, get_ept02(ages, k),
         NEW f, f = FoundLine(ages, key, k)
  PROVE  /\ f \in Line
         /\ valid' \in Ages /\ key' \in [Line -> Keys]
         /\ filled' \subseteq Line /\ old01' \subseteq Line /\ old12' \subseteq Line
         /\ SetOK(valid', key')
         /\ valid'[f] = 1 /\ key'[f] = k
         /\ (\A l \in old01 : ages[l] = 0) => \A l \in old01' : valid'[l] = 0
<1>1. f \in Line
  BY FoundOK
<1>2. key \in [Line -> Keys] /\ filled \subseteq Line /\ old01 \subseteq Line /\ old12 \subseteq Line
  BY DEF TypeOK, Keys
<1>3. /\ valid' = Aged(ages, key, k)
      /\ key' = [key EXCEPT ![f] = k]
      /\ filled' \subseteq filled /\ old01' \subseteq old01 /\ old12' \subseteq old12
      /\ Hits(ages, key, k) = {} => f \notin old01'
  BY DEF get_ept02
<1>4. /\ key' \in [Line -> Keys] /\ key'[f] = k
      /\ \A l \in Line : key'[l] = IF l = f THEN k ELSE key[l]
  BY <1>1, <1>2, <1>3
<1>5. /\ valid' \in Ages /\ valid'[f] = 1
      /\ \A l \in Line : ages[l] = 0 /\ l # f => valid'[l] = 0
      /\ SetOK(valid', key')
  <2>1. Relabelled(key, FoundLine(ages, key, k), k, key')
    BY <1>4 DEF Relabelled
  <2>2. Looked(ages, FoundLine(ages, key, k), Aged(ages, key, k), key')
    BY <2>1, LookupOK
  <2> QED
    BY <1>3, <2>2 DEF Looked
<1>6. ASSUME \A l \in old01 : ages[l] = 0, NEW l \in old01'
      PROVE  valid'[l] = 0
  <2>1. Hits(ages, key, k) # {} => ages[f] # 0
    BY FoundOK DEF Hits
  <2>2. l # f
    BY <1>3, <1>6, <2>1
  <2> QED
    BY <1>2, <1>3, <1>5, <1>6, <2>2
<1> QED
  BY <1>1, <1>2, <1>3, <1>4, <1>5, <1>6

\* The types that a change to the cache must keep.
EptTypes ==
  /\ guest_ept_root \in [Slot -> Keys]
  /\ guest_ept_cache_line \in [Slot -> Line \cup {NoLine}]
  /\ eptp \in [Slot \cup {VMCS01} -> Line \cup {EPT01}]
  /\ valid \in Ages /\ key \in [Line -> Keys]
  /\ filled \subseteq Line /\ old01 \subseteq Line /\ old12 \subseteq Line
  /\ oldaddr \subseteq Slot

LEMMA EptParts == TypeOK => EptTypes
BY DEF TypeOK, EptTypes, Ages, Keys

LEMMA NotALine == NoLine \notin Line /\ VMCS01 \notin Slot /\ NoSlot \notin Slot
BY NLinesAssumption, NSlotsAssumption DEF NoLine, VMCS01, NoSlot, Line, Slot

\* rewalk_ept01 for the VMCS02 that is loaded.
LEMMA RewalkEffect ==
  ASSUME TypeOK, NEW ages \in Ages, SetOK(ages, key),
         NEW lines \in [Slot -> Line \cup {NoLine}],
         cur \in Slot, loaded = cur, rewalk_ept01(ages, lines), UNCHANGED <<guest_ept_root, cur>>
  PROVE  /\ EptTypes' /\ LruOK' /\ LastLine'
         /\ eptp'[VMCS01] = eptp[VMCS01]
         /\ cur \notin oldaddr' /\ oldaddr' \subseteq oldaddr
         /\ (\A l \in old01 : ages[l] = 0) => \A l \in old01' : valid'[l] = 0
<1> DEFINE root == guest_ept_root[cur]
           f == FoundLine(ages, key, root)
<1>1. EptTypes
  BY EptParts
<1>2. root \in Keys
  BY <1>1 DEF EptTypes
<1>3. oldaddr' = oldaddr \ {cur}
  BY DEF rewalk_ept01
<1>4. CASE root = NoEpt
  <2>1. /\ guest_ept_cache_line' = lines /\ eptp' = [eptp EXCEPT ![cur] = EPT01]
        /\ valid' = ages /\ UNCHANGED <<key, filled, old01, old12>>
    BY <1>4 DEF rewalk_ept01
  <2>2. EptTypes'
    BY <1>1, <1>3, <2>1 DEF EptTypes
  <2>3. LastLine'
    BY <1>1, <1>4, <2>1 DEF LastLine, EptTypes
  <2>4. LruOK'
    BY <2>1 DEF LruOK, SetOK
  <2>5. eptp'[VMCS01] = eptp[VMCS01]
    BY <1>1, <2>1, NotALine DEF EptTypes
  <2> QED
    BY <1>3, <2>1, <2>2, <2>3, <2>4, <2>5
<1>5. CASE root # NoEpt
  <2>1. /\ get_ept02(ages, root)
        /\ guest_ept_cache_line' = [lines EXCEPT ![cur] = f]
        /\ eptp' = [eptp EXCEPT ![cur] = f]
    BY <1>5 DEF rewalk_ept01
  <2>2. /\ f \in Line
        /\ valid' \in Ages /\ key' \in [Line -> Keys]
        /\ filled' \subseteq Line /\ old01' \subseteq Line /\ old12' \subseteq Line
        /\ SetOK(valid', key')
        /\ valid'[f] = 1 /\ key'[f] = root
        /\ (\A l \in old01 : ages[l] = 0) => \A l \in old01' : valid'[l] = 0
    BY <1>2, <2>1, GetEffect
  <2> HIDE DEF f
  <2>3. EptTypes'
    BY <1>1, <1>3, <2>1, <2>2 DEF EptTypes
  <2>4. LastLine'
    <3>1. guest_ept_cache_line'[cur] = f /\ eptp'[cur] = f
      BY <1>1, <2>1 DEF EptTypes
    <3>2. LineFits'
      BY <2>2, <3>1, NotALine DEF LineFits
    <3> QED
      BY <1>5, <2>2, <3>1, <3>2 DEF LastLine
  <2>5. eptp'[VMCS01] = eptp[VMCS01]
    BY <1>1, <2>1, NotALine DEF EptTypes
  <2> QED
    BY <1>3, <2>2, <2>3, <2>4, <2>5 DEF LruOK
<1> QED
  BY <1>4, <1>5

LEMMA FlushEffect ==
  ASSUME TypeOK, LruOK, NEW fl, mode = "nonroot" => cur \in Slot /\ loaded = cur,
         flush_ept02_effect(fl), UNCHANGED cur
  PROVE  /\ EptTypes' /\ LruOK'
         /\ UNCHANGED guest_ept_root
         /\ eptp'[VMCS01] = eptp[VMCS01]
         /\ mode = "nonroot" => LastLine' /\ cur \notin oldaddr'
         /\ "entry" \in fl \/ (\A l \in old01 : valid[l] = 0) => \A l \in old01' : valid'[l] = 0
<1> DEFINE ages == IF "entry" \in fl THEN LRU_SET_INIT ELSE valid
           lines == IF "entry" \in fl THEN [s \in Slot |-> NoLine] ELSE guest_ept_cache_line
<1>1. EptTypes
  BY EptParts
<1>2. ages \in Ages /\ SetOK(ages, key) /\ lines \in [Slot -> Line \cup {NoLine}]
  BY <1>1, InitOK DEF EptTypes, LruOK
<1>3. "entry" \in fl \/ (\A l \in old01 : valid[l] = 0) => \A l \in old01 : ages[l] = 0
  BY <1>1, InitOK DEF EptTypes
<1>4. UNCHANGED guest_ept_root
  BY DEF flush_ept02_effect
<1>5. CASE mode = "nonroot"
  <2>1. rewalk_ept01(ages, lines)
    BY <1>5 DEF flush_ept02_effect
  <2> HIDE DEF ages, lines
  <2> QED
    BY <1>2, <1>3, <1>4, <1>5, <2>1, RewalkEffect
<1>6. CASE mode # "nonroot"
  <2>1. /\ valid' = ages /\ guest_ept_cache_line' = lines
        /\ UNCHANGED <<eptp, key, filled, old01, old12, oldaddr>>
    BY <1>6 DEF flush_ept02_effect
  <2> HIDE DEF ages, lines
  <2>2. EptTypes'
    BY <1>1, <1>2, <1>4, <2>1 DEF EptTypes
  <2>3. LruOK'
    BY <1>2, <2>1 DEF LruOK, SetOK
  <2> QED
    BY <1>3, <1>4, <1>6, <2>1, <2>2, <2>3
<1> QED
  BY <1>5, <1>6

LEMMA TranslateEffect ==
  ASSUME TypeOK, LruOK, NEW k \in Keys, cur \in Slot, loaded = cur, TranslateEpt(k), UNCHANGED cur
  PROVE  /\ EptTypes' /\ LruOK' /\ LastLine'
         /\ eptp'[VMCS01] = eptp[VMCS01]
         /\ cur \notin oldaddr'
         /\ (\A l \in old01 : valid[l] = 0) => \A l \in old01' : valid'[l] = 0
<1> DEFINE f == FoundLine(valid, key, k)
<1>1. EptTypes /\ SetOK(valid, key)
  BY EptParts DEF LruOK
<1>2. /\ oldaddr' = oldaddr \ {cur}
      /\ guest_ept_root' = [guest_ept_root EXCEPT ![cur] = k]
  BY DEF TranslateEpt
<1>3. guest_ept_root' \in [Slot -> Keys] /\ guest_ept_root'[cur] = k
  BY <1>1, <1>2 DEF EptTypes
<1>4. CASE k = NoEpt
  <2>1. /\ eptp' = [eptp EXCEPT ![cur] = EPT01]
        /\ UNCHANGED <<guest_ept_cache_line, valid, key, filled, old01, old12>>
    BY <1>4 DEF TranslateEpt
  <2>2. EptTypes'
    BY <1>1, <1>2, <1>3, <2>1 DEF EptTypes
  <2>3. LastLine'
    BY <1>1, <1>3, <1>4, <2>1 DEF LastLine, EptTypes
  <2>4. LruOK'
    BY <1>1, <2>1 DEF LruOK, SetOK
  <2>5. eptp'[VMCS01] = eptp[VMCS01]
    BY <1>1, <2>1, NotALine DEF EptTypes
  <2> QED
    BY <1>2, <2>1, <2>2, <2>3, <2>4, <2>5
<1>5. CASE k # NoEpt
  <2>1. /\ get_ept02(valid, k)
        /\ guest_ept_cache_line' = [guest_ept_cache_line EXCEPT ![cur] = f]
        /\ eptp' = [eptp EXCEPT ![cur] = f]
    BY <1>5 DEF TranslateEpt
  <2>2. /\ f \in Line
        /\ valid' \in Ages /\ key' \in [Line -> Keys]
        /\ filled' \subseteq Line /\ old01' \subseteq Line /\ old12' \subseteq Line
        /\ SetOK(valid', key')
        /\ valid'[f] = 1 /\ key'[f] = k
        /\ (\A l \in old01 : valid[l] = 0) => \A l \in old01' : valid'[l] = 0
    <3>1. valid \in Ages
      BY <1>1 DEF EptTypes
    <3> QED
      BY <1>1, <2>1, <3>1, GetEffect
  <2> HIDE DEF f
  <2>3. EptTypes'
    BY <1>1, <1>2, <1>3, <2>1, <2>2 DEF EptTypes
  <2>4. LastLine'
    <3>1. guest_ept_cache_line'[cur] = f /\ eptp'[cur] = f
      BY <1>1, <2>1 DEF EptTypes
    <3>2. LineFits'
      BY <1>3, <2>2, <3>1, NotALine DEF LineFits
    <3> QED
      BY <1>3, <1>5, <2>2, <3>1, <3>2 DEF LastLine
  <2>5. eptp'[VMCS01] = eptp[VMCS01]
    BY <1>1, <2>1, NotALine DEF EptTypes
  <2> QED
    BY <1>2, <2>2, <2>3, <2>4, <2>5 DEF LruOK
<1> QED
  BY <1>4, <1>5

-----------------------------------------------------------------------------
(* Steps *)

\* Steps of the main thread that leave the cache and the EPT pointers alone.
PlainSlot == Vmxon \/ Vmxoff \/ (\E v \in Vmcs12 : Vmclear(v))
PlainEntry == Invept \/ VmentryBlock \/ VmentryRefused \/ VmentryMode \/ Vmentry
PlainExit ==
  \/ EptViolation \/ WalkRead \/ WalkViolation
  \/ Exit201 \/ L2Refused \/ ForwardBlock \/ ForwardMode
PlainUnblock == UnblockOff \/ UnblockTest \/ UnblockRead \/ UnblockClear \/ UnblockOn

\* The other steps.
CacheStep ==
  \/ stopped /\ QuiesceFlush
  \/ ~stopped /\ UNCHANGED stopped /\ (EptpFlush \/ UnblockEffect)
Changes == ~stopped /\ at # "halted" /\ Ept01Changes
Main(A) == ~stopped /\ UNCHANGED stopped /\ A

LEMMA Steps ==
  Next => \/ Changes \/ CacheStep
          \/ Main(PlainSlot) \/ Main(PlainEntry) \/ Main(PlainExit) \/ Main(PlainUnblock)
          \/ Main(VmentryTranslate) \/ Main(VmentryFail) \/ Main(ForwardTranslate)
          \/ Main(InveptBody) \/ Main(\E v \in Vmcs12 : Vmptrld(v)) \/ Main(WalkInsert)
BY DEF Next, MainThread, unblock_ept02_flush, Changes, CacheStep, Main,
       PlainSlot, PlainEntry, PlainExit, PlainUnblock

LEMMA PlainKeeps ==
  ASSUME PlainSlot \/ PlainEntry \/ PlainExit \/ PlainUnblock
  PROVE  UNCHANGED <<eptvars, cachevars>>
<1>1. CASE PlainSlot
  BY <1>1 DEF PlainSlot, Vmxon, Vmxoff, Vmclear
<1>2. CASE PlainEntry
  BY <1>2 DEF PlainEntry, Invept, VmentryBlock, VmentryRefused, VmentryMode, Vmentry
<1>3. CASE PlainExit
  BY <1>3 DEF PlainExit, EptViolation, WalkRead, WalkViolation, Exit201, L2Refused, ForwardBlock,
              ForwardMode
<1>4. CASE PlainUnblock
  BY <1>4 DEF PlainUnblock, UnblockOff, UnblockTest, UnblockRead, UnblockClear, UnblockOn
<1> QED
  BY <1>1, <1>2, <1>3, <1>4

\* The CPU takes no step once it has halted.
LEMMA Awake == NestedInductive /\ Next => at # "halted"
<1> SUFFICES ASSUME NestedInductive, Next PROVE at # "halted"
  OBVIOUS
<1>1. at = "halted" => ~stopped
  BY DEF NestedInductive
<1>2. CASE Main(PlainSlot) \/ Main(PlainEntry) \/ Main(PlainExit) \/ Main(PlainUnblock)
  BY <1>2 DEF Main, PlainSlot, PlainEntry, PlainExit, PlainUnblock,
              Vmxon, Vmxoff, Vmclear, Invept, VmentryBlock, VmentryRefused, VmentryMode, Vmentry,
              EptViolation, WalkRead, WalkViolation, Exit201, L2Refused, ForwardBlock, ForwardMode,
              UnblockOff, UnblockTest, UnblockRead, UnblockClear, UnblockOn
<1>3. CASE Changes \/ CacheStep
  BY <1>1, <1>3 DEF Changes, CacheStep, EptpFlush, UnblockEffect
<1>4. CASE \/ Main(VmentryTranslate) \/ Main(VmentryFail) \/ Main(ForwardTranslate)
           \/ Main(InveptBody) \/ Main(\E v \in Vmcs12 : Vmptrld(v)) \/ Main(WalkInsert)
  BY <1>4 DEF Main, VmentryTranslate, VmentryFail, ForwardTranslate, InveptBody, Vmptrld, WalkInsert
<1> QED
  BY <1>2, <1>3, <1>4, Steps

\* What holds before a step.
LEMMA Before ==
  ASSUME NestedInductive, Next
  PROVE  /\ TypeOK /\ LruOK /\ ActiveOnce /\ eptp[VMCS01] = EPT01
         /\ at # "halted" /\ Places /\ Noted /\ Launches /\ OnLine /\ Fresh
         /\ mode = "nonroot" => cur \in Slot /\ loaded = cur
         /\ at \in {"en_translate", "en_mode"} => cur \in Slot /\ loaded = cur
<1>1. TypeOK /\ Places /\ LruOK /\ ActiveOnce /\ eptp[VMCS01] = EPT01 /\ at # "halted"
      /\ Noted /\ Launches /\ OnLine /\ Fresh
  BY Awake DEF NestedInductive
<1>2. cur \in Slot \cup {NoSlot}
  BY <1>1 DEF TypeOK
<1> QED
  BY <1>1, <1>2 DEF Places

\* A walk is on the line used last.
LEMMA WalkLine ==
  ASSUME NestedInductive, Next, at = "insert"
  PROVE  /\ guest_ept_cache_line[cur] \in Line
         /\ valid[guest_ept_cache_line[cur]] = 1
         /\ eptp[cur] = guest_ept_cache_line[cur]
         /\ LineFits /\ guest_ept_root[cur] # NoEpt /\ cur \in Slot
<1>1. TypeOK /\ Places /\ OnLine /\ at = "insert"
  BY Before
<1>2. mode = "nonroot" /\ guest_ept_root[cur] # NoEpt
  BY <1>1 DEF Places, NonrootAt
<1>3. cur \in Slot
  BY <1>2, Before
<1>4. LastLine
  BY <1>1, <1>2 DEF OnLine
<1>5. guest_ept_cache_line[cur] \in Line \cup {NoLine}
  BY <1>1, <1>3 DEF TypeOK
<1> QED
  BY <1>2, <1>3, <1>4, <1>5 DEF LastLine, LineFits

\* What flushes do.
LEMMA CacheStepEffect ==
  ASSUME NestedInductive, CacheStep, Next
  PROVE  /\ EptTypes' /\ LruOK'
         /\ UNCHANGED <<guest_ept_root, cur, mode, loaded, slotvars, next>>
         /\ eptp'[VMCS01] = eptp[VMCS01]
         /\ \/ UNCHANGED <<eptvars, cachevars>> /\ disable
            \/ /\ ~disable \/ at = "un_effect"
               /\ mode = "nonroot" => LastLine' /\ cur \notin oldaddr'
<1>1. TypeOK /\ LruOK /\ (mode = "nonroot" => cur \in Slot /\ loaded = cur)
  BY Before
<1>2. UNCHANGED <<cur, mode, loaded, slotvars, next>>
  BY DEF CacheStep, QuiesceFlush, EptpFlush, UnblockEffect
<1>3. \/ (~disable \/ at = "un_effect") /\ \E fl \in SUBSET Flags : flush_ept02_effect(fl)
      \/ UNCHANGED <<eptvars, cachevars>> /\ disable
  <2>1. {"entry"} \in SUBSET Flags /\ {"eptp"} \in SUBSET Flags /\ flags \in SUBSET Flags
    BY <1>1 DEF TypeOK, Flags
  <2> QED
    BY <2>1 DEF CacheStep, QuiesceFlush, EptpFlush, UnblockEffect, flush_ept02
<1>4. CASE (~disable \/ at = "un_effect") /\ \E fl \in SUBSET Flags : flush_ept02_effect(fl)
  <2>1. PICK fl \in SUBSET Flags : flush_ept02_effect(fl)
    BY <1>4
  <2>2. cur' = cur
    BY <1>2
  <2> QED
    BY <1>1, <1>2, <1>4, <2>1, <2>2, FlushEffect
<1>5. CASE UNCHANGED <<eptvars, cachevars>> /\ disable
  <2>1. EptTypes
    BY <1>1, EptParts
  <2> QED
    BY <1>1, <1>2, <1>5, <2>1 DEF EptTypes, LruOK, SetOK, eptvars, cachevars
<1> QED
  BY <1>3, <1>4, <1>5

\* Vmptrld of a VMCS12 that is in no slot takes a free one.
LEMMA SlotsInNat == ASSUME NEW v, SlotsWith(v) # {}
                    PROVE  Min(SlotsWith(v)) \in Slot /\ vmcs12_ptr[Min(SlotsWith(v))] = v
<1>1. SlotsWith(v) \subseteq Nat
  BY NSlotsAssumption DEF SlotsWith, Slot
<1>2. Min(SlotsWith(v)) \in SlotsWith(v)
  BY <1>1, MinOfSet
<1> QED
  BY <1>2 DEF SlotsWith

LEMMA StepCache ==
  ASSUME NestedInductive, Next
  PROVE  EptTypes' /\ LruOK' /\ eptp'[VMCS01] = EPT01
<1>1. TypeOK /\ LruOK /\ eptp[VMCS01] = EPT01
  BY Before
<1>2. EptTypes /\ SetOK(valid, key)
  BY <1>1, EptParts DEF LruOK
<1>3. ASSUME UNCHANGED <<eptvars, cachevars>>
      PROVE  EptTypes' /\ LruOK' /\ eptp'[VMCS01] = EPT01
  BY <1>1, <1>2, <1>3 DEF EptTypes, LruOK, SetOK, eptvars, cachevars
<1>4. CASE Changes
  <2>1. UNCHANGED <<eptvars, valid, key, filled, old12>> /\ old01' = filled /\ oldaddr' = Slot
    BY <1>4 DEF Changes, Ept01Changes
  <2> QED
    BY <1>1, <1>2, <2>1 DEF EptTypes, LruOK, SetOK, eptvars
<1>5. CASE CacheStep
  BY <1>1, <1>5, CacheStepEffect
<1>6. CASE Main(PlainSlot) \/ Main(PlainEntry) \/ Main(PlainExit) \/ Main(PlainUnblock)
  BY <1>3, <1>6, PlainKeeps DEF Main
<1>7. CASE Main(VmentryTranslate) \/ Main(VmentryFail)
  <2>1. at = "en_translate" /\ cur' = cur
    BY <1>7 DEF Main, VmentryTranslate, VmentryFail
  <2>2. cur \in Slot /\ loaded = cur
    BY <2>1, Before
  <2>3. UNCHANGED <<eptvars, cachevars>> \/ \E k \in Keys : TranslateEpt(k)
    BY <1>7 DEF Main, VmentryTranslate, VmentryFail, Keys
  <2>4. CASE \E k \in Keys : TranslateEpt(k)
    <3>1. PICK k \in Keys : TranslateEpt(k)
      BY <2>4
    <3> QED
      BY <1>1, <2>1, <2>2, <3>1, TranslateEffect
  <2> QED
    BY <1>3, <2>3, <2>4
<1>8. CASE Main(ForwardTranslate)
  <2>1. UNCHANGED <<eptvars, oldaddr, cur>> /\ at = "fw_translate"
    BY <1>8 DEF Main, ForwardTranslate, cachevars
  <2>2. CASE guest_ept_root[cur] = NoEpt
    BY <1>3, <1>8, <2>2 DEF Main, ForwardTranslate
  <2>3. CASE guest_ept_root[cur] # NoEpt
    <3>1. mode = "nonroot"
      BY <2>1, Before DEF Places, NonrootAt
    <3>2. guest_ept_root[cur] \in Keys
      BY <1>2, <3>1, Before DEF EptTypes
    <3>3. get_ept02(valid, guest_ept_root[cur])
      BY <1>8, <2>3 DEF Main, ForwardTranslate
    <3>4. /\ valid' \in Ages /\ key' \in [Line -> Keys]
          /\ filled' \subseteq Line /\ old01' \subseteq Line /\ old12' \subseteq Line
          /\ SetOK(valid', key')
      <4>1. valid \in Ages
        BY <1>2 DEF EptTypes
      <4> QED
        BY <1>1, <1>2, <3>2, <3>3, <4>1, GetEffect
    <3> QED
      BY <1>1, <1>2, <2>1, <3>4 DEF EptTypes, LruOK, eptvars
  <2> QED
    BY <2>2, <2>3
<1>9. CASE Main(InveptBody)
  <2>1. UNCHANGED <<eptvars, key, filled, old01, oldaddr>>
    BY <1>9 DEF Main, InveptBody
  <2>2. valid \in Ages
    BY <1>2 DEF EptTypes
  <2>3. valid' \in Ages /\ SetOK(valid', key)
    BY <1>2, <1>9, <2>2, InvalidateOK, InitOK
       DEF Main, InveptBody, invept_global, invept_single_context
  <2>4. old12' \subseteq Line
    BY <1>2, <1>9 DEF Main, InveptBody, invept_global, invept_single_context, EptTypes
  <2> QED
    BY <1>1, <1>2, <2>1, <2>3, <2>4 DEF EptTypes, LruOK, SetOK, eptvars
<1>10. CASE Main(\E v \in Vmcs12 : Vmptrld(v))
  <2>1. PICK v \in Vmcs12 : Vmptrld(v)
    BY <1>10 DEF Main
  <2>2. UNCHANGED cachevars
    BY <2>1 DEF Vmptrld
  <2>3. CASE UNCHANGED eptvars
    BY <1>3, <2>2, <2>3
  <2>4. CASE SlotsWith(NoVmcs) # {} /\ new_active_vmcs12(Min(SlotsWith(NoVmcs)), v)
    <3>1. PICK s \in Slot : new_active_vmcs12(s, v)
      BY <2>4, SlotsInNat
    <3>2. /\ guest_ept_root' = [guest_ept_root EXCEPT ![s] = NoEpt]
          /\ guest_ept_cache_line' = [guest_ept_cache_line EXCEPT ![s] = NoLine]
          /\ UNCHANGED eptp
      BY <3>1 DEF new_active_vmcs12
    <3>3. guest_ept_root' \in [Slot -> Keys] /\ guest_ept_cache_line' \in [Slot -> Line \cup {NoLine}]
      BY <1>2, <3>2 DEF EptTypes, Keys
    <3> QED
      BY <1>1, <1>2, <2>2, <3>2, <3>3 DEF EptTypes, LruOK, SetOK, cachevars
  <2> QED
    BY <2>1, <2>3, <2>4 DEF Vmptrld
<1>11. CASE Main(WalkInsert)
  <2>1. at = "insert"
    BY <1>11 DEF Main, WalkInsert
  <2>2. guest_ept_cache_line[cur] \in Line
    BY <2>1, WalkLine
  <2>3. UNCHANGED <<eptvars, valid, key, oldaddr>>
    BY <1>11 DEF Main, WalkInsert
  <2>4. filled' \subseteq Line /\ old01' \subseteq Line /\ old12' \subseteq Line
    BY <1>2, <1>11, <2>2 DEF Main, WalkInsert, EptTypes
  <2> QED
    BY <1>1, <1>2, <2>3, <2>4 DEF EptTypes, LruOK, SetOK, eptvars
<1> QED
  BY <1>4, <1>5, <1>6, <1>7, <1>8, <1>9, <1>10, <1>11, Steps

-----------------------------------------------------------------------------
(* Types *)

\* The types of the other variables.
OtherTypes ==
  /\ at \in Where
  /\ next \in {"l1", "l2", "enter", "forward"}
  /\ mode \in {"disabled", "root", "nonroot"}
  /\ cur \in Slot \cup {NoSlot}
  /\ vmcs12_ptr \in [Slot -> Vmcs12 \cup {NoVmcs}]
  /\ launched \subseteq Slot /\ hw_launched \subseteq Slot
  /\ loaded \in Slot \cup {VMCS01}
  /\ hand \in {"none", "new", "old"}
  /\ visited \subseteq Flags /\ flags \subseteq Flags

Booleans == stopped \in BOOLEAN /\ disable \in BOOLEAN

LEMMA TypeParts == TypeOK <=> EptTypes /\ OtherTypes /\ Booleans
BY DEF TypeOK, EptTypes, OtherTypes, Booleans, Ages, Keys

LEMMA StepBooleans ==
  ASSUME NestedInductive, Next
  PROVE  Booleans'
<1>1. stopped \in BOOLEAN /\ disable \in BOOLEAN
  BY Before, TypeParts DEF Booleans
<1>2. stopped' \in BOOLEAN
  BY <1>1, Zenon DEF Next, Ept01Changes, QuiesceFlush
<1>3. disable' = disable \/ disable' = TRUE \/ disable' = FALSE
  <2>1. CASE Changes \/ CacheStep
    BY <2>1 DEF Changes, Ept01Changes, CacheStep, QuiesceFlush, EptpFlush, UnblockEffect, flushvars
  <2>2. CASE Main(PlainSlot) \/ Main(PlainEntry) \/ Main(PlainExit) \/ Main(PlainUnblock)
    BY <2>2 DEF Main, PlainSlot, PlainEntry, PlainExit, PlainUnblock, flushvars, Block,
                Vmxon, Vmxoff, Vmclear, Invept, VmentryBlock, VmentryRefused, VmentryMode, Vmentry,
                EptViolation, WalkRead, WalkViolation, Exit201, L2Refused, ForwardBlock, ForwardMode,
                UnblockOff, UnblockTest, UnblockRead, UnblockClear, UnblockOn
  <2>3. CASE \/ Main(VmentryTranslate) \/ Main(VmentryFail) \/ Main(ForwardTranslate)
             \/ Main(InveptBody) \/ Main(\E v \in Vmcs12 : Vmptrld(v)) \/ Main(WalkInsert)
    BY <2>3 DEF Main, VmentryTranslate, VmentryFail, ForwardTranslate, InveptBody, Vmptrld,
                WalkInsert, flushvars
  <2> QED
    BY <2>1, <2>2, <2>3, Steps
<1>4. disable' \in BOOLEAN
  BY <1>1, <1>3, Zenon
<1> QED
  BY <1>2, <1>4 DEF Booleans

\* What Vmclear does to the slot.
Clears(s) ==
  /\ vmcs12_ptr' = [vmcs12_ptr EXCEPT ![s] = NoVmcs]
  /\ hw_launched' = hw_launched \ {s}
  /\ cur' = IF cur = s THEN NoSlot ELSE cur

LEMMA VmclearEffect ==
  ASSUME NEW v, Vmclear(v)
  PROVE  \E s \in Slot : Clears(s)
<1>1. Min(SlotsWith(v)) \in Slot
  BY SlotsInNat DEF Vmclear
<1>2. Clears(Min(SlotsWith(v)))
  BY DEF Vmclear, Clears
<1> QED
  BY <1>1, <1>2

LEMMA StepOther ==
  ASSUME NestedInductive, Next
  PROVE  OtherTypes'
<1>1. OtherTypes /\ (at \in {"en_translate", "en_mode"} => cur \in Slot)
                 /\ (mode = "nonroot" => cur \in Slot)
  BY Before, TypeParts
<1>2. CASE Changes
  BY <1>1, <1>2 DEF Changes, Ept01Changes, OtherTypes, slotvars, flushvars
<1>3. CASE CacheStep
  <2>1. UNCHANGED <<cur, mode, loaded, slotvars, next>>
    BY <1>3, CacheStepEffect
  <2>2. UNCHANGED hand
    BY <1>3 DEF CacheStep, QuiesceFlush, EptpFlush, UnblockEffect
  <2>3. at' \in Where /\ visited' \subseteq Flags /\ flags' \subseteq Flags
    BY <1>1, <1>3 DEF CacheStep, QuiesceFlush, EptpFlush, UnblockEffect, flush_ept02,
                      OtherTypes, Where, Flags
  <2> QED
    BY <1>1, <2>1, <2>2, <2>3 DEF OtherTypes, slotvars
<1>4. CASE Main(PlainSlot)
  <2>1. CASE Vmxon \/ Vmxoff
    BY <1>1, <2>1 DEF Vmxon, Vmxoff, OtherTypes, slotvars, flushvars
  <2>2. CASE \E v \in Vmcs12 : Vmclear(v)
    <3>1. PICK v \in Vmcs12 : Vmclear(v)
      BY <2>2
    <3>2. PICK s \in Slot : Clears(s)
      BY <3>1, VmclearEffect
    <3>3. UNCHANGED <<at, next, mode, launched, hand, loaded, flushvars>>
      BY <3>1 DEF Vmclear
    <3> QED
      BY <1>1, <3>2, <3>3 DEF OtherTypes, flushvars, Clears
  <2> QED
    BY <1>4, <2>1, <2>2 DEF Main, PlainSlot
<1>5. CASE Main(PlainEntry)
  <2>1. CASE Invept \/ VmentryBlock \/ VmentryRefused
    BY <1>1, <2>1 DEF Invept, VmentryBlock, VmentryRefused, Block, HaltUnless, OtherTypes,
                      slotvars, flushvars, Where
  <2>2. CASE VmentryMode
    BY <1>1, <2>2 DEF VmentryMode, Unblock, OtherTypes, slotvars, flushvars, Where
  <2>3. CASE Vmentry
    <3>1. cur \in Slot
      BY <1>1, <2>3, Before DEF Vmentry, Places, NonrootAt
    <3> QED
      BY <1>1, <2>3, <3>1 DEF Vmentry, HaltUnless, OtherTypes, flushvars, Where
  <2> QED
    BY <1>5, <2>1, <2>2, <2>3 DEF Main, PlainEntry
<1>6. CASE Main(PlainExit)
  <2>1. CASE EptViolation \/ WalkRead \/ Exit201 \/ L2Refused \/ ForwardBlock
    BY <1>1, <2>1 DEF EptViolation, WalkRead, Exit201, L2Refused, ForwardBlock, Block, HaltUnless,
                      OtherTypes, slotvars, flushvars, Where
  <2>2. CASE WalkViolation \/ ForwardMode
    BY <1>1, <2>2 DEF WalkViolation, ForwardMode, Unblock, OtherTypes, slotvars, flushvars,
                      Where, Flags
  <2> QED
    BY <1>6, <2>1, <2>2 DEF Main, PlainExit
<1>7. CASE Main(PlainUnblock)
  BY <1>1, <1>7 DEF Main, PlainUnblock, UnblockOff, UnblockTest, UnblockRead, UnblockClear,
                    UnblockOn, HaltUnless, OtherTypes, slotvars, flushvars, Where
<1>8. CASE Main(VmentryTranslate) \/ Main(VmentryFail) \/ Main(ForwardTranslate)
  BY <1>1, <1>8 DEF Main, VmentryTranslate, VmentryFail, ForwardTranslate, HaltOrRefuse,
                    HaltUnless, Unblock,
                    OtherTypes, slotvars, flushvars, Where
<1>9. CASE Main(InveptBody) \/ Main(WalkInsert)
  BY <1>1, <1>9 DEF Main, InveptBody, WalkInsert, Unblock, OtherTypes, slotvars, flushvars, Where
<1>10. CASE Main(\E v \in Vmcs12 : Vmptrld(v))
  <2>1. PICK v \in Vmcs12 : Vmptrld(v)
    BY <1>10 DEF Main
  <2>2. UNCHANGED <<next, mode, hand, loaded, flushvars>> /\ at' \in Where
    BY <1>1, <2>1 DEF Vmptrld, OtherTypes, Where
  <2>3. CASE SlotsWith(v) # {}
    BY <1>1, <2>1, <2>2, <2>3, SlotsInNat DEF Vmptrld, OtherTypes, slotvars, flushvars
  <2>4. CASE SlotsWith(v) = {} /\ SlotsWith(NoVmcs) # {}
    <3>1. PICK s \in Slot : cur' = s /\ new_active_vmcs12(s, v)
      BY <2>1, <2>4, SlotsInNat DEF Vmptrld
    <3> QED
      BY <1>1, <2>2, <3>1 DEF new_active_vmcs12, OtherTypes, flushvars
  <2>5. CASE SlotsWith(v) = {} /\ SlotsWith(NoVmcs) = {}
    BY <1>1, <2>1, <2>2, <2>5 DEF Vmptrld, OtherTypes, slotvars, flushvars
  <2> QED
    BY <2>3, <2>4, <2>5
<1> QED
  BY <1>2, <1>3, <1>4, <1>5, <1>6, <1>7, <1>8, <1>9, <1>10, Steps

-----------------------------------------------------------------------------
(* VMCS12s *)

\* Steps that leave the slots and the current VMCS12 alone.
LEMMA SlotsKept ==
  ASSUME NestedInductive, Next, ~PlainSlot, ~(\E v \in Vmcs12 : Vmptrld(v))
  PROVE  UNCHANGED <<cur, vmcs12_ptr>> /\ (mode' = "disabled" <=> mode = "disabled")
<1>1. Places
  BY Before
<1>2. CASE Changes \/ CacheStep
  BY <1>2, CacheStepEffect DEF Changes, Ept01Changes, slotvars
<1>3. CASE Main(PlainEntry)
  BY <1>1, <1>3 DEF Main, PlainEntry, Invept, VmentryBlock, VmentryRefused, VmentryMode, Vmentry,
                    slotvars, Places
<1>4. CASE Main(PlainExit)
  BY <1>1, <1>4 DEF Main, PlainExit, EptViolation, WalkRead, WalkViolation, Exit201, L2Refused,
                    ForwardBlock,
                    ForwardMode, slotvars, Places, NonrootAt
<1>5. CASE Main(PlainUnblock)
  BY <1>5 DEF Main, PlainUnblock, UnblockOff, UnblockTest, UnblockRead, UnblockClear, UnblockOn,
              slotvars
<1>6. CASE \/ Main(VmentryTranslate) \/ Main(VmentryFail) \/ Main(ForwardTranslate)
           \/ Main(InveptBody) \/ Main(WalkInsert)
  BY <1>6 DEF Main, VmentryTranslate, VmentryFail, ForwardTranslate, InveptBody, WalkInsert,
              slotvars
<1> QED
  BY <1>2, <1>3, <1>4, <1>5, <1>6, Steps DEF Main

LEMMA StepActive ==
  ASSUME NestedInductive, Next
  PROVE  ActiveOnce'
<1>1. ActiveOnce /\ vmcs12_ptr \in [Slot -> Vmcs12 \cup {NoVmcs}] /\ cur \in Slot \cup {NoSlot}
  BY Before DEF TypeOK
<1>2. CASE ~PlainSlot /\ ~(\E v \in Vmcs12 : Vmptrld(v))
  BY <1>1, <1>2, SlotsKept DEF ActiveOnce
<1>3. CASE Vmxon \/ Vmxoff
  BY <1>3, NotALine DEF Vmxon, Vmxoff, ActiveOnce
<1>4. ASSUME NEW v \in Vmcs12, Vmclear(v) PROVE ActiveOnce'
  <2>1. PICK s \in Slot : Clears(s)
    BY <1>4, VmclearEffect
  <2>2. mode = "root" /\ mode' = mode
    BY <1>4 DEF Vmclear
  <2>3. \A t \in Slot : vmcs12_ptr'[t] = IF t = s THEN NoVmcs ELSE vmcs12_ptr[t]
    BY <1>1, <2>1 DEF Clears
  <2> QED
    BY <1>1, <2>1, <2>2, <2>3 DEF ActiveOnce, Clears
<1>5. ASSUME NEW v \in Vmcs12, Vmptrld(v) PROVE ActiveOnce'
  <2>1. mode = "root" /\ mode' = mode /\ v # NoVmcs
    BY <1>5, NoneAssumption DEF Vmptrld
  <2>2. CASE SlotsWith(v) # {}
    <3>1. UNCHANGED vmcs12_ptr /\ cur' \in Slot /\ vmcs12_ptr[cur'] = v
      BY <1>5, <2>2, SlotsInNat DEF Vmptrld, slotvars
    <3> QED
      BY <1>1, <2>1, <3>1 DEF ActiveOnce
  <2>3. CASE SlotsWith(v) = {} /\ SlotsWith(NoVmcs) # {}
    <3>1. PICK s \in Slot : cur' = s /\ vmcs12_ptr' = [vmcs12_ptr EXCEPT ![s] = v]
      BY <1>5, <2>3, SlotsInNat DEF Vmptrld, new_active_vmcs12
    <3>2. \A t \in Slot : vmcs12_ptr'[t] = IF t = s THEN v ELSE vmcs12_ptr[t]
      BY <1>1, <3>1
    <3>3. \A t \in Slot : vmcs12_ptr[t] # v
      BY <2>3 DEF SlotsWith
    <3> QED
      BY <1>1, <2>1, <3>1, <3>2, <3>3 DEF ActiveOnce
  <2>4. CASE SlotsWith(v) = {} /\ SlotsWith(NoVmcs) = {}
    BY <1>1, <1>5, <2>1, <2>4 DEF Vmptrld, ActiveOnce, slotvars
  <2> QED
    BY <2>2, <2>3, <2>4
<1> QED
  BY <1>2, <1>3, <1>4, <1>5 DEF PlainSlot

-----------------------------------------------------------------------------
(* Places, noted flushes and launch states *)

LEMMA StepPlaces ==
  ASSUME NestedInductive, Next, at' # "halted"
  PROVE  Places'
<1>1. /\ Places /\ cur \in Slot \cup {NoSlot} /\ NoSlot \notin Slot
      /\ at \in Where /\ next \in {"l1", "l2", "enter", "forward"}
      /\ mode \in {"disabled", "root", "nonroot"}
  BY Before, NotALine DEF TypeOK
<1> USE DEF Places, BlockedAt, NonrootAt, UnblockingAt
<1>2. CASE Changes
  BY <1>1, <1>2 DEF Changes, Ept01Changes, eptvars, flushvars
<1>3. CASE CacheStep
  <2>1. UNCHANGED <<guest_ept_root, cur, mode, loaded, next>>
    BY <1>3, CacheStepEffect
  <2>2. UNCHANGED disable /\ (at' = at \/ (at = "un_effect" /\ at' = "un_off"))
    BY <1>3 DEF CacheStep, QuiesceFlush, EptpFlush, UnblockEffect
  <2> QED
    BY <1>1, <2>1, <2>2
<1>4. CASE Main(PlainSlot)
  <2>1. CASE Vmxon \/ Vmxoff
    BY <1>1, <2>1 DEF Vmxon, Vmxoff, eptvars, flushvars
  <2>2. CASE \E v \in Vmcs12 : Vmclear(v)
    <3>1. UNCHANGED <<at, mode, disable>> /\ at = "l1" /\ mode = "root"
      BY <2>2 DEF Vmclear, flushvars
    <3> QED
      BY <1>1, <3>1
  <2> QED
    BY <1>4, <2>1, <2>2 DEF Main, PlainSlot
<1>5. CASE Main(PlainEntry)
  <2>1. CASE Invept \/ VmentryBlock \/ VmentryRefused
    BY <1>1, <2>1 DEF Invept, VmentryBlock, VmentryRefused, Block, HaltUnless, eptvars
  <2>2. CASE VmentryMode \/ Vmentry
    BY <1>1, <2>2 DEF VmentryMode, Vmentry, Unblock, HaltUnless, eptvars, flushvars
  <2> QED
    BY <1>5, <2>1, <2>2 DEF Main, PlainEntry
<1>6. CASE Main(PlainExit)
  <2>1. CASE (EptViolation \/ ForwardBlock) /\ at' # "refused"
    <3>1. /\ disable' /\ UNCHANGED <<next, mode, cur, loaded>>
          /\ (at = "l2" /\ at' = "walk") \/ (at = "forward" /\ at' = "fw_translate")
      BY <2>1 DEF EptViolation, ForwardBlock, Block, HaltUnless
    <3> QED
      BY <1>1, <3>1
  <2>2. CASE WalkRead
    BY <1>1, <2>2 DEF WalkRead, HaltUnless, eptvars, flushvars
  <2>3. CASE WalkViolation \/ ForwardMode
    <3>1. CASE WalkViolation
      BY <1>1, <3>1, SMTT(30) DEF WalkViolation, Unblock, eptvars, flushvars
    <3>2. CASE ForwardMode
      BY <1>1, <3>2, SMTT(30) DEF ForwardMode, Unblock, eptvars, flushvars
    <3> QED
      BY <2>3, <3>1, <3>2
  <2>4. CASE Exit201 \/ L2Refused
    BY <1>1, <2>4 DEF Exit201, L2Refused, eptvars, flushvars
  <2>5. CASE ForwardBlock /\ at' = "refused"
    BY <1>1, <2>5 DEF ForwardBlock, Block, HaltUnless, eptvars, flushvars
  <2>6. EptViolation => at' # "refused"
    BY DEF EptViolation, Block, HaltUnless
  <2> QED
    BY <1>6, <2>1, <2>2, <2>3, <2>4, <2>5, <2>6 DEF Main, PlainExit
<1>7. CASE Main(PlainUnblock)
  <2>1. UNCHANGED <<next, mode, cur, loaded, guest_ept_root>>
    BY <1>7 DEF Main, PlainUnblock, UnblockOff, UnblockTest, UnblockRead, UnblockClear,
                UnblockOn, eptvars
  <2>2. CASE UnblockOff
    BY <1>1, <2>1, <2>2 DEF UnblockOff, HaltUnless
  <2>3. CASE UnblockTest
    BY <1>1, <2>1, <2>3 DEF UnblockTest, flushvars
  <2>4. CASE UnblockRead \/ UnblockClear \/ UnblockOn
    BY <1>1, <2>1, <2>4 DEF UnblockRead, UnblockClear, UnblockOn
  <2> QED
    BY <1>7, <2>2, <2>3, <2>4 DEF Main, PlainUnblock
<1>8. CASE Main(VmentryTranslate) \/ Main(VmentryFail) \/ Main(ForwardTranslate)
  BY <1>1, <1>8 DEF Main, VmentryTranslate, VmentryFail, ForwardTranslate, HaltOrRefuse,
                    HaltUnless, Unblock,
                    eptvars, flushvars
<1>9. CASE Main(InveptBody) \/ Main(WalkInsert)
  BY <1>1, <1>9 DEF Main, InveptBody, WalkInsert, Unblock, eptvars, flushvars
<1>10. CASE Main(\E v \in Vmcs12 : Vmptrld(v))
  <2>1. UNCHANGED <<mode, disable, loaded, next>> /\ at' = "l1" /\ at = "l1" /\ mode = "root"
    BY <1>10 DEF Main, Vmptrld, flushvars
  <2> QED
    BY <1>1, <2>1
<1> QED
  BY <1>2, <1>3, <1>4, <1>5, <1>6, <1>7, <1>8, <1>9, <1>10, Steps

LEMMA StepNoted ==
  ASSUME NestedInductive, Next, at' # "halted"
  PROVE  Noted'
<1>1. /\ Noted /\ at \in Where /\ next \in {"l1", "l2", "enter", "forward"}
      /\ at \in {"l1", "l2", "enter", "forward", "un_test", "un_read", "un_clear", "un_on"}
           => ~disable
      /\ at = "insert" => disable
  BY Before DEF TypeOK, Places, BlockedAt
<1> USE DEF Noted
<1>2. CASE Changes
  BY <1>1, <1>2 DEF Changes, Ept01Changes, flushvars
<1>3. CASE CacheStep
  <2>1. CASE QuiesceFlush
    <3>1. UNCHANGED <<at, flags, hand>> /\ (UNCHANGED visited \/ disable)
      BY <2>1 DEF QuiesceFlush, flush_ept02
    <3> QED
      BY <1>1, <3>1
  <2>2. CASE EptpFlush
    BY <1>1, <2>2 DEF EptpFlush, flush_ept02
  <2>3. CASE UnblockEffect
    BY <1>1, <2>3 DEF UnblockEffect
  <2> QED
    BY <1>3, <2>1, <2>2, <2>3 DEF CacheStep
<1>4. CASE Main(PlainSlot)
  BY <1>1, <1>4 DEF Main, PlainSlot, Vmxon, Vmxoff, Vmclear, flushvars
<1>5. CASE Main(PlainEntry)
  BY <1>1, <1>5 DEF Main, PlainEntry, Invept, VmentryBlock, VmentryRefused, VmentryMode, Vmentry,
                    Block, Unblock,
                    HaltUnless, flushvars
<1>6. CASE Main(PlainExit)
  BY <1>1, <1>6 DEF Main, PlainExit, EptViolation, WalkRead, WalkViolation, Exit201, L2Refused,
                    ForwardBlock,
                    ForwardMode, Block, Unblock, HaltUnless, flushvars
<1>7. CASE Main(PlainUnblock)
  BY <1>1, <1>7 DEF Main, PlainUnblock, UnblockOff, UnblockTest, UnblockRead, UnblockClear,
                    UnblockOn, HaltUnless, flushvars
<1>8. CASE Main(VmentryTranslate) \/ Main(VmentryFail) \/ Main(ForwardTranslate)
  BY <1>1, <1>8 DEF Main, VmentryTranslate, VmentryFail, ForwardTranslate, HaltOrRefuse,
                    HaltUnless, Unblock,
                    flushvars
<1>9. CASE Main(InveptBody) \/ Main(WalkInsert)
  BY <1>1, <1>9 DEF Main, InveptBody, WalkInsert, Unblock, flushvars
<1>10. CASE Main(\E v \in Vmcs12 : Vmptrld(v))
  <2>1. UNCHANGED <<hand, flushvars>> /\ at' = "l1" /\ at = "l1"
    BY <1>10 DEF Main, Vmptrld
  <2> QED
    BY <1>1, <2>1 DEF flushvars
<1> QED
  BY <1>2, <1>3, <1>4, <1>5, <1>6, <1>7, <1>8, <1>9, <1>10, Steps

\* Steps that leave the launch states alone.
LEMMA LaunchesKept ==
  ASSUME NestedInductive, Next, ~PlainSlot, ~(\E v \in Vmcs12 : Vmptrld(v)), ~Vmentry
  PROVE  UNCHANGED <<launched, hw_launched>>
<1>1. CASE Changes \/ CacheStep
  BY <1>1, CacheStepEffect DEF Changes, Ept01Changes, slotvars
<1>2. CASE Main(PlainEntry) \/ Main(PlainExit) \/ Main(PlainUnblock)
  BY <1>2 DEF Main, PlainEntry, Invept, VmentryBlock, VmentryRefused, VmentryMode,
              PlainExit, EptViolation, WalkRead, WalkViolation, Exit201, L2Refused, ForwardBlock, ForwardMode,
              PlainUnblock, UnblockOff, UnblockTest, UnblockRead, UnblockClear, UnblockOn, slotvars
<1>3. CASE \/ Main(VmentryTranslate) \/ Main(VmentryFail) \/ Main(ForwardTranslate)
           \/ Main(InveptBody) \/ Main(WalkInsert)
  BY <1>3 DEF Main, VmentryTranslate, VmentryFail, ForwardTranslate, InveptBody, WalkInsert,
              slotvars
<1> QED
  BY <1>1, <1>2, <1>3, Steps DEF Main

LEMMA StepLaunches ==
  ASSUME NestedInductive, Next
  PROVE  Launches'
<1>1. Launches /\ vmcs12_ptr \in [Slot -> Vmcs12 \cup {NoVmcs}]
  BY Before DEF TypeOK
<1>2. CASE ~PlainSlot /\ ~(\E v \in Vmcs12 : Vmptrld(v))
  <2>1. UNCHANGED <<cur, vmcs12_ptr>> /\ (mode' = "disabled" <=> mode = "disabled")
    BY <1>2, SlotsKept
  <2>2. CASE Vmentry
    BY <1>1, <2>1, <2>2 DEF Vmentry, Launches
  <2>3. CASE ~Vmentry
    BY <1>1, <1>2, <2>1, <2>3, LaunchesKept DEF Launches
  <2> QED
    BY <2>2, <2>3
<1>3. CASE Vmxon \/ Vmxoff
  BY <1>3 DEF Vmxon, Vmxoff, Launches
<1>4. ASSUME NEW v \in Vmcs12, Vmclear(v) PROVE Launches'
  <2>1. PICK s \in Slot : Clears(s)
    BY <1>4, VmclearEffect
  <2>2. UNCHANGED <<mode, launched>>
    BY <1>4 DEF Vmclear
  <2>3. \A t \in Slot : vmcs12_ptr'[t] = IF t = s THEN NoVmcs ELSE vmcs12_ptr[t]
    BY <1>1, <2>1 DEF Clears
  <2> QED
    BY <1>1, <2>1, <2>2, <2>3 DEF Launches, Clears
<1>5. ASSUME NEW v \in Vmcs12, Vmptrld(v) PROVE Launches'
  <2>1. mode' = mode
    BY <1>5 DEF Vmptrld
  <2>2. CASE UNCHANGED slotvars
    BY <1>1, <2>1, <2>2 DEF Launches, slotvars
  <2>3. CASE SlotsWith(NoVmcs) # {} /\ new_active_vmcs12(Min(SlotsWith(NoVmcs)), v)
    <3>1. PICK s \in Slot : new_active_vmcs12(s, v)
      BY <2>3, SlotsInNat
    <3>2. \A t \in Slot : vmcs12_ptr'[t] = IF t = s THEN v ELSE vmcs12_ptr[t]
      BY <1>1, <3>1 DEF new_active_vmcs12
    <3> QED
      BY <1>1, <2>1, <3>1, <3>2 DEF Launches, new_active_vmcs12
  <2> QED
    BY <1>5, <2>2, <2>3 DEF Vmptrld
<1> QED
  BY <1>2, <1>3, <1>4, <1>5 DEF PlainSlot

-----------------------------------------------------------------------------
(* The line that L2 runs on *)

LEMMA LastLineKept ==
  ASSUME LastLine, UNCHANGED <<eptvars, valid, key, cur>>
  PROVE  LastLine'
BY DEF LastLine, LineFits, eptvars

\* Where the step that leaves L2 looks the EPT02 up.
LEMMA ForwardFacts ==
  ASSUME NestedInductive, Next, at = "fw_translate"
  PROVE  /\ mode = "nonroot" /\ LastLine /\ cur \in Slot /\ loaded = cur
         /\ guest_ept_root[cur] \in Keys /\ valid \in Ages /\ SetOK(valid, key)
         /\ guest_ept_cache_line[cur] \in Line \cup {NoLine}
<1>1. mode = "nonroot"
  BY Before DEF Places, NonrootAt
<1>2. cur \in Slot /\ loaded = cur /\ LastLine
  BY <1>1, Before DEF OnLine
<1>3. EptTypes /\ SetOK(valid, key)
  BY Before, EptParts DEF LruOK
<1> QED
  BY <1>1, <1>2, <1>3 DEF EptTypes

LEMMA StepOnLine ==
  ASSUME NestedInductive, Next, at' # "halted"
  PROVE  OnLine'
<1>1. OnLine /\ Places
  BY Before
<1>2. CASE Changes
  BY <1>1, <1>2, LastLineKept DEF Changes, Ept01Changes, OnLine
<1>3. CASE CacheStep
  <2>1. UNCHANGED <<cur, mode>>
    BY <1>3, CacheStepEffect
  <2>2. at' = at \/ at' = "un_off"
    BY <1>3 DEF CacheStep, QuiesceFlush, EptpFlush, UnblockEffect
  <2>3. CASE UNCHANGED <<eptvars, cachevars>>
    BY <1>1, <2>1, <2>2, <2>3, LastLineKept DEF OnLine, cachevars
  <2>4. CASE /\ ~disable \/ at = "un_effect"
             /\ mode = "nonroot" => LastLine' /\ cur \notin oldaddr'
    BY <1>1, <2>1, <2>2, <2>4 DEF OnLine, Places, BlockedAt
  <2> QED
    BY <1>3, <2>3, <2>4, CacheStepEffect
<1>4. CASE Main(PlainSlot)
  <2>1. at' = "l1" /\ mode' # "nonroot"
    BY <1>4 DEF Main, PlainSlot, Vmxon, Vmxoff, Vmclear
  <2> QED
    BY <2>1 DEF OnLine
<1>5. CASE Main(PlainEntry) \/ Main(PlainExit) \/ Main(PlainUnblock)
  <2>1. UNCHANGED <<eptvars, valid, key, cur>>
    <3>1. UNCHANGED <<eptvars, cachevars>>
      BY <1>5, PlainKeeps DEF Main
    <3>2. UNCHANGED cur
      BY <1>5 DEF Main, PlainEntry, Invept, VmentryBlock, VmentryRefused, VmentryMode, Vmentry,
                  PlainExit, EptViolation, WalkRead, WalkViolation, Exit201, L2Refused, ForwardBlock,
                  ForwardMode, PlainUnblock, UnblockOff, UnblockTest, UnblockRead,
                  UnblockClear, UnblockOn
    <3> QED
      BY <3>1, <3>2 DEF cachevars
  <2>2. (mode' = "nonroot" \/ at' = "en_mode") => (mode = "nonroot" \/ at = "en_mode")
    <3>1. CASE Main(PlainEntry) \/ Main(PlainExit)
      BY <3>1 DEF Main, PlainEntry, Invept, VmentryBlock, VmentryRefused, VmentryMode, Vmentry,
                  Block, Unblock,
                  HaltUnless, PlainExit, EptViolation, WalkRead, WalkViolation, Exit201,
                  L2Refused, ForwardBlock, ForwardMode
    <3>2. CASE Main(PlainUnblock)
      <4>1. next # "en_mode"
        BY Before DEF TypeOK
      <4> QED
        BY <3>2, <4>1 DEF Main, PlainUnblock, UnblockOff, UnblockTest, UnblockRead,
                          UnblockClear, UnblockOn, HaltUnless
    <3> QED
      BY <1>5, <3>1, <3>2
  <2> QED
    BY <1>1, <2>1, <2>2, LastLineKept DEF OnLine
<1>6. CASE Main(VmentryTranslate)
  <2>1. PICK k \in Keys : TranslateEpt(k)
    BY <1>6 DEF Main, VmentryTranslate, Keys
  <2>2. at = "en_translate" /\ cur' = cur
    BY <1>6 DEF Main, VmentryTranslate
  <2>3. LastLine'
    BY <2>1, <2>2, Before, TranslateEffect
  <2> QED
    BY <2>3 DEF OnLine
<1>7. CASE Main(VmentryFail) \/ Main(InveptBody)
  <2>1. at' = "un_off" /\ mode' = mode /\ at \in {"en_translate", "invept"}
    BY <1>7 DEF Main, VmentryFail, InveptBody, Unblock
  <2>2. mode = "root"
    BY <1>1, <2>1 DEF Places
  <2> QED
    BY <2>1, <2>2 DEF OnLine
<1>8. CASE Main(ForwardTranslate)
  <2> DEFINE root == guest_ept_root[cur]
             l == guest_ept_cache_line[cur]
  <2>1. at = "fw_translate" /\ UNCHANGED <<eptvars, cur>>
    BY <1>8 DEF Main, ForwardTranslate
  <2>2. /\ LastLine /\ loaded = cur /\ valid \in Ages /\ SetOK(valid, key) /\ root \in Keys
        /\ l \in Line \cup {NoLine}
    BY <2>1, ForwardFacts
  <2>3. CASE root = NoEpt
    BY <1>8, <2>1, <2>2, <2>3, LastLineKept DEF Main, ForwardTranslate, OnLine, cachevars
  <2>4. CASE root # NoEpt
    <3>1. get_ept02(valid, root) /\ eptp[cur] = FoundLine(valid, key, root)
      BY <1>8, <2>2, <2>4 DEF Main, ForwardTranslate, HaltOrRefuse, HaltUnless
    <3>2. eptp[cur] = l /\ l # NoLine
      BY <2>2, <2>4 DEF LastLine, LineFits
    <3>3. valid'[l] = 1 /\ key'[l] = root
      <4>1. TypeOK /\ l = FoundLine(valid, key, root)
        BY <3>1, <3>2, Before
      <4> HIDE DEF l, root
      <4> QED
        BY <2>2, <3>1, <4>1, GetEffect, ZenonT(30)
    <3>4. LastLine'
      BY <2>1, <2>4, <3>2, <3>3 DEF LastLine, LineFits, eptvars
    <3> QED
      BY <3>4 DEF OnLine
  <2> QED
    BY <2>3, <2>4
<1>9. CASE Main(\E v \in Vmcs12 : Vmptrld(v))
  <2>1. at' = "l1" /\ mode' = "root"
    BY <1>9 DEF Main, Vmptrld
  <2> QED
    BY <2>1 DEF OnLine
<1>10. CASE Main(WalkInsert)
  BY <1>1, <1>10, LastLineKept DEF Main, WalkInsert, OnLine, Unblock
<1> QED
  BY <1>2, <1>3, <1>4, <1>5, <1>6, <1>7, <1>8, <1>9, <1>10, Steps

-----------------------------------------------------------------------------
(* Changes of EPT01 *)

OldInvalid == \A l \in old01 : valid[l] = 0

\* A flush of these flags leaves L2 nothing old.
LEMMA FlushFreshens ==
  ASSUME NestedInductive, Next, NEW fl, flush_ept02_effect(fl), UNCHANGED cur,
         "entry" \in fl \/ ~FlushPending
  PROVE  OldInvalid' /\ (mode = "nonroot" => cur \notin oldaddr')
<1>1. /\ TypeOK /\ LruOK /\ (mode = "nonroot" => cur \in Slot /\ loaded = cur)
      /\ "entry" \in fl \/ (\A l \in old01 : valid[l] = 0)
  BY Before DEF Fresh
<1> QED
  BY <1>1, FlushEffect DEF OldInvalid

LEMMA StepFresh ==
  ASSUME NestedInductive, Next, at' # "halted"
  PROVE  Fresh'
<1>1. Fresh /\ Noted /\ Places
  BY Before
<1> SUFFICES ASSUME ~FlushPending'
             PROVE  /\ OldInvalid' /\ hand' # "old"
                    /\ mode' = "nonroot" \/ at' = "en_mode" => cur' \notin oldaddr'
  BY DEF Fresh, OldInvalid
<1>2. ~FlushPending => /\ OldInvalid /\ hand # "old"
                       /\ mode = "nonroot" \/ at = "en_mode" => cur \notin oldaddr
  BY <1>1 DEF Fresh, OldInvalid
<1>3. CASE Changes
  BY <1>3 DEF Changes, Ept01Changes, FlushPending
<1>4. CASE stopped /\ QuiesceFlush
  <2>1. flush_ept02({"entry"}) /\ UNCHANGED <<at, mode, cur, hand>>
    BY <1>4 DEF QuiesceFlush
  <2>2. ~disable
    BY <2>1 DEF flush_ept02, FlushPending
  <2>3. flush_ept02_effect({"entry"}) /\ cur' = cur
    BY <2>1, <2>2 DEF flush_ept02
  <2>4. OldInvalid' /\ (mode = "nonroot" => cur \notin oldaddr')
    BY <2>3, FlushFreshens
  <2>5. at \notin {"insert", "en_mode"}
    BY <1>1, <2>2 DEF Places, BlockedAt
  <2> QED
    BY <1>1, <2>1, <2>4, <2>5 DEF Noted
<1>5. CASE Main(EptpFlush)
  <2>1. /\ flush_ept02({"eptp"}) /\ UNCHANGED <<at, mode, cur, hand, flags, stopped>>
        /\ at \in {"l1", "l2"}
    BY <1>5 DEF Main, EptpFlush
  <2>2. ~disable
    BY <1>1, <2>1 DEF Places, BlockedAt
  <2>3. flush_ept02_effect({"eptp"}) /\ UNCHANGED visited
    BY <2>1, <2>2 DEF flush_ept02
  <2>4. ~FlushPending
    BY <2>1, <2>3 DEF FlushPending
  <2>5. OldInvalid' /\ (mode = "nonroot" => cur \notin oldaddr')
    <3>1. UNCHANGED cur
      BY <2>1
    <3> QED
      BY <2>3, <2>4, <3>1, FlushFreshens
  <2> QED
    BY <1>2, <2>1, <2>4, <2>5
<1>6. CASE Main(UnblockEffect)
  <2>1. /\ flush_ept02_effect(flags) /\ UNCHANGED <<mode, cur, hand, visited, stopped>>
        /\ at = "un_effect" /\ at' = "un_off"
    BY <1>6 DEF Main, UnblockEffect
  <2>2. "entry" \in flags \/ ~FlushPending
    BY <2>1 DEF FlushPending
  <2>3. OldInvalid' /\ (mode = "nonroot" => cur \notin oldaddr')
    <3>1. UNCHANGED cur
      BY <2>1
    <3> QED
      BY <2>1, <2>2, <3>1, FlushFreshens
  <2> QED
    BY <1>1, <2>1, <2>3 DEF Noted
<1>7. CASE Main(PlainSlot) \/ Main(PlainEntry) \/ Main(PlainExit) \/ Main(PlainUnblock)
  <2>1. UNCHANGED <<old01, valid, oldaddr>>
    BY <1>7, PlainKeeps DEF Main, cachevars
  <2>2. ~FlushPending
    <3>1. CASE Main(PlainSlot) \/ Main(PlainEntry)
      BY <3>1 DEF Main, FlushPending, PlainSlot, Vmxon, Vmxoff, Vmclear, PlainEntry,
                  Invept, VmentryBlock, VmentryRefused, VmentryMode, Vmentry, Block, flushvars
    <3>2. CASE Main(PlainExit)
      BY <3>2 DEF Main, FlushPending, PlainExit, EptViolation, WalkRead, WalkViolation, Exit201,
                  L2Refused, ForwardBlock, ForwardMode, Block, flushvars
    <3>3. CASE Main(PlainUnblock)
      BY <1>1, <3>3 DEF Main, FlushPending, Noted, PlainUnblock, UnblockOff, UnblockTest,
                        UnblockRead, UnblockClear, UnblockOn, flushvars
    <3> QED
      BY <1>7, <3>1, <3>2, <3>3
  <2>3. OldInvalid'
    BY <1>2, <2>1, <2>2 DEF OldInvalid
  <2>4. hand' # "old"
    BY <1>2, <1>7, <2>2 DEF Main, PlainSlot, Vmxon, Vmxoff, Vmclear, PlainEntry,
         Invept, VmentryBlock, VmentryRefused, VmentryMode, Vmentry, PlainExit, EptViolation, WalkRead,
         WalkViolation, Exit201, L2Refused, ForwardBlock, ForwardMode, PlainUnblock, UnblockOff,
         UnblockTest, UnblockRead, UnblockClear, UnblockOn
  <2>5. mode' = "nonroot" \/ at' = "en_mode"
          => cur' = cur /\ (mode = "nonroot" \/ at = "en_mode")
    <3>1. next # "en_mode"
      BY Before DEF TypeOK
    <3>2. CASE Main(PlainSlot) \/ Main(PlainEntry)
      BY <3>2 DEF Main, PlainSlot, Vmxon, Vmxoff, Vmclear, PlainEntry,
                  Invept, VmentryBlock, VmentryRefused, VmentryMode, Vmentry, Block, HaltUnless, Unblock
    <3>3. CASE Main(PlainExit)
      BY <3>3 DEF Main, PlainExit, EptViolation, WalkRead, WalkViolation, Exit201,
                  L2Refused, ForwardBlock, ForwardMode, Block, HaltUnless, Unblock
    <3>4. CASE Main(PlainUnblock)
      BY <3>1, <3>4 DEF Main, PlainUnblock, UnblockOff, UnblockTest, UnblockRead,
                        UnblockClear, UnblockOn, HaltUnless
    <3> QED
      BY <1>7, <3>2, <3>3, <3>4
  <2> QED
    BY <1>2, <2>1, <2>2, <2>3, <2>4, <2>5
<1>8. ASSUME UNCHANGED <<hand, flushvars, stopped>>
      PROVE  ~FlushPending /\ hand' # "old"
  BY <1>2, <1>8 DEF FlushPending, flushvars
<1>9. CASE Main(VmentryTranslate) \/ Main(VmentryFail)
  <2>1. UNCHANGED <<hand, flushvars, stopped, cur, mode>> /\ at = "en_translate"
    BY <1>9 DEF Main, VmentryTranslate, VmentryFail
  <2>2. ~FlushPending /\ hand' # "old" /\ mode = "root"
    BY <1>1, <1>8, <2>1 DEF Places
  <2>3. CASE \E k \in Keys : TranslateEpt(k)
    <3>1. PICK k \in Keys : TranslateEpt(k)
      BY <2>3
    <3>2. \A l \in old01 : valid[l] = 0
      BY <1>2, <2>2 DEF OldInvalid
    <3>3. cur \notin oldaddr' /\ \A l \in old01' : valid'[l] = 0
      BY <2>1, <3>1, <3>2, Before, TranslateEffect
    <3> QED
      BY <2>1, <2>2, <3>3 DEF OldInvalid
  <2>4. CASE UNCHANGED <<eptvars, cachevars>> /\ at' = "un_off"
    BY <1>2, <2>1, <2>2, <2>4 DEF OldInvalid, cachevars
  <2> QED
    BY <1>9, <2>3, <2>4 DEF Main, VmentryTranslate, VmentryFail, Keys, Unblock
<1>10. CASE Main(ForwardTranslate)
  <2>1. UNCHANGED <<hand, flushvars, stopped, cur, mode, oldaddr>> /\ at = "fw_translate"
    BY <1>10 DEF Main, ForwardTranslate, cachevars
  <2>2. ~FlushPending /\ hand' # "old"
    BY <1>8, <2>1
  <2>3. at' # "en_mode"
    BY <1>10 DEF Main, ForwardTranslate, HaltOrRefuse, HaltUnless
  <2>4. OldInvalid'
    <3>1. CASE guest_ept_root[cur] = NoEpt
      <4>1. UNCHANGED <<old01, valid>>
        BY <1>10, <3>1 DEF Main, ForwardTranslate, cachevars
      <4> QED
        BY <1>2, <2>2, <4>1 DEF OldInvalid
    <3>2. CASE guest_ept_root[cur] # NoEpt
      <4>1. get_ept02(valid, guest_ept_root[cur])
        BY <1>10, <3>2 DEF Main, ForwardTranslate
      <4>2. \A l \in old01 : valid[l] = 0
        BY <1>2, <2>2 DEF OldInvalid
      <4>3. \A l \in old01' : valid'[l] = 0
        BY <2>1, <4>1, <4>2, Before, ForwardFacts, GetEffect
      <4> QED
        BY <4>3 DEF OldInvalid
    <3> QED
      BY <3>1, <3>2
  <2> QED
    BY <1>2, <2>1, <2>2, <2>3, <2>4
<1>11. CASE Main(InveptBody)
  <2>1. /\ UNCHANGED <<hand, flushvars, stopped, mode, old01>>
        /\ at = "invept" /\ at' = "un_off"
    BY <1>11 DEF Main, InveptBody, Unblock
  <2>2. ~FlushPending /\ hand' # "old" /\ mode = "root"
    BY <1>1, <1>8, <2>1 DEF Places
  <2>3. valid \in Ages /\ SetOK(valid, key) /\ old01 \subseteq Line
    BY Before, EptParts DEF EptTypes, LruOK
  <2>4. \A l \in Line : valid[l] = 0 => valid'[l] = 0
    <3>1. CASE invept_global
      BY <3>1, InitOK DEF invept_global
    <3>2. ASSUME NEW k \in Ept12, invept_single_context(k)
          PROVE  \A l \in Line : valid[l] = 0 => valid'[l] = 0
      BY <2>3, <3>2, InvalidateOK DEF invept_single_context
    <3>3. CASE UNCHANGED valid
      BY <3>3
    <3> QED
      BY <1>11, <3>1, <3>2, <3>3 DEF Main, InveptBody
  <2> QED
    BY <1>2, <2>1, <2>2, <2>3, <2>4 DEF OldInvalid
<1>12. CASE Main(\E v \in Vmcs12 : Vmptrld(v))
  <2>1. UNCHANGED <<hand, flushvars, stopped, cachevars>> /\ at' = "l1" /\ mode' = "root"
    BY <1>12 DEF Main, Vmptrld
  <2> QED
    BY <1>2, <1>8, <2>1 DEF OldInvalid, cachevars
<1>13. CASE Main(WalkInsert)
  <2>1. /\ UNCHANGED <<flushvars, stopped, cur, mode, oldaddr, valid>> /\ hand' = "none"
        /\ at' = "un_off"
    BY <1>13 DEF Main, WalkInsert, Unblock
  <2>2. ~FlushPending
    BY <2>1 DEF FlushPending, flushvars
  <2>3. old01' \subseteq old01
    BY <1>2, <1>13, <2>2 DEF Main, WalkInsert
  <2> QED
    BY <1>2, <2>1, <2>2, <2>3 DEF OldInvalid
<1> QED
  BY <1>3, <1>4, <1>5, <1>6, <1>7, <1>9, <1>10, <1>11, <1>12, <1>13, Steps DEF CacheStep, Main

-----------------------------------------------------------------------------
(* Assertions *)

\* A slot is free for a VMCS12 that has none.
LEMMA FreeSlot ==
  ASSUME NestedInductive, Next, Enough, mode = "root", NEW v \in Vmcs12, SlotsWith(v) = {}
  PROVE  SlotsWith(NoVmcs) # {}
<1> DEFINE others == Vmcs12 \ {v}
<1>1. /\ vmcs12_ptr \in [Slot -> Vmcs12 \cup {NoVmcs}]
      /\ \A s, t \in Slot : vmcs12_ptr[s] = vmcs12_ptr[t] /\ vmcs12_ptr[s] # NoVmcs => s = t
  BY Before DEF TypeOK, ActiveOnce
<1>2. IsFiniteSet(Slot) /\ Cardinality(Slot) = NSlots
  <2>1. 0 \in Int /\ NSlots - 1 \in Int /\ ~(0 > NSlots - 1)
    BY NSlotsAssumption
  <2> QED
    BY <2>1, FS_Interval, NSlotsAssumption DEF Slot
<1>3. IsFiniteSet(others) /\ Cardinality(others) < Cardinality(Slot)
  <2>1. IsFiniteSet(Vmcs12) /\ Cardinality(Vmcs12) <= NSlots /\ Cardinality(Vmcs12) \in Nat
    BY FS_CardinalityType DEF Enough
  <2>2. IsFiniteSet(others) /\ Cardinality(others) = Cardinality(Vmcs12) - 1
    BY <2>1, FS_RemoveElement
  <2> QED
    BY <1>2, <2>1, <2>2, NSlotsAssumption
<1>4. ASSUME SlotsWith(NoVmcs) = {} PROVE FALSE
  <2>1. \A s \in Slot : vmcs12_ptr[s] # v /\ vmcs12_ptr[s] # NoVmcs
    BY <1>4 DEF SlotsWith
  <2>2. vmcs12_ptr \in [Slot -> others]
    BY <1>1, <2>1
  <2> HIDE DEF others
  <2>3. \E s, t \in Slot : s # t /\ vmcs12_ptr[s] = vmcs12_ptr[t]
    BY ONLY <1>2, <1>3, <2>2, FS_PigeonHole
  <2> QED
    BY <1>1, <2>1, <2>3
<1> QED
  BY <1>4

LEMMA StepHalts ==
  ASSUME NestedInductive, Next, at' = "halted"
  PROVE  ~stopped' /\ ~Enough
<1>1. Places /\ Launches /\ ActiveOnce /\ OnLine /\ at # "halted" /\ next # "halted"
  BY Before DEF TypeOK
<1>2. CASE Changes \/ CacheStep
  BY <1>1, <1>2 DEF Changes, Ept01Changes, CacheStep, QuiesceFlush, EptpFlush, UnblockEffect
<1>3. CASE Main(PlainSlot)
  BY <1>1, <1>3 DEF Main, PlainSlot, Vmxon, Vmxoff, Vmclear
<1>4. CASE Main(PlainEntry)
  <2>1. CASE Invept \/ VmentryBlock \/ VmentryRefused \/ VmentryMode
    BY <1>1, <2>1 DEF Invept, VmentryBlock, VmentryRefused, VmentryMode, Block, HaltUnless,
                      Unblock, Places, BlockedAt
  <2>2. CASE Vmentry
    <3>1. at = "enter" /\ ~(cur \in launched <=> cur \in hw_launched)
      BY <2>2 DEF Vmentry, HaltUnless
    <3>2. mode = "nonroot"
      BY <1>1, <3>1 DEF Places, NonrootAt
    <3>3. cur \in Slot
      BY <3>2, Before
    <3> QED
      BY <1>1, <3>1, <3>2, <3>3, NotALine DEF Launches, ActiveOnce
  <2> QED
    BY <1>4, <2>1, <2>2 DEF Main, PlainEntry
<1>5. CASE Main(PlainExit)
  <2>1. CASE EptViolation \/ Exit201 \/ L2Refused \/ ForwardBlock \/ ForwardMode
    BY <1>1, <2>1 DEF EptViolation, Exit201, L2Refused, ForwardBlock, ForwardMode, Block,
                      HaltUnless, Unblock,
                      Places, BlockedAt, NonrootAt
  <2>2. CASE WalkRead \/ WalkViolation
    <3>1. at = "walk" /\ guest_ept_root[cur] # NoEpt /\ ~LineFits
      BY <2>2 DEF WalkRead, WalkViolation, HaltUnless, Unblock
    <3> QED
      BY <1>1, <3>1 DEF Places, NonrootAt, OnLine, LastLine
  <2> QED
    BY <1>5, <2>1, <2>2 DEF Main, PlainExit
<1>6. CASE Main(PlainUnblock)
  BY <1>1, <1>6 DEF Main, PlainUnblock, UnblockOff, UnblockTest, UnblockRead, UnblockClear,
                    UnblockOn, HaltUnless, Places, BlockedAt
<1>7. CASE Main(VmentryTranslate) \/ Main(VmentryFail) \/ Main(InveptBody) \/ Main(WalkInsert)
  BY <1>7 DEF Main, VmentryTranslate, VmentryFail, InveptBody, WalkInsert, Unblock
<1>8. CASE Main(ForwardTranslate)
  <2> DEFINE root == guest_ept_root[cur]
             l == guest_ept_cache_line[cur]
  <2>1. at = "fw_translate"
    BY <1>8 DEF Main, ForwardTranslate
  <2>2. /\ LastLine /\ loaded = cur /\ valid \in Ages /\ SetOK(valid, key)
        /\ l \in Line \cup {NoLine}
    BY <2>1, ForwardFacts
  <2>3. root # NoEpt /\ ~(Hits(valid, key, root) # {} /\ eptp[cur] = FoundLine(valid, key, root))
    BY <1>8, <2>2 DEF Main, ForwardTranslate, HaltOrRefuse, HaltUnless, LastLine
  <2>4. l \in Line /\ key[l] = root /\ eptp[cur] = l /\ valid[l] = 1
    BY <2>2, <2>3 DEF LastLine, LineFits
  <2>5. ~(NLines > 1)
    BY <2>2, <2>3, <2>4, FoundAgain, SMTT(30)
  <2> QED
    BY <1>8, <2>5 DEF Main, Enough
<1>9. CASE Main(\E v \in Vmcs12 : Vmptrld(v))
  <2>1. PICK v \in Vmcs12 : Vmptrld(v)
    BY <1>9 DEF Main
  <2>2. mode = "root" /\ SlotsWith(v) = {} /\ SlotsWith(NoVmcs) = {}
    BY <1>1, <2>1 DEF Vmptrld
  <2> QED
    BY <1>9, <2>2, FreeSlot DEF Main
<1> QED
  BY <1>2, <1>3, <1>4, <1>5, <1>6, <1>7, <1>8, <1>9, Steps

-----------------------------------------------------------------------------
(* Theorems *)

LEMMA InitNested == Init => NestedInductive
<1> SUFFICES ASSUME Init PROVE NestedInductive
  OBVIOUS
<1>1. EptTypes
  BY InitOK, NLinesAssumption DEF Init, EptTypes, Keys
<1>2. OtherTypes /\ Booleans
  BY DEF Init, OtherTypes, Booleans, Where, Flags
<1>3. TypeOK
  BY <1>1, <1>2, TypeParts
<1>4. LruOK
  BY InitOK DEF Init, LruOK
<1>5. ActiveOnce /\ eptp[VMCS01] = EPT01
  BY DEF Init, ActiveOnce
<1>6. Places /\ Noted /\ Launches /\ OnLine /\ Fresh
  BY DEF Init, Places, Noted, Launches, OnLine, Fresh, FlushPending, BlockedAt, NonrootAt,
         UnblockingAt
<1> QED
  BY <1>3, <1>4, <1>5, <1>6 DEF Init, NestedInductive

LEMMA StepNested == NestedInductive /\ [Next]_vars => NestedInductive'
<1> SUFFICES ASSUME NestedInductive, [Next]_vars PROVE NestedInductive'
  OBVIOUS
<1>1. CASE Next
  <2>1. TypeOK'
    <3>1. EptTypes' /\ OtherTypes' /\ Booleans'
      BY <1>1, StepCache, StepOther, StepBooleans
    <3> QED
      BY <3>1 DEF TypeOK, EptTypes, OtherTypes, Booleans, Ages, Keys
  <2>2. LruOK' /\ ActiveOnce' /\ (eptp[VMCS01] = EPT01)'
    BY <1>1, StepCache, StepActive DEF VMCS01, EPT01
  <2>3. at' # "halted" => Places' /\ Noted' /\ Launches' /\ OnLine' /\ Fresh'
    BY <1>1, StepPlaces, StepNoted, StepLaunches, StepOnLine, StepFresh
  <2>4. at' = "halted" => ~stopped' /\ ~Enough'
    BY <1>1, StepHalts DEF Enough
  <2> QED
    BY <2>1, <2>2, <2>3, <2>4 DEF NestedInductive
<1>2. CASE UNCHANGED vars
  <2>1. UNCHANGED <<at, next, mode, cur, vmcs12_ptr, launched, hw_launched, loaded, hand, stopped,
                    disable, visited, flags, eptvars, cachevars>>
    BY <1>2 DEF vars, slotvars, flushvars
  <2>2. UNCHANGED <<guest_ept_root, guest_ept_cache_line, eptp,
                    valid, key, filled, old01, old12, oldaddr>>
    BY <2>1 DEF eptvars, cachevars
  <2>3. TypeOK => TypeOK'
    BY <2>1, <2>2 DEF TypeOK
  <2>4. (LruOK => LruOK') /\ (ActiveOnce => ActiveOnce')
    BY <2>1, <2>2 DEF LruOK, SetOK, ActiveOnce
  <2>5. (Places => Places') /\ (Noted => Noted')
    BY <2>1, <2>2 DEF Places, Noted
  <2>6. (Launches => Launches') /\ (OnLine => OnLine')
    BY <2>1, <2>2, LastLineKept DEF Launches, OnLine
  <2>7. Fresh => Fresh'
    BY <2>1, <2>2 DEF Fresh, FlushPending
  <2> QED
    BY <2>1, <2>2, <2>3, <2>4, <2>5, <2>6, <2>7 DEF NestedInductive, Enough, VMCS01, EPT01
<1> QED
  BY <1>1, <1>2

\* What lookups keep true of the cache, where flushes are blocked and noted, and
\* which line L2 runs on is an invariant of the nested code.
THEOREM NestedInvariant == Spec => []NestedInductive
BY InitNested, StepNested, PTL DEF Spec

\* Every variable of the nested code keeps its type; a line that get_ept02 finds
\* is one of the cache, and a slot that handle_vmptrld takes is one of the table.
THEOREM NestedTypeCorrect == Spec => []TypeOK
<1>1. NestedInductive => TypeOK
  BY DEF NestedInductive
<1> QED
  BY <1>1, NestedInvariant, PTL

\* A VMCS12 is in one slot of cpu_active_vmcs12, whatever L1 loads and clears.
THEOREM VmcsActiveOnce == Spec => []ActiveOnce
<1>1. NestedInductive => ActiveOnce
  BY DEF NestedInductive
<1> QED
  BY <1>1, NestedInvariant, PTL

\* L1 runs on EPT01 and L2 on the EPT02 of its EPT12, for any size of the cache.
THEOREM OwnEpt == Spec => []RunsOnItsEpt
<1>1. NestedInductive => RunsOnItsEpt
  BY DEF NestedInductive, RunsOnItsEpt, L2Runs, Places, NonrootAt, OnLine, LastLine
<1> QED
  BY <1>1, NestedInvariant, PTL

\* A change of EPT01 reaches L2 before L2 runs again, wherever in the nested code
\* the flush for it arrives.
THEOREM ChangeReachesL2 == Spec => []Ept01ChangeReachesL2
<1>1. ASSUME NestedInductive, L2Runs PROVE cur \notin oldaddr /\ eptp[cur] \notin old01
  <2>1. at = "l2" /\ ~stopped /\ mode = "nonroot" /\ visited = {} /\ flags = {} /\ TypeOK
    BY <1>1 DEF NestedInductive, L2Runs, Places, NonrootAt, Noted
  <2>2. cur \notin oldaddr /\ \A l \in old01 : valid[l] = 0
    BY <1>1, <2>1 DEF NestedInductive, Fresh, FlushPending
  <2>3. LastLine
    BY <1>1, <2>1 DEF NestedInductive, OnLine
  <2>4. EPT01 \notin old01
    BY <2>1, NLinesAssumption DEF TypeOK, EPT01, Line
  <2> QED
    BY <2>2, <2>3, <2>4 DEF LastLine
<1>2. NestedInductive => Ept01ChangeReachesL2
  BY <1>1 DEF Ept01ChangeReachesL2
<1> QED
  BY <1>2, NestedInvariant, PTL

\* XMHF's assertions about its own state do not fail on the nested path, if L1
\* has no more VMCSs than there are slots and the cache has two lines or more
\* (VMX_NESTED_MAX_ACTIVE_EPT): a CPU halts only over a setting, an EPT12 or a
\* hypapp callback that the code refuses.
THEOREM AssertionsHold == Enough => (Spec => []OnlyRefusalsHalt)
<1> SUFFICES ASSUME Enough PROVE Spec => []OnlyRefusalsHalt
  OBVIOUS
<1>1. NestedInductive => OnlyRefusalsHalt
  BY DEF NestedInductive, OnlyRefusalsHalt
<1> QED
  BY <1>1, NestedInvariant, PTL
=============================================================================
