-------------------------- MODULE TrustVisorProofs --------------------------
(***************************************************************************)
(* What TrustVisor promises holds for any number of CPUs, processes, pages *)
(* and PALs: a page that a PAL has to itself stays out of everyone else's  *)
(* reach, and each CPU is in the world the bookkeeping says it is in.      *)
(***************************************************************************)
EXTENDS TrustVisor, WellFoundedInduction, SequenceTheorems, TLAPS

(* Operators *)

\* A set of natural numbers that is not empty has a least element.
LEMMA LeastNatural ==
  ASSUME NEW S, S \subseteq Nat, S # {}
  PROVE  \E x \in S : \A y \in S : x <= y
<1>1. \E x \in S : \A y \in S : ~(<<y, x>> \in OpToRel(<, Nat))
  BY NatLessThanWellFounded, WFMin, Zenon
<1>2. \A x, y \in Nat : y < x => <<y, x>> \in OpToRel(<, Nat)
  BY DEF OpToRel
<1>3. PICK x \in S : \A y \in S : ~(<<y, x>> \in OpToRel(<, Nat))
  BY <1>1
<1>4. \A y \in S : ~(y < x)
  BY <1>2, <1>3, Zenon
<1> QED
  BY <1>4

\* Min chooses an element: the first free entry of scode_register, the entry
\* scode_in_list finds.
LEMMA MinIsLeast ==
  ASSUME NEW S, S \subseteq Nat, S # {}
  PROVE  Min(S) \in S
BY LeastNatural, Zenon DEF Min

\* What Kept chooses exists: the sections after it are SHARED.
LEMMA KeptProperties ==
  ASSUME NEW s \in Seq(Section)
  PROVE  /\ Kept(s) \in 0 .. Len(s)
         /\ \A k \in Kept(s) + 1 .. Len(s) : s[k].type = "SHARED"
<1> DEFINE T == {n \in 0 .. Len(s) : \A k \in n + 1 .. Len(s) : s[k].type = "SHARED"}
<1>1. Len(s) \in T /\ T \subseteq Nat
  OBVIOUS
<1>2. PICK n \in T : \A m \in T : n <= m
  BY <1>1, LeastNatural, Zenon
<1>3. n > 0 => s[n].type # "SHARED"
  <2> SUFFICES ASSUME n > 0, s[n].type = "SHARED" PROVE FALSE
    OBVIOUS
  <2>1. n - 1 \in T
    OBVIOUS
  <2>2. n <= n - 1
    BY <1>2, <2>1, Zenon
  <2>3. n \in Nat
    BY <1>1
  <2> QED
    BY <2>2, <2>3
<1> HIDE DEF T
<1>4. \E m \in 0 .. Len(s) :
        /\ \A k \in m + 1 .. Len(s) : s[k].type = "SHARED"
        /\ m > 0 => s[m].type # "SHARED"
  BY <1>3, Zenon DEF T
<1> QED
  BY <1>4 DEF Kept

\* The sections of an array are those at its positions.
LEMMA InToSet ==
  ASSUME NEW s \in Seq(Section), NEW r
  PROVE  r \in ToSet(s) <=> \E k \in 1 .. Len(s) : r = s[k]
BY DEF ToSet

\* An array of one section.
LEMMA SingleSection ==
  ASSUME NEW r \in Section
  PROVE  <<r>> \in Seq(Section) /\ ToSet(<<r>>) = {r}
BY DEF ToSet

\* The sections before and after position n.
LEMMA PrefixSections ==
  ASSUME NEW s \in Seq(Section), NEW n \in 0 .. Len(s)
  PROVE  /\ SubSeq(s, 1, n) \in Seq(Section) /\ Len(SubSeq(s, 1, n)) = n
         /\ \A k \in 1 .. n : SubSeq(s, 1, n)[k] = s[k]
         /\ \A r : r \in ToSet(SubSeq(s, 1, n)) <=> \E k \in 1 .. n : r = s[k]
<1>1. PICK q \in Seq(Section) : q = SubSeq(s, 1, n)
  <2>1. SubSeq(s, 1, n) \in Seq(Section)
    BY SubSeqProperties
  <2> QED
    BY <2>1, Zenon
<1>2. Len(q) = n /\ \A k \in 1 .. n : q[k] = s[k]
  BY <1>1
<1>3. \A r : r \in ToSet(q) <=> \E k \in 1 .. n : r = s[k]
  BY <1>2, InToSet
<1> QED
  BY <1>1, <1>2, <1>3

\* The pages of the sections after position n.
LEMMA SuffixPages ==
  ASSUME NEW s \in Seq(Section), NEW n \in 0 .. Len(s), NEW p
  PROVE  p \in Pages(SubSeq(s, n + 1, Len(s)))
           <=> \E k \in n + 1 .. Len(s) : s[k].page = p
<1>1. PICK q \in Seq(Section) : q = SubSeq(s, n + 1, Len(s))
  <2>1. SubSeq(s, n + 1, Len(s)) \in Seq(Section)
    BY SubSeqProperties
  <2> QED
    BY <2>1, Zenon
<1>2. Len(q) = Len(s) - n /\ \A k \in 1 .. Len(s) - n : q[k] = s[n + k]
  BY <1>1
<1>3. p \in Pages(q) <=> \E k \in 1 .. Len(s) - n : s[n + k].page = p
  <2>1. \A r : r \in ToSet(q) <=> \E k \in 1 .. Len(s) - n : r = s[n + k]
    BY <1>2, InToSet
  <2> QED
    BY <2>1, ZenonT(30) DEF Pages
<1>4. \A k \in n + 1 .. Len(s) : k - n \in 1 .. Len(s) - n /\ n + (k - n) = k
  OBVIOUS
<1>5. \A k \in 1 .. Len(s) - n : n + k \in n + 1 .. Len(s)
  OBVIOUS
<1> QED
  BY <1>1, <1>3, <1>4, <1>5, Zenon

\* The array with one section more (scode_share_range).
LEMMA AppendSections ==
  ASSUME NEW s \in Seq(Section), NEW new \in Section
  PROVE  /\ Append(s, new) \in Seq(Section) /\ Len(Append(s, new)) = Len(s) + 1
         /\ ToSet(Append(s, new)) = ToSet(s) \cup {new}
         /\ \A k \in 1 .. Len(s) + 1 :
              Append(s, new)[k] = IF k = Len(s) + 1 THEN new ELSE s[k]
<1>1. PICK q \in Seq(Section) : q = Append(s, new)
  <2>1. Append(s, new) \in Seq(Section)
    BY AppendProperties
  <2> QED
    BY <2>1, Zenon
<1>2. Len(q) = Len(s) + 1
      /\ \A k \in 1 .. Len(s) + 1 : q[k] = IF k = Len(s) + 1 THEN new ELSE s[k]
  BY <1>1
<1>3. \A r : r \in ToSet(q) <=> \E k \in 1 .. Len(s) + 1 : r = q[k]
  BY <1>2, InToSet
<1>4. \A r : r \in ToSet(s) <=> \E k \in 1 .. Len(s) : r = s[k]
  BY InToSet
<1>5. \A r : r \in ToSet(q) <=> r = new \/ r \in ToSet(s)
  BY <1>2, <1>3, <1>4
<1> QED
  BY <1>1, <1>2, <1>5

AllTypes == {"CODE", "SHARED_CODE", "DATA", "PARAM", "STACK", "SHARED", "GUEST_PAGE_TABLES"}
WrittenTypes == {"DATA", "PARAM", "STACK"}

\* The rights of a section of each type.
LEMMA Protections ==
  ASSUME NEW t \in AllTypes
  PROVE  /\ pal_prot_of_type(t) \in Rights /\ "R" \in pal_prot_of_type(t)
         /\ reg_prot_of_type(t) \in Rights
         /\ t \in WrittenTypes =>
              reg_prot_of_type(t) = {} /\ "W" \in pal_prot_of_type(t)
<1>1. t \in {"CODE", "SHARED_CODE"} \/ t \in {"DATA", "PARAM", "STACK", "SHARED"}
      \/ t = "GUEST_PAGE_TABLES"
  BY DEF AllTypes
<1> QED
  BY <1>1 DEF pal_prot_of_type, reg_prot_of_type, Rights, WrittenTypes

Distinct(s) == \A k, l \in 1 .. Len(s) : s[k].page = s[l].page => k = l

\* Sections in a sequence with distinct pages.
LEMMA DistinctSections ==
  ASSUME NEW s \in Seq(Section), Distinct(s)
  PROVE  \A q, r \in ToSet(s) : q.page = r.page => q = r
BY DEF ToSet, Distinct

\* With distinct pages, TypeOf is the type of the section with the page.
LEMMA TypeOfSection ==
  ASSUME NEW s \in Seq(Section), Distinct(s), NEW r \in ToSet(s)
  PROVE  TypeOf(s, r.page) = r.type
<1>1. \A q \in ToSet(s) : q.page = r.page => q = r
  BY DistinctSections
<1> QED
  BY <1>1 DEF TypeOf

-----------------------------------------------------------------------------
(* The inductive invariant *)

SectionsOf(i) == ToSet(whitelist[i].sections)

\* The sections of an entry have different pages, and the PAL has rights to
\* these pages only, as their types call for.
RightsMatch ==
  \A i \in Slot :
    /\ Distinct(whitelist[i].sections)
    /\ whitelist[i].gcr3 = NoProcess => whitelist[i].sections = <<>>
    /\ \A r \in SectionsOf(i) : pal_npt[i][r.page] = pal_prot_of_type(r.type)
    /\ stopped = "no" =>
         \A p \in Page : pal_npt[i][p] # {} => \E r \in SectionsOf(i) : r.page = p

\* Private data is in sections of its PAL that only the PAL can use.
SecretsKept ==
  \A p \in Page, i \in Slot :
    secret[p] = i => \E r \in SectionsOf(i) : r.page = p /\ r.type \in WrittenTypes

\* No EPT and no TLB but those of the PAL have rights to a private page.
Alone(i, p) ==
  /\ reg_npt[p] = {}
  /\ \A j \in Slot \ {i} : pal_npt[j][p] = {}
  /\ \A c \in CPU, x \in Ept \ {i} : tlb[c][x][p] = {}
PrivateAlone ==
  \A i \in Slot : \A r \in SectionsOf(i) :
    r.page \notin overlap /\ reg_prot_of_type(r.type) = {} => Alone(i, r.page)

Inductive ==
  /\ TypeOK
  /\ RightsMatch
  /\ SecretsKept
  /\ PrivateAlone
  /\ stopped = "down" => \A p \in Page : secret[p] = 0

Tlbs == [CPU -> [Ept -> [Page -> Rights]]]

\* Fill adds what the EPTs allow, no more.
LEMMA FillAdds ==
  ASSUME NEW t \in Tlbs, Fill(t), root' \in [CPU -> Ept],
         reg_npt' \in [Page -> Rights], pal_npt' \in [Slot -> [Page -> Rights]]
  PROVE  /\ tlb' \in Tlbs
         /\ \A c \in CPU, x \in Ept, p \in Page :
              /\ t[c][x][p] = {}
              /\ x = 0 => reg_npt'[p] = {}
              /\ x \in Slot => pal_npt'[x][p] = {}
              => tlb'[c][x][p] = {}
<1> DEFINE R(c) == [p \in Page |-> t[c][root'[c]][p] \cup
                     IF root'[c] = 0 THEN reg_npt'[p] ELSE pal_npt'[root'[c]][p]]
<1>1. \A c \in CPU : root'[c] \in Ept /\ (root'[c] # 0 => root'[c] \in Slot)
  BY NSlotsAssumption DEF Ept, Slot
<1>2. \A c \in CPU : R(c) \in [Page -> Rights]
  BY <1>1 DEF Tlbs, Rights
<1>3. tlb' = [c \in CPU |-> [t[c] EXCEPT ![root'[c]] = R(c)]]
  BY DEF Fill
<1>4. \A c \in CPU, p \in Page : R(c)[p] = t[c][root'[c]][p] \cup
        IF root'[c] = 0 THEN reg_npt'[p] ELSE pal_npt'[root'[c]][p]
  OBVIOUS
<1> HIDE DEF R
<1>5. tlb' \in Tlbs
  BY <1>1, <1>2, <1>3 DEF Tlbs
<1>6. \A c \in CPU, x \in Ept : tlb'[c][x] = IF x = root'[c] THEN R(c) ELSE t[c][x]
  BY <1>1, <1>3 DEF Tlbs
<1> QED
  BY <1>1, <1>4, <1>5, <1>6

Empty == [d \in CPU |-> [x \in Ept |-> NONE]]

\* After INVEPT on every CPU, a TLB holds what the EPTs allow.
LEMMA FillEmpty ==
  ASSUME Fill(Empty), TypeOK'
  PROVE  \A c \in CPU, x \in Ept, p \in Page :
           /\ x = 0 => reg_npt'[p] = {}
           /\ x \in Slot => pal_npt'[x][p] = {}
           => tlb'[c][x][p] = {}
<1>1. Empty \in Tlbs
  BY DEF Empty, NONE, Tlbs, Rights
<1>2. \A c \in CPU, x \in Ept, p \in Page : Empty[c][x][p] = {}
  BY DEF Empty, NONE
<1>3. root' \in [CPU -> Ept] /\ reg_npt' \in [Page -> Rights]
      /\ pal_npt' \in [Slot -> [Page -> Rights]]
  BY DEF TypeOK
<1> HIDE DEF Empty
<1> QED
  BY <1>1, <1>2, <1>3, FillAdds, Zenon

\* A section has a page and one of the types.
LEMMA SectionParts ==
  ASSUME NEW r \in Section
  PROVE  r.page \in Page /\ r.type \in AllTypes
BY TypesAssumption, Zenon DEF Section, AllTypes

-----------------------------------------------------------------------------
(* Lending *)

\* Sections s are lent to entry i, which has them and those it had before.
Lends(i, s) ==
  /\ Inductive /\ TypeOK'
  /\ stopped = "no" /\ UNCHANGED <<stopped, secret>>
  /\ LendOK(i, s)
  /\ scode_lend_section(i, s)
  /\ Fill(Empty)
  /\ \A j \in Slot \ {i} : whitelist'[j] = whitelist[j]
  /\ whitelist'[i].gcr3 # NoProcess
  /\ Distinct(whitelist'[i].sections)
  /\ ToSet(whitelist'[i].sections) = ToSet(whitelist[i].sections) \cup ToSet(s)

\* scode_lend_section and the flush after it preserve the invariant.
LEMMA LendStep ==
  ASSUME NEW i \in Slot, NEW s \in Seq(Section), Lends(i, s)
  PROVE  RightsMatch' /\ SecretsKept' /\ PrivateAlone'
<1>1. /\ reg_npt \in [Page -> Rights] /\ pal_npt \in [Slot -> [Page -> Rights]]
      /\ \A j \in Slot : SectionsOf(j) \subseteq Section
  BY DEF Lends, Inductive, TypeOK, Entry, SectionsOf, ToSet
<1>2. Distinct(s)
  BY DEF Lends, LendOK, IsInjective, Distinct
<1>3. \A r \in ToSet(s) : r \in Section /\ r.page \in Page /\ r.type \in AllTypes
  BY SectionParts DEF ToSet
<1>4. \A r \in ToSet(s) : TypeOf(s, r.page) = r.type
  BY <1>2, TypeOfSection, Zenon
<1>5. \A r \in ToSet(s) : reg_npt[r.page] # {} /\ pal_npt[i][r.page] = {}
  BY <1>3, Protections DEF Lends, LendOK
<1>6. \A p : p \in Pages(s) <=> \E r \in ToSet(s) : r.page = p
  BY DEF Pages
<1>7. \A p \in Page : reg_npt'[p] = IF p \in Pages(s) THEN reg_prot_of_type(TypeOf(s, p))
                                                     ELSE reg_npt[p]
  BY DEF Lends, scode_lend_section, RegAfterLend
<1>8. \A j \in Slot, p \in Page :
        pal_npt'[j][p] = IF j = i /\ p \in Pages(s) THEN pal_prot_of_type(TypeOf(s, p))
                                                    ELSE pal_npt[j][p]
  BY <1>1 DEF Lends, scode_lend_section
<1>9. \A p \in Page : p \notin overlap' =>
        p \notin overlap /\ (p \in Pages(s) => \A j \in Slot \ {i} : pal_npt[j][p] = {})
  BY DEF Lends, scode_lend_section
<1>10. \A c \in CPU, x \in Ept, p \in Page :
         /\ x = 0 => reg_npt'[p] = {}
         /\ x \in Slot => pal_npt'[x][p] = {}
         => tlb'[c][x][p] = {}
  BY FillEmpty DEF Lends
<1>11. /\ \A j \in Slot \ {i} : SectionsOf(j)' = SectionsOf(j)
       /\ SectionsOf(i)' = SectionsOf(i) \cup ToSet(s)
  BY DEF Lends, SectionsOf
<1>12. \A j \in Slot : \A r \in SectionsOf(j) :
         /\ r.page \in Page /\ r.type \in AllTypes
         /\ pal_npt[j][r.page] = pal_prot_of_type(r.type)
         /\ pal_npt[j][r.page] # {}
  BY <1>1, SectionParts, Protections DEF Lends, Inductive, RightsMatch
<1>13. \A r \in SectionsOf(i) : r.page \notin Pages(s)
  BY <1>5, <1>6, <1>12
<1>14. RightsMatch'
  <2>1. \A j \in Slot : /\ Distinct(whitelist'[j].sections)
                        /\ whitelist'[j].gcr3 = NoProcess => whitelist'[j].sections = <<>>
    BY DEF Lends, Inductive, RightsMatch
  <2>2. \A j \in Slot : \A r \in SectionsOf(j)' : pal_npt'[j][r.page] = pal_prot_of_type(r.type)
    BY <1>3, <1>4, <1>6, <1>8, <1>11, <1>12, <1>13
  <2>3. \A j \in Slot, p \in Page : pal_npt[j][p] # {} => \E r \in SectionsOf(j) : r.page = p
    BY DEF Lends, Inductive, RightsMatch
  <2>4. \A j \in Slot, p \in Page : pal_npt'[j][p] # {} => \E r \in SectionsOf(j)' : r.page = p
    BY <1>6, <1>8, <1>11, <2>3
  <2> QED
    BY <2>1, <2>2, <2>4, Zenon DEF RightsMatch
<1>15. SecretsKept'
  <2>1. \A p \in Page, j \in Slot : secret[p] = j =>
          \E r \in SectionsOf(j) : r.page = p /\ r.type \in WrittenTypes
    BY DEF Lends, Inductive, SecretsKept
  <2>2. secret' = secret
    BY DEF Lends
  <2> QED
    BY <1>11, <2>1, <2>2 DEF SecretsKept
<1>16. PrivateAlone'
  <2>1. \A j \in Slot : \A r \in SectionsOf(j) :
          r.page \notin overlap /\ reg_prot_of_type(r.type) = {} =>
            /\ reg_npt[r.page] = {}
            /\ \A m \in Slot \ {j} : pal_npt[m][r.page] = {}
    BY DEF Lends, Inductive, PrivateAlone, Alone
  <2>2. \A j \in Slot : \A r \in SectionsOf(j)' :
          r.page \notin overlap' /\ reg_prot_of_type(r.type) = {} =>
            /\ reg_npt'[r.page] = {}
            /\ \A m \in Slot \ {j} : pal_npt'[m][r.page] = {}
    <3> SUFFICES ASSUME NEW j \in Slot, NEW r \in SectionsOf(j)',
                        r.page \notin overlap', reg_prot_of_type(r.type) = {}
                 PROVE  /\ reg_npt'[r.page] = {}
                        /\ \A m \in Slot \ {j} : pal_npt'[m][r.page] = {}
      OBVIOUS
    <3>1. CASE j = i /\ r \in ToSet(s)
      BY <3>1, <1>3, <1>4, <1>6, <1>7, <1>8, <1>9
    <3>2. CASE r \in SectionsOf(j)
      <4>1. r.page \in Page /\ r.page \notin overlap
        BY <3>2, <1>12, <1>9
      <4>2. reg_npt[r.page] = {} /\ \A m \in Slot \ {j} : pal_npt[m][r.page] = {}
        BY <3>2, <4>1, <2>1
      <4>3. r.page \notin Pages(s)
        BY <4>2, <1>5, <1>6, Zenon
      <4> QED
        BY <4>1, <4>2, <4>3, <1>7, <1>8
    <3> QED
      BY <3>1, <3>2, <1>11
  <2>3. \A j \in Slot : \A r \in SectionsOf(j)' : r.page \in Page
    BY <1>3, <1>11, <1>12, Zenon
  <2> QED
    BY <2>2, <2>3, <1>10, ZenonT(30) DEF PrivateAlone, Alone, Ept, Slot
<1> QED
  BY <1>14, <1>15, <1>16

-----------------------------------------------------------------------------
(* Returning, and steps that lend and return nothing *)

\* Whether or not the TLBs are flushed, what an entry that was empty holds
\* afterwards is what the EPTs allow.
LEMMA RefillAdds ==
  ASSUME TypeOK, TypeOK', Fill(tlb) \/ Fill(Empty)
  PROVE  \A c \in CPU, x \in Ept, p \in Page :
           /\ tlb[c][x][p] = {}
           /\ x = 0 => reg_npt'[p] = {}
           /\ x \in Slot => pal_npt'[x][p] = {}
           => tlb'[c][x][p] = {}
<1>1. CASE Fill(Empty)
  BY <1>1, FillEmpty, Zenon
<1>2. CASE Fill(tlb)
  <2>1. PICK t \in Tlbs : t = tlb
    BY DEF TypeOK, Tlbs
  <2>2. Fill(t)
    BY <1>2, <2>1 DEF Fill
  <2>3. root' \in [CPU -> Ept] /\ reg_npt' \in [Page -> Rights]
        /\ pal_npt' \in [Slot -> [Page -> Rights]]
    BY DEF TypeOK
  <2> QED
    BY <2>1, <2>2, <2>3, FillAdds, Zenon
<1> QED
  BY <1>1, <1>2, Zenon

\* The sections of entry i with pages in ps are returned.
Returns(i, ps) ==
  /\ Inductive /\ TypeOK'
  /\ stopped = "no" /\ stopped' \in {"no", "freed"}
  /\ scode_return_section(i, ps)
  /\ Fill(tlb) \/ Fill(Empty)
  /\ \A j \in Slot \ {i} : whitelist'[j] = whitelist[j]
  /\ whitelist'[i].gcr3 = NoProcess => whitelist'[i].sections = <<>>
  /\ Distinct(whitelist'[i].sections)
  /\ ToSet(whitelist'[i].sections) = {r \in SectionsOf(i) : r.page \notin ps}
  /\ \A p \in ps : \E r \in SectionsOf(i) : r.page = p
  /\ \A p \in Page : secret'[p] \in {0, secret[p]} /\ (p \in ps => secret'[p] # i)

\* scode_return_section preserves the invariant, with or without a flush.
LEMMA ReturnStep ==
  ASSUME NEW i \in Slot, NEW ps, Returns(i, ps)
  PROVE  RightsMatch' /\ SecretsKept' /\ PrivateAlone'
<1>1. /\ reg_npt \in [Page -> Rights] /\ pal_npt \in [Slot -> [Page -> Rights]]
      /\ \A j \in Slot : SectionsOf(j) \subseteq Section
  BY DEF Returns, Inductive, TypeOK, Entry, SectionsOf, ToSet
<1>2. \A p \in Page : p \notin ps => reg_npt'[p] = reg_npt[p]
  BY DEF Returns, scode_return_section
<1>3. \A j \in Slot, p \in Page :
        pal_npt'[j][p] = IF j = i /\ p \in ps THEN {} ELSE pal_npt[j][p]
  BY <1>1 DEF Returns, scode_return_section
<1>4. /\ \A j \in Slot \ {i} : SectionsOf(j)' = SectionsOf(j)
      /\ SectionsOf(i)' = {r \in SectionsOf(i) : r.page \notin ps}
  BY DEF Returns, SectionsOf
<1>5. \A j \in Slot : \A r \in SectionsOf(j) :
        /\ r.page \in Page /\ r.type \in AllTypes
        /\ pal_npt[j][r.page] = pal_prot_of_type(r.type)
        /\ pal_npt[j][r.page] # {}
  BY <1>1, SectionParts, Protections DEF Returns, Inductive, RightsMatch
<1>6. RightsMatch'
  <2>1. \A j \in Slot : /\ Distinct(whitelist'[j].sections)
                        /\ whitelist'[j].gcr3 = NoProcess => whitelist'[j].sections = <<>>
    BY DEF Returns, Inductive, RightsMatch
  <2>2. \A j \in Slot : \A r \in SectionsOf(j)' : pal_npt'[j][r.page] = pal_prot_of_type(r.type)
    BY <1>3, <1>4, <1>5
  <2>3. \A j \in Slot, p \in Page : pal_npt[j][p] # {} => \E r \in SectionsOf(j) : r.page = p
    BY DEF Returns, Inductive, RightsMatch
  <2>4. \A j \in Slot, p \in Page : pal_npt'[j][p] # {} => \E r \in SectionsOf(j)' : r.page = p
    BY <1>3, <1>4, <2>3
  <2> QED
    BY <2>1, <2>2, <2>4, Zenon DEF RightsMatch
<1>7. SecretsKept'
  <2>1. \A p \in Page, j \in Slot : secret[p] = j =>
          \E r \in SectionsOf(j) : r.page = p /\ r.type \in WrittenTypes
    BY DEF Returns, Inductive, SecretsKept
  <2>2. \A p \in Page : secret'[p] \in {0, secret[p]} /\ (p \in ps => secret'[p] # i)
    BY DEF Returns
  <2>3. \A p \in Page, j \in Slot : secret'[p] = j =>
          secret[p] = j /\ (j = i => p \notin ps)
    BY <2>2 DEF Slot
  <2> QED
    BY <1>4, <2>1, <2>3 DEF SecretsKept
<1>8. PrivateAlone'
  <2> SUFFICES ASSUME NEW j \in Slot, NEW r \in SectionsOf(j)',
                      r.page \notin overlap', reg_prot_of_type(r.type) = {}
               PROVE  Alone(j, r.page)'
    BY DEF PrivateAlone
  <2>1. r \in SectionsOf(j) /\ r.page \in Page /\ r.page \notin ps
    <3>1. \A p \in ps : pal_npt[i][p] # {}
      BY <1>5, ZenonT(30) DEF Returns
    <3>2. r \in SectionsOf(j) /\ r.page \in Page /\ (j = i => r.page \notin ps)
      BY <1>4, <1>5, Zenon
    <3>3. CASE j # i /\ r.page \in ps
      <4>1. PICK q \in SectionsOf(i) : q.page = r.page
        BY <3>3 DEF Returns
      <4>2. r.page \in overlap
        BY <3>1, <3>2, <3>3 DEF Returns, Inductive, PrivateAlone, Alone
      <4>3. pal_npt'[j][r.page] # {}
        BY <1>3, <1>5, <3>2, <3>3, Zenon
      <4> QED
        BY <4>2, <4>3, Zenon DEF Returns, scode_return_section
    <3> QED
      BY <3>2, <3>3, Zenon
  <2>2. r.page \notin overlap
    <3>1. pal_npt'[j][r.page] # {}
      BY <1>3, <1>5, <2>1
    <3> QED
      BY <3>1, Zenon DEF Returns, scode_return_section
  <2>3. Alone(j, r.page)
    BY <2>1, <2>2 DEF Returns, Inductive, PrivateAlone
  <2>4. reg_npt'[r.page] = {} /\ \A m \in Slot \ {j} : pal_npt'[m][r.page] = {}
    BY <1>2, <1>3, <2>1, <2>3 DEF Alone
  <2>5. \A c \in CPU, x \in Ept : /\ tlb[c][x][r.page] = {}
                                  /\ x = 0 => reg_npt'[r.page] = {}
                                  /\ x \in Slot => pal_npt'[x][r.page] = {}
                                  => tlb'[c][x][r.page] = {}
    BY <2>1, RefillAdds, Zenon DEF Returns, Inductive
  <2> QED
    BY <2>3, <2>4, <2>5, Zenon DEF Alone, Ept, Slot
<1> QED
  BY <1>6, <1>7, <1>8

\* A step that changes no rights, or takes some from the regular guest.
Quiet ==
  /\ Inductive /\ TypeOK'
  /\ stopped = "no" /\ UNCHANGED <<pal_npt, overlap, secret, stopped>>
  /\ \A p \in Page : reg_npt[p] = {} => reg_npt'[p] = {}
  /\ \A j \in Slot : /\ whitelist'[j].sections = whitelist[j].sections
                     /\ whitelist'[j].gcr3 = whitelist[j].gcr3
  /\ Fill(tlb) \/ Fill(Empty)

\* Such a step preserves the invariant.
LEMMA QuietStep ==
  ASSUME Quiet
  PROVE  RightsMatch' /\ SecretsKept' /\ PrivateAlone'
<1>1. \A j \in Slot : SectionsOf(j)' = SectionsOf(j)
  BY Zenon DEF Quiet, SectionsOf
<1>2. RightsMatch'
  BY <1>1 DEF Quiet, Inductive, RightsMatch
<1>3. SecretsKept'
  BY <1>1 DEF Quiet, Inductive, SecretsKept
<1>4. \A j \in Slot : \A r \in SectionsOf(j) : r.page \in Page
  BY SectionParts DEF Quiet, Inductive, TypeOK, Entry, SectionsOf, ToSet
<1>5. ASSUME NEW j \in Slot, NEW p \in Page, Alone(j, p)
      PROVE  Alone(j, p)'
  <2>1. reg_npt'[p] = {} /\ \A m \in Slot \ {j} : pal_npt'[m][p] = {}
    BY <1>5, Zenon DEF Alone, Quiet
  <2>2. \A c \in CPU, x \in Ept : /\ tlb[c][x][p] = {}
                                  /\ x = 0 => reg_npt'[p] = {}
                                  /\ x \in Slot => pal_npt'[x][p] = {}
                                  => tlb'[c][x][p] = {}
    BY RefillAdds, Zenon DEF Quiet, Inductive
  <2> QED
    BY <1>5, <2>1, <2>2, Zenon DEF Alone, Ept, Slot
<1>6. PrivateAlone'
  BY <1>1, <1>4, <1>5, Zenon DEF Quiet, Inductive, PrivateAlone
<1> QED
  BY <1>2, <1>3, <1>6, Zenon

-----------------------------------------------------------------------------
(* Types *)

\* scode_lend_section keeps the types of the EPTs.
LEMMA LendTypes ==
  ASSUME TypeOK, NEW i \in Slot, NEW s \in Seq(Section), scode_lend_section(i, s)
  PROVE  /\ reg_npt' \in [Page -> Rights]
         /\ pal_npt' \in [Slot -> [Page -> Rights]]
         /\ overlap' \subseteq Page
<1>1. \A p \in Pages(s) : p \in Page /\ TypeOf(s, p) \in AllTypes
  BY SectionParts DEF Pages, TypeOf, ToSet
<1>2. \A p \in Pages(s) : /\ reg_prot_of_type(TypeOf(s, p)) \in Rights
                          /\ pal_prot_of_type(TypeOf(s, p)) \in Rights
  BY <1>1, Protections, Zenon
<1>3. RegAfterLend(s) \in [Page -> Rights]
  BY <1>2 DEF RegAfterLend, TypeOK
<1> QED
  BY <1>1, <1>2, <1>3, Zenon DEF scode_lend_section, TypeOK

\* scode_return_section keeps the types of the EPTs.
LEMMA ReturnTypes ==
  ASSUME TypeOK, NEW i \in Slot, NEW ps, scode_return_section(i, ps)
  PROVE  /\ reg_npt' \in [Page -> Rights]
         /\ pal_npt' \in [Slot -> [Page -> Rights]]
         /\ overlap' \subseteq Page
BY DEF scode_return_section, TypeOK, Rights

\* The TLBs keep their type.
LEMMA FillTypes ==
  ASSUME TypeOK, Fill(tlb) \/ Fill(Empty), root' \in [CPU -> Ept],
         reg_npt' \in [Page -> Rights], pal_npt' \in [Slot -> [Page -> Rights]]
  PROVE  tlb' \in [CPU -> [Ept -> [Page -> Rights]]]
<1>1. CASE Fill(Empty)
  <2>1. Empty \in Tlbs
    BY DEF Empty, NONE, Tlbs, Rights
  <2> QED
    BY <1>1, <2>1, FillAdds, Zenon DEF Tlbs
<1>2. CASE Fill(tlb)
  <2>1. PICK t \in Tlbs : t = tlb
    BY DEF TypeOK, Tlbs
  <2>2. Fill(t)
    BY <1>2, <2>1 DEF Fill
  <2> QED
    BY <2>1, <2>2, FillAdds, Zenon DEF Tlbs
<1> QED
  BY <1>1, <1>2, Zenon

\* A new sequence of sections for entry i.
LEMMA EntryTypes ==
  ASSUME TypeOK, NEW i \in Slot, NEW e \in Entry, Len(e.sections) <= TV_MAX_SECTIONS,
         whitelist' = [whitelist EXCEPT ![i] = e]
  PROVE  /\ whitelist' \in [Slot -> Entry]
         /\ \A j \in Slot : Len(whitelist'[j].sections) <= TV_MAX_SECTIONS
         /\ whitelist'[i] = e
         /\ \A j \in Slot \ {i} : whitelist'[j] = whitelist[j]
BY DEF TypeOK

\* The parts of the invariant, after a step that does not shut down.
LEMMA Combine ==
  ASSUME TypeOK', RightsMatch' /\ SecretsKept' /\ PrivateAlone', stopped' # "down"
  PROVE  Inductive'
BY DEF Inductive

\* A handler that halts or spins leaves everything as it is.
LEMMA StopStep ==
  ASSUME Inductive, stopped = "no", NEW why \in {"halt", "spin"}, Stop(why)
  PROVE  Inductive'
<1>1. UNCHANGED <<whitelist, reg_npt, pal_npt, scode_curr, root, nmi_block, tlb, secret,
                  overlap>> /\ stopped' \in {"halt", "spin"}
  BY DEF Stop, nptvars, cpuvars
<1>2. \A j \in Slot : SectionsOf(j)' = SectionsOf(j)
  BY <1>1 DEF SectionsOf
<1>3. TypeOK'
  BY <1>1, Zenon DEF Inductive, TypeOK
<1>4. RightsMatch'
  BY <1>1, <1>2, Zenon DEF Inductive, RightsMatch
<1>5. SecretsKept'
  BY <1>1, <1>2 DEF Inductive, SecretsKept
<1>6. PrivateAlone'
  BY <1>1, <1>2, Zenon DEF Inductive, PrivateAlone, Alone
<1> QED
  BY <1>1, <1>3, <1>4, <1>5, <1>6, Combine, Zenon

-----------------------------------------------------------------------------
(* The hypercalls *)

\* scode_register lends the sections to the first free entry, or halts.
LEMMA RegisterStep ==
  ASSUME Inductive, stopped = "no", NEW c \in CPU, NEW g \in Process, Register(c, g)
  PROVE  Inductive'
<1> DEFINE free == {i \in Slot : whitelist[i].gcr3 = NoProcess}
           entry(s) == [gcr3 |-> g, entry |-> Head(s).page, info |-> Pages(s),
                        sections |-> s, running |-> NoCpu]
<1>1. PICK s \in UNION {[1 .. n -> Section] : n \in 1 .. MaxRegister} :
        /\ free # {}
        /\ IF LendOK(Min(free), s)
           THEN /\ scode_lend_section(Min(free), s)
                /\ whitelist' = [whitelist EXCEPT ![Min(free)] = entry(s)]
                /\ UNCHANGED <<cpuvars, secret, stopped>>
                /\ Fill(flushmappings_alltlb(tlb, c))
           ELSE Stop("halt")
  BY Zenon DEF Register
<1>2. PICK n \in 1 .. MaxRegister : s \in [1 .. n -> Section]
  OBVIOUS
<1>3. s \in Seq(Section) /\ Len(s) = n /\ n \in Nat /\ n >= 1 /\ n <= TV_MAX_SECTIONS
  BY <1>2, SectionsAssumption
<1>4. PICK i \in Slot : i = Min(free) /\ whitelist[i].gcr3 = NoProcess
  <2>1. PICK F : F = free
    BY Zenon
  <2>2. F \subseteq Nat /\ F # {}
    BY <1>1, <2>1 DEF Slot
  <2>3. Min(F) \in F
    BY <2>2, MinIsLeast, Zenon
  <2> QED
    BY <2>1, <2>3, Zenon
<1>5. CASE ~LendOK(i, s)
  <2>1. Stop("halt")
    BY <1>1, <1>4, <1>5, Zenon
  <2> QED
    BY <2>1, StopStep, Zenon
<1>6. CASE LendOK(i, s)
  <2>1. /\ scode_lend_section(i, s)
        /\ whitelist' = [whitelist EXCEPT ![i] = entry(s)]
        /\ UNCHANGED <<cpuvars, secret, stopped>>
        /\ Fill(flushmappings_alltlb(tlb, c))
    BY <1>1, <1>4, <1>6, Zenon
  <2>2. Fill(Empty)
    BY <2>1, Zenon DEF flushmappings_alltlb, Empty
  <2>3. entry(s) \in Entry /\ entry(s).sections = s /\ entry(s).gcr3 = g
    <3>1. Head(s) \in Section /\ Pages(s) \subseteq Page
      BY <1>3, SectionParts DEF Pages, ToSet
    <3> QED
      BY <1>3, <3>1, SectionParts, Zenon DEF Entry
  <2> HIDE DEF entry
  <2>4. TypeOK
    BY Zenon DEF Inductive
  <2>5. /\ whitelist' \in [Slot -> Entry]
        /\ \A j \in Slot : Len(whitelist'[j].sections) <= TV_MAX_SECTIONS
        /\ whitelist'[i] = entry(s)
        /\ \A j \in Slot \ {i} : whitelist'[j] = whitelist[j]
    BY <1>3, <2>1, <2>3, <2>4, EntryTypes, Zenon
  <2>6. /\ reg_npt' \in [Page -> Rights] /\ pal_npt' \in [Slot -> [Page -> Rights]]
        /\ overlap' \subseteq Page
    BY <1>3, <2>1, <2>4, LendTypes
  <2>7. tlb' \in [CPU -> [Ept -> [Page -> Rights]]]
    <3>1. root' \in [CPU -> Ept]
      BY <2>1, <2>4, Zenon DEF TypeOK, cpuvars
    <3> QED
      BY <2>2, <2>4, <2>6, <3>1, FillTypes, Zenon
  <2>8. TypeOK'
    BY <2>1, <2>4, <2>5, <2>6, <2>7, Zenon DEF TypeOK, cpuvars
  <2>9. Lends(i, s)
    <3>1. Distinct(whitelist'[i].sections) /\ whitelist'[i].gcr3 # NoProcess
      BY <1>3, <1>6, <2>3, <2>5, NoneAssumption DEF LendOK, IsInjective, Distinct
    <3>2. ToSet(whitelist'[i].sections) = ToSet(whitelist[i].sections) \cup ToSet(s)
      <4>1. whitelist[i].sections = <<>>
        BY <1>4, Zenon DEF Inductive, RightsMatch
      <4> QED
        BY <2>3, <2>5, <4>1 DEF ToSet
    <3> QED
      BY <1>6, <2>1, <2>2, <2>5, <2>8, <3>1, <3>2, Zenon DEF Lends
  <2> QED
    BY <1>3, <2>1, <2>8, <2>9, LendStep, Combine, Zenon
<1> QED
  BY <1>5, <1>6, Zenon

\* scode_register fails after it has lent sections: only the regular guest
\* loses rights.
LEMMA RegisterErrorStep ==
  ASSUME Inductive, stopped = "no", NEW c \in CPU, NEW g \in Process, RegisterError(c, g)
  PROVE  Inductive'
<1>1. PICK r \in Section, i \in Slot :
        /\ LendOK(i, <<r>>)
        /\ reg_npt' = RegAfterLend(<<r>>)
        /\ UNCHANGED <<whitelist, pal_npt, cpuvars, secret, overlap, stopped>>
        /\ Fill(flushmappings_alltlb(tlb, c))
  BY DEF RegisterError
<1>2. TypeOK
  BY DEF Inductive
<1>3. r.page \in Page /\ r.type \in AllTypes
  BY SectionParts
<1>4. /\ ToSet(<<r>>) = {r}
      /\ Pages(<<r>>) = {r.page}
      /\ TypeOf(<<r>>, r.page) = r.type
  <2>1. ToSet(<<r>>) = {r}
    BY DEF ToSet
  <2> QED
    BY <2>1 DEF Pages, TypeOf
<1>5. reg_npt[r.page] # {}
  BY <1>1, <1>3, <1>4, Protections, Zenon DEF LendOK
<1>6. reg_npt' = [p \in Page |-> IF p = r.page THEN reg_prot_of_type(r.type) ELSE reg_npt[p]]
  BY <1>1, <1>4, Zenon DEF RegAfterLend
<1>7. reg_npt' \in [Page -> Rights]
  BY <1>2, <1>3, <1>6, Protections, Zenon DEF TypeOK
<1>8. Fill(Empty)
  BY <1>1 DEF flushmappings_alltlb, Empty
<1>9. tlb' \in [CPU -> [Ept -> [Page -> Rights]]]
  <2>1. root' \in [CPU -> Ept] /\ pal_npt' \in [Slot -> [Page -> Rights]]
    BY <1>1, <1>2, Zenon DEF TypeOK, cpuvars
  <2> QED
    BY <1>2, <1>7, <1>8, <2>1, FillTypes, Zenon
<1>10. TypeOK'
  BY <1>1, <1>2, <1>7, <1>9, Zenon DEF TypeOK, cpuvars
<1>11. Quiet
  BY <1>1, <1>5, <1>6, <1>8, <1>10 DEF Quiet
<1> QED
  BY <1>1, <1>10, <1>11, QuietStep, Combine, Zenon

\* A cleared entry has no sections and no process, and its lock is as it was.
LEMMA ClearedEntry ==
  ASSUME TypeOK, NEW i \in Slot
  PROVE  /\ Cleared(i) \in Entry /\ Cleared(i).sections = <<>>
         /\ Cleared(i).gcr3 = NoProcess /\ Cleared(i).running = whitelist[i].running
         /\ Len(Cleared(i).sections) <= TV_MAX_SECTIONS
<1>1. whitelist[i].running \in CPU \cup {NoCpu}
  BY DEF TypeOK, Entry
<1> QED
  BY <1>1, SectionsAssumption DEF Cleared, Unused, Entry

\* scode_unregister zeroes what was private before it returns the sections.
LEMMA UnregisterStep ==
  ASSUME Inductive, stopped = "no", NEW c \in CPU, NEW g \in Process, scode_unregister(c, g)
  PROVE  Inductive'
<1>1. PICK i \in Slot :
        /\ Zero(ToZero(i))
        /\ scode_return_section(i, Pages(whitelist[i].sections))
        /\ whitelist' = [whitelist EXCEPT ![i] = Cleared(i)]
        /\ stopped' \in {"no", "freed"} /\ UNCHANGED cpuvars
        /\ Fill(flushmappings_alltlb(tlb, c))
  BY Zenon DEF scode_unregister
<1>2. TypeOK
  BY DEF Inductive
<1>3. PICK ps : ps = Pages(whitelist[i].sections)
  OBVIOUS
<1>4. scode_return_section(i, ps)
  BY <1>1, <1>3 DEF scode_return_section
<1>5. Fill(Empty)
  BY <1>1 DEF flushmappings_alltlb, Empty
<1>6. Cleared(i) \in Entry /\ Cleared(i).sections = <<>>
      /\ Len(Cleared(i).sections) <= TV_MAX_SECTIONS
  BY <1>2, ClearedEntry, Zenon
<1>7. /\ whitelist' \in [Slot -> Entry]
      /\ \A j \in Slot : Len(whitelist'[j].sections) <= TV_MAX_SECTIONS
      /\ whitelist'[i] = Cleared(i)
      /\ \A j \in Slot \ {i} : whitelist'[j] = whitelist[j]
  BY <1>1, <1>2, <1>6, EntryTypes, Zenon
<1>8. /\ reg_npt' \in [Page -> Rights] /\ pal_npt' \in [Slot -> [Page -> Rights]]
      /\ overlap' \subseteq Page
  BY <1>2, <1>4, ReturnTypes
<1>9. secret' \in [Page -> Ept] /\ \A p \in Page : secret'[p] \in {0, secret[p]}
  BY <1>1, <1>2, NSlotsAssumption DEF Zero, TypeOK, Ept
<1>10. TypeOK'
  <2>1. root' \in [CPU -> Ept]
    BY <1>1, <1>2, Zenon DEF TypeOK, cpuvars
  <2>2. tlb' \in [CPU -> [Ept -> [Page -> Rights]]]
    BY <1>2, <1>5, <1>8, <2>1, FillTypes, Zenon
  <2> QED
    BY <1>1, <1>2, <1>7, <1>8, <1>9, <2>2, Zenon DEF TypeOK, cpuvars
<1>11. \A p : p \in ps <=> \E r \in SectionsOf(i) : r.page = p
  BY <1>3 DEF Pages, SectionsOf
<1>12. \A p \in Page : p \in ps => secret'[p] # i
  <2> SUFFICES ASSUME NEW p \in Page, secret'[p] = i PROVE FALSE
    OBVIOUS
  <2>1. secret[p] = i
    BY <1>9 DEF Slot
  <2>2. PICK r \in SectionsOf(i) : r.page = p /\ r.type \in WrittenTypes
    BY <2>1, Zenon DEF Inductive, SecretsKept
  <2>3. /\ "W" \in pal_prot_of_type(r.type) /\ "R" \notin reg_prot_of_type(r.type)
    BY <2>2, Protections, Zenon DEF WrittenTypes, AllTypes
  <2>4. p \in ToZero(i)
    BY <2>2, <2>3, Zenon DEF ToZero, SectionsOf
  <2>5. secret'[p] = 0
    BY <1>1, <2>4, Zenon DEF Zero
  <2> QED
    BY <2>5 DEF Slot
<1>13. Returns(i, ps)
  <2>1. ToSet(whitelist'[i].sections) = {r \in SectionsOf(i) : r.page \notin ps}
    BY <1>6, <1>7, <1>11 DEF ToSet
  <2>2. Distinct(whitelist'[i].sections)
    BY <1>6, <1>7 DEF Distinct
  <2> QED
    BY <1>1, <1>4, <1>5, <1>6, <1>7, <1>9, <1>10, <1>11, <1>12, <2>1, <2>2, Zenon DEF Returns
<1> QED
  BY <1>1, <1>10, <1>13, ReturnStep, Combine

\* Returning from a PAL, or sharing one page too many: the sections that were
\* shared last go back, and no private data is in them.
LEMMA ReleaseStep ==
  ASSUME Inductive, stopped = "no", UNCHANGED <<secret, stopped>>,
         NEW i \in Slot, NEW d \in CPU \cup {NoCpu},
         scode_release_all_shared_pages(i, d),
         scode_curr' \in [CPU -> Ept], root' \in [CPU -> Ept], nmi_block' \in [CPU -> BOOLEAN]
  PROVE  Inductive'
<1>1. TypeOK
  BY Zenon DEF Inductive
<1>2. PICK s \in Seq(Section) : s = whitelist[i].sections
  BY <1>1, Zenon DEF TypeOK, Entry
<1>3. PICK n \in 0 .. Len(s) :
        /\ n = Kept(s)
        /\ \A k \in n + 1 .. Len(s) : s[k].type = "SHARED"
  BY KeptProperties, Zenon
<1>4. PICK ps : ps = Pages(SubSeq(s, n + 1, Len(s)))
  OBVIOUS
<1>5. /\ scode_return_section(i, ps)
      /\ whitelist' = [whitelist EXCEPT ![i].sections = SubSeq(@, 1, n), ![i].running = d]
      /\ Fill(tlb)
  <2>1. /\ scode_return_section(i, Pages(SubSeq(s, n + 1, Len(s))))
        /\ whitelist' = [whitelist EXCEPT ![i].sections = SubSeq(@, 1, n), ![i].running = d]
        /\ Fill(tlb)
    BY <1>2, <1>3, Zenon DEF scode_release_all_shared_pages, scode_return_section
  <2> QED
    BY <1>4, <2>1, Zenon DEF scode_return_section
<1> DEFINE e == [whitelist[i] EXCEPT !.sections = SubSeq(s, 1, n), !.running = d]
<1>6. /\ SubSeq(s, 1, n) \in Seq(Section) /\ Len(SubSeq(s, 1, n)) = n
      /\ \A k \in 1 .. n : SubSeq(s, 1, n)[k] = s[k]
  BY PrefixSections, Zenon
<1>7. e \in Entry /\ e.sections = SubSeq(s, 1, n) /\ e.gcr3 = whitelist[i].gcr3
  BY <1>1, <1>6, ZenonT(30) DEF TypeOK, Entry
<1>8. Len(e.sections) <= TV_MAX_SECTIONS
  BY <1>1, <1>2, <1>6, <1>7, SectionsAssumption DEF TypeOK
<1>9. whitelist' = [whitelist EXCEPT ![i] = e]
  BY <1>1, <1>2, <1>5, Zenon DEF TypeOK, Entry
<1> HIDE DEF e
<1>10. /\ whitelist' \in [Slot -> Entry]
       /\ \A j \in Slot : Len(whitelist'[j].sections) <= TV_MAX_SECTIONS
       /\ whitelist'[i] = e
       /\ \A j \in Slot \ {i} : whitelist'[j] = whitelist[j]
  <2>1. PICK f \in Entry : f = e
    BY <1>7
  <2> QED
    BY <1>1, <1>8, <1>9, <2>1, EntryTypes, Zenon
<1>11. /\ reg_npt' \in [Page -> Rights] /\ pal_npt' \in [Slot -> [Page -> Rights]]
       /\ overlap' \subseteq Page
  BY <1>1, <1>5, ReturnTypes
<1>12. tlb' \in [CPU -> [Ept -> [Page -> Rights]]]
  BY <1>1, <1>5, <1>11, FillTypes, Zenon
<1>13. TypeOK'
  BY <1>1, <1>10, <1>11, <1>12, Zenon DEF TypeOK
<1>14. Distinct(s)
  BY <1>2, Zenon DEF Inductive, RightsMatch
<1>15. \A p : p \in ps <=> \E k \in n + 1 .. Len(s) : s[k].page = p
  BY <1>4, SuffixPages, Zenon
<1>16. ToSet(whitelist'[i].sections) = {r \in SectionsOf(i) : r.page \notin ps}
  <2>1. \A r : r \in ToSet(whitelist'[i].sections) <=> \E k \in 1 .. n : r = s[k]
    <3>1. \A r : r \in ToSet(SubSeq(s, 1, n)) <=> \E k \in 1 .. n : r = s[k]
      BY PrefixSections, Zenon
    <3>2. whitelist'[i].sections = SubSeq(s, 1, n)
      BY <1>7, <1>10, Zenon
    <3> QED
      BY <3>1, <3>2, Zenon
  <2>2. \A r : r \in SectionsOf(i) <=> \E k \in 1 .. Len(s) : r = s[k]
    BY <1>2, InToSet, Zenon DEF SectionsOf
  <2>3. \A k \in 1 .. Len(s) : s[k].page \in ps <=> k > n
    BY <1>14, <1>15 DEF Distinct
  <2>4. \A r : r \in ToSet(whitelist'[i].sections) <=> r \in SectionsOf(i) /\ r.page \notin ps
    BY <2>1, <2>2, <2>3
  <2> QED
    BY <2>4
<1>17. \A p \in ps : \E r \in SectionsOf(i) : r.page = p
  BY <1>2, <1>15 DEF SectionsOf, ToSet
<1>18. \A p \in Page : p \in ps => secret'[p] # i
  <2> SUFFICES ASSUME NEW p \in Page, p \in ps, secret[p] = i PROVE FALSE
    BY Zenon
  <2>1. PICK k \in n + 1 .. Len(s) : s[k].page = p
    BY <1>15, Zenon
  <2>2. s[k].type = "SHARED"
    BY <1>3, Zenon
  <2>3. PICK r \in ToSet(s) : r.page = p /\ r.type \in WrittenTypes
    BY <1>2, Zenon DEF Inductive, SecretsKept, SectionsOf
  <2>4. s[k] \in ToSet(s)
    BY <2>1 DEF ToSet
  <2> QED
    BY <2>1, <2>2, <2>3, <2>4, <1>14, DistinctSections, Zenon DEF WrittenTypes
<1>19. Distinct(whitelist'[i].sections)
  BY <1>6, <1>7, <1>10, <1>14 DEF Distinct
<1>20. whitelist'[i].gcr3 = NoProcess => whitelist'[i].sections = <<>>
  <2> SUFFICES ASSUME whitelist[i].gcr3 = NoProcess PROVE SubSeq(s, 1, n) = <<>>
    BY <1>7, <1>10, Zenon
  <2>1. s = <<>>
    BY <1>2 DEF Inductive, RightsMatch
  <2> QED
    BY <1>6, <2>1
<1>21. Returns(i, ps)
  BY <1>5, <1>10, <1>13, <1>16, <1>17, <1>18, <1>19, <1>20 DEF Returns
<1> QED
  BY <1>13, <1>21, ReturnStep, Combine, Zenon

\* One page more for the PAL of entry i.
LEMMA ShareLendStep ==
  ASSUME Inductive, stopped = "no", NEW i \in Slot, NEW c \in CPU, NEW new \in Section,
         ShareLimit(whitelist[i].sections), whitelist[i].gcr3 # NoProcess,
         LendOK(i, <<new>>), scode_lend_section(i, <<new>>),
         whitelist' = [whitelist EXCEPT ![i].sections = Append(@, new)],
         UNCHANGED <<cpuvars, secret, stopped>>,
         Fill(flushmappings_alltlb(tlb, c))
  PROVE  Inductive'
<1>1. TypeOK
  BY DEF Inductive
<1>2. PICK s \in Seq(Section) : s = whitelist[i].sections
  BY <1>1 DEF TypeOK, Entry
<1> DEFINE e == [whitelist[i] EXCEPT !.sections = Append(s, new)]
<1>3. Append(s, new) \in Seq(Section) /\ Len(Append(s, new)) = Len(s) + 1
  BY AppendSections, Zenon
<1>4. e \in Entry /\ e.sections = Append(s, new) /\ e.gcr3 = whitelist[i].gcr3
  BY <1>1, <1>3, Zenon DEF TypeOK, Entry
<1>5. Len(e.sections) <= TV_MAX_SECTIONS
  BY <1>2, <1>3, <1>4, SectionsAssumption DEF ShareLimit
<1>6. whitelist' = [whitelist EXCEPT ![i] = e]
  BY <1>1, <1>2 DEF TypeOK, Entry
<1> HIDE DEF e
<1>7. /\ whitelist' \in [Slot -> Entry]
      /\ \A j \in Slot : Len(whitelist'[j].sections) <= TV_MAX_SECTIONS
      /\ whitelist'[i] = e
      /\ \A j \in Slot \ {i} : whitelist'[j] = whitelist[j]
  <2>1. PICK f \in Entry : f = e
    BY <1>4
  <2> QED
    BY <1>1, <1>5, <1>6, <2>1, EntryTypes, Zenon
<1>8. PICK one \in Seq(Section) : one = <<new>> /\ ToSet(one) = {new}
  BY SingleSection, Zenon
<1>9. LendOK(i, one) /\ scode_lend_section(i, one)
  BY <1>8
<1>10. /\ reg_npt' \in [Page -> Rights] /\ pal_npt' \in [Slot -> [Page -> Rights]]
       /\ overlap' \subseteq Page
  BY <1>1, <1>9, LendTypes
<1>11. Fill(Empty)
  BY DEF flushmappings_alltlb, Empty
<1>12. TypeOK'
  <2>1. root' \in [CPU -> Ept]
    BY <1>1 DEF TypeOK, cpuvars
  <2>2. tlb' \in [CPU -> [Ept -> [Page -> Rights]]]
    BY <1>1, <1>10, <1>11, <2>1, FillTypes, Zenon
  <2> QED
    BY <1>1, <1>7, <1>10, <2>2, Zenon DEF TypeOK, cpuvars
<1>13. new.page \in Page /\ pal_npt[i][new.page] = {}
  BY <1>8, <1>9, SectionParts, Zenon DEF LendOK
<1>14. \A r \in ToSet(s) : r.page # new.page
  <2>1. \A r \in ToSet(s) : r \in Section
    BY InToSet
  <2>2. \A r \in ToSet(s) : pal_npt[i][r.page] = pal_prot_of_type(r.type)
    BY <1>2 DEF Inductive, RightsMatch, SectionsOf
  <2> QED
    BY <1>13, <2>1, <2>2, SectionParts, Protections
<1>15. \A k \in 1 .. Len(s) : s[k].page # new.page
  BY <1>14, InToSet, Zenon
<1>16. Distinct(whitelist'[i].sections)
  <2>1. Distinct(s)
    BY <1>2 DEF Inductive, RightsMatch
  <2>2. PICK q \in Seq(Section) : q = Append(s, new)
    BY <1>3, Zenon
  <2>3. Len(q) = Len(s) + 1
        /\ \A k \in 1 .. Len(s) + 1 : q[k] = IF k = Len(s) + 1 THEN new ELSE s[k]
    BY <2>2, AppendSections
  <2>4. Distinct(q)
    BY <1>15, <2>1, <2>3, SMTT(20) DEF Distinct
  <2> QED
    BY <1>4, <1>7, <2>2, <2>4, Zenon
<1>17. ToSet(whitelist'[i].sections) = ToSet(whitelist[i].sections) \cup ToSet(one)
  BY <1>2, <1>4, <1>7, <1>8, AppendSections
<1>18. Lends(i, one)
  BY <1>4, <1>7, <1>9, <1>11, <1>12, <1>16, <1>17, Zenon DEF Lends
<1> QED
  BY <1>12, <1>18, LendStep, Combine, Zenon

\* scode_share lends one page, gives all shared pages back, or halts.
LEMMA ShareStep ==
  ASSUME Inductive, stopped = "no", NEW c \in CPU, NEW g \in Process, scode_share_ranges(c, g)
  PROVE  Inductive'
<1>1. PICK i \in Slot, p \in Page :
        LET new == [page |-> p, type |-> "SHARED"] IN
        /\ whitelist[i].gcr3 = g
        /\ \/ /\ UNCHANGED <<cpuvars, secret, stopped>>
              /\ scode_release_all_shared_pages(i, whitelist[i].running)
           \/ /\ ShareLimit(whitelist[i].sections)
              /\ LendOK(i, <<new>>)
              /\ scode_lend_section(i, <<new>>)
              /\ whitelist' = [whitelist EXCEPT ![i].sections = Append(@, new)]
              /\ UNCHANGED <<cpuvars, secret, stopped>>
              /\ Fill(flushmappings_alltlb(tlb, c))
           \/ Stop("halt")
  BY DEF scode_share_ranges
<1>2. PICK new \in Section : new = [page |-> p, type |-> "SHARED"]
  BY Zenon DEF Section
<1>3. CASE Stop("halt")
  BY <1>3, StopStep
<1>4. CASE /\ UNCHANGED <<cpuvars, secret, stopped>>
           /\ scode_release_all_shared_pages(i, whitelist[i].running)
  <2>1. PICK d \in CPU \cup {NoCpu} : d = whitelist[i].running
    BY DEF Inductive, TypeOK, Entry
  <2>2. scode_release_all_shared_pages(i, d)
    BY <1>4, <2>1, Zenon DEF scode_release_all_shared_pages
  <2>3. scode_curr' \in [CPU -> Ept] /\ root' \in [CPU -> Ept] /\ nmi_block' \in [CPU -> BOOLEAN]
    BY <1>4, Zenon DEF Inductive, TypeOK, cpuvars
  <2> QED
    BY <1>4, <2>2, <2>3, ReleaseStep
<1>5. CASE /\ ShareLimit(whitelist[i].sections)
           /\ LendOK(i, <<new>>)
           /\ scode_lend_section(i, <<new>>)
           /\ whitelist' = [whitelist EXCEPT ![i].sections = Append(@, new)]
           /\ UNCHANGED <<cpuvars, secret, stopped>>
           /\ Fill(flushmappings_alltlb(tlb, c))
  <2>1. whitelist[i].gcr3 # NoProcess
    BY <1>1, NoneAssumption
  <2> QED
    BY <1>5, <2>1, ShareLendStep, Zenon
<1> QED
  BY <1>1, <1>2, <1>3, <1>4, <1>5, Zenon

-----------------------------------------------------------------------------
(* The EPT violations, the writes of a PAL and the shutdown *)

\* hpt_scode_switch_scode changes no rights.
LEMMA EnterStep ==
  ASSUME Inductive, stopped = "no", NEW c \in CPU, NEW i \in Slot,
         hpt_scode_switch_scode(c, i)
  PROVE  Inductive'
<1>1. TypeOK
  BY DEF Inductive
<1>2. /\ whitelist' = [whitelist EXCEPT ![i].running = c]
      /\ scode_curr' = [scode_curr EXCEPT ![c] = i]
      /\ root' = [root EXCEPT ![c] = i]
      /\ nmi_block' = [nmi_block EXCEPT ![c] = TRUE]
      /\ UNCHANGED <<reg_npt, pal_npt, secret, overlap, stopped>>
      /\ Fill(tlb)
  BY DEF hpt_scode_switch_scode, nptvars
<1>3. i \in Ept
  BY DEF Slot, Ept
<1>4. /\ scode_curr' \in [CPU -> Ept] /\ root' \in [CPU -> Ept]
      /\ nmi_block' \in [CPU -> BOOLEAN]
  BY <1>1, <1>2, <1>3, Zenon DEF TypeOK
<1>5. /\ whitelist' \in [Slot -> Entry]
      /\ \A j \in Slot : /\ whitelist'[j].sections = whitelist[j].sections
                         /\ whitelist'[j].gcr3 = whitelist[j].gcr3
  BY <1>1, <1>2, ZenonT(30) DEF TypeOK, Entry
<1>6. reg_npt' \in [Page -> Rights] /\ pal_npt' \in [Slot -> [Page -> Rights]]
  BY <1>1, <1>2 DEF TypeOK
<1>7. tlb' \in [CPU -> [Ept -> [Page -> Rights]]]
  BY <1>1, <1>2, <1>4, <1>6, FillTypes
<1>8. TypeOK'
  BY <1>1, <1>2, <1>4, <1>5, <1>6, <1>7 DEF TypeOK
<1>9. Quiet
  BY <1>2, <1>5, <1>8 DEF Quiet
<1> QED
  BY <1>2, <1>8, <1>9, QuietStep, Combine

\* scode_in_list finds an entry or returns -1.
LEMMA InListSlot ==
  ASSUME NEW g, NEW p, scode_in_list(g, p) # 0
  PROVE  /\ scode_in_list(g, p) \in Slot
         /\ whitelist[scode_in_list(g, p)].gcr3 = g
<1> DEFINE found == {i \in Slot : whitelist[i].gcr3 = g /\ p \in whitelist[i].info}
<1>1. found # {} /\ scode_in_list(g, p) = Min(found)
  BY DEF scode_in_list
<1>2. PICK F : F = found
  BY Zenon
<1>3. F \subseteq Nat /\ F # {}
  BY <1>1, <1>2 DEF Slot
<1>4. Min(F) \in F
  BY <1>3, MinIsLeast, Zenon
<1> QED
  BY <1>1, <1>2, <1>4

\* A call into a PAL.
LEMMA NpfEnterStep ==
  ASSUME Inductive, stopped = "no", NEW c \in CPU, NEW g \in Process, NEW p \in Page,
         NpfEnter(c, g, p)
  PROVE  Inductive'
<1>1. \/ Stop("halt") \/ Stop("spin")
      \/ scode_in_list(g, p) # 0 /\ hpt_scode_switch_scode(c, scode_in_list(g, p))
  BY DEF NpfEnter
<1>2. CASE Stop("halt") \/ Stop("spin")
  BY <1>2, StopStep, Zenon
<1>3. CASE scode_in_list(g, p) # 0 /\ hpt_scode_switch_scode(c, scode_in_list(g, p))
  <2>1. PICK i \in Slot : i = scode_in_list(g, p)
    BY <1>3, InListSlot, Zenon
  <2>2. hpt_scode_switch_scode(c, i)
    BY <1>3, <2>1, Zenon DEF hpt_scode_switch_scode
  <2> QED
    BY <2>2, EnterStep, Zenon
<1> QED
  BY <1>1, <1>2, <1>3

\* The return from a PAL.
LEMMA NpfReturnStep ==
  ASSUME Inductive, stopped = "no", NEW c \in CPU, NpfReturn(c)
  PROVE  Inductive'
<1>1. CASE Stop("halt") \/ Stop("spin")
  BY <1>1, StopStep, Zenon
<1>2. CASE scode_curr[c] # 0 /\ hpt_scode_switch_regular(c, scode_curr[c])
  <2>1. PICK i \in Slot : i = scode_curr[c]
    BY <1>2 DEF Inductive, TypeOK, Ept, Slot
  <2>2. /\ scode_curr' = [scode_curr EXCEPT ![c] = 0]
        /\ root' = [root EXCEPT ![c] = 0]
        /\ nmi_block' = [nmi_block EXCEPT ![c] = FALSE]
        /\ UNCHANGED <<secret, stopped>>
        /\ scode_release_all_shared_pages(i, NoCpu)
    BY <1>2, <2>1, Zenon DEF hpt_scode_switch_regular, scode_release_all_shared_pages,
                      scode_return_section
  <2>3. 0 \in Ept
    BY NSlotsAssumption DEF Ept
  <2>4. /\ scode_curr' \in [CPU -> Ept] /\ root' \in [CPU -> Ept]
        /\ nmi_block' \in [CPU -> BOOLEAN]
    BY <2>2, <2>3, Zenon DEF Inductive, TypeOK
  <2> QED
    BY <2>2, <2>4, ReleaseStep, Zenon
<1> QED
  BY <1>1, <1>2, Zenon DEF NpfReturn

\* A PAL leaves private data only in sections it has to itself.
LEMMA WriteStep ==
  ASSUME Inductive, stopped = "no", NEW c \in CPU, NEW p \in Page, PalWrites(c, p)
  PROVE  Inductive'
<1>1. UNCHANGED <<whitelist, reg_npt, pal_npt, scode_curr, root, nmi_block, tlb, overlap,
                  stopped>>
  BY Zenon DEF PalWrites, nptvars, cpuvars
<1>2. PICK i \in Slot : i = root[c]
  BY DEF PalWrites, Inductive, TypeOK, Ept, Slot
<1>3. secret' = [secret EXCEPT ![p] = i]
  BY <1>2, Zenon DEF PalWrites
<1>4. TypeOK'
  <2>1. i \in Ept
    BY DEF Slot, Ept
  <2>2. secret' \in [Page -> Ept]
    BY <1>3, <2>1, Zenon DEF Inductive, TypeOK
  <2> QED
    BY <1>1, <2>2, Zenon DEF Inductive, TypeOK
<1>5. \A j \in Slot : SectionsOf(j)' = SectionsOf(j)
  BY <1>1, Zenon DEF SectionsOf
<1>6. PICK s \in Seq(Section) : s = whitelist[i].sections
  BY DEF Inductive, TypeOK, Entry
<1>7. PICK r \in ToSet(s) : r.page = p /\ r.type \in WrittenTypes
  <2>1. p \in Pages(s) /\ TypeOf(s, p) \in WrittenTypes
    BY <1>2, <1>6, Zenon DEF PalWrites, WrittenTypes
  <2>2. PICK r \in ToSet(s) : r.page = p
    BY <2>1, Zenon DEF Pages
  <2>3. Distinct(s)
    BY <1>6, Zenon DEF Inductive, RightsMatch
  <2> QED
    BY <2>1, <2>2, <2>3, TypeOfSection, Zenon
<1>8. SecretsKept'
  <2> SUFFICES ASSUME NEW q \in Page, NEW j \in Slot, secret'[q] = j
               PROVE  \E w \in SectionsOf(j) : w.page = q /\ w.type \in WrittenTypes
    BY <1>5 DEF SecretsKept
  <2>1. CASE q = p
    <3>1. j = i
      BY <2>1, <1>3, Zenon DEF Inductive, TypeOK
    <3> QED
      BY <2>1, <3>1, <1>6, <1>7, Zenon DEF SectionsOf
  <2>2. CASE q # p
    <3>1. secret[q] = j
      BY <2>2, <1>3, Zenon DEF Inductive, TypeOK
    <3> QED
      BY <3>1, Zenon DEF Inductive, SecretsKept
  <2> QED
    BY <2>1, <2>2, Zenon
<1>9. RightsMatch'
  BY <1>1, <1>5 DEF Inductive, RightsMatch
<1>10. PrivateAlone'
  BY <1>1, <1>5, Zenon DEF Inductive, PrivateAlone, Alone
<1> QED
  BY <1>1, <1>4, <1>8, <1>9, <1>10, Combine, Zenon

\* hpt_scode_destroy_all zeroes all private data.
LEMMA DestroyStep ==
  ASSUME Inductive, stopped = "no", hpt_scode_destroy_all
  PROVE  Inductive'
<1>1. /\ Zero(UNION {ToZero(i) : i \in Slot})
      /\ whitelist' = [i \in Slot |-> Cleared(i)]
      /\ stopped' = "down"
      /\ UNCHANGED <<reg_npt, pal_npt, scode_curr, root, nmi_block, tlb, overlap>>
  BY Zenon DEF hpt_scode_destroy_all, nptvars, cpuvars
<1>2. \A i \in Slot : /\ Cleared(i) \in Entry /\ Cleared(i).sections = <<>>
                      /\ Len(Cleared(i).sections) <= TV_MAX_SECTIONS
  BY ClearedEntry, Zenon DEF Inductive
<1>3. secret' \in [Page -> Ept] /\ \A p \in Page : secret'[p] \in {0, secret[p]}
  BY <1>1, NSlotsAssumption DEF Zero, Inductive, TypeOK, Ept
<1>4. \A p \in Page : secret'[p] = 0
  <2> SUFFICES ASSUME NEW p \in Page, secret'[p] # 0 PROVE FALSE
    BY Zenon
  <2>1. PICK i \in Slot : i = secret[p]
    BY <1>3 DEF Inductive, TypeOK, Ept, Slot
  <2>2. PICK r \in SectionsOf(i) : r.page = p /\ r.type \in WrittenTypes
    BY <2>1, Zenon DEF Inductive, SecretsKept
  <2>3. "W" \in pal_prot_of_type(r.type) /\ "R" \notin reg_prot_of_type(r.type)
    BY <2>2, Protections, Zenon DEF WrittenTypes, AllTypes
  <2>4. p \in ToZero(i)
    BY <2>2, <2>3, Zenon DEF ToZero, SectionsOf
  <2> QED
    BY <1>1, <2>4, Zenon DEF Zero
<1>5. \A i \in Slot : SectionsOf(i)' = {}
  BY <1>1, <1>2 DEF SectionsOf, ToSet
<1>6. TypeOK'
  BY <1>1, <1>2, <1>3, Zenon DEF Inductive, TypeOK
<1>7. RightsMatch'
  BY <1>1, <1>2, <1>5 DEF RightsMatch, Distinct
<1>8. SecretsKept' /\ PrivateAlone'
  BY <1>4, <1>5 DEF SecretsKept, PrivateAlone, Slot
<1> QED
  BY <1>4, <1>6, <1>7, <1>8 DEF Inductive

\* Nothing is registered at first.
LEMMA InitInductive == Init => Inductive
<1> SUFFICES ASSUME Init PROVE Inductive
  BY Zenon
<1>1. Free \in Entry /\ Free.sections = <<>> /\ Len(Free.sections) <= TV_MAX_SECTIONS
  BY SectionsAssumption DEF Free, Unused, Entry
<1>2. \A i \in Slot : whitelist[i] = Free /\ SectionsOf(i) = {} /\ pal_npt[i] = NONE
  BY <1>1 DEF Init, SectionsOf, ToSet
<1>3. 0 \in Ept /\ NONE \in [Page -> Rights]
  BY NSlotsAssumption DEF Ept, NONE, Rights
<1>4. TypeOK
  BY <1>1, <1>3, Zenon DEF Init, TypeOK, Rights
<1>5. RightsMatch
  BY <1>1, <1>2 DEF RightsMatch, Distinct, NONE
<1>6. SecretsKept /\ PrivateAlone
  BY <1>2 DEF Init, SecretsKept, PrivateAlone, Slot
<1> QED
  BY <1>4, <1>5, <1>6, Zenon DEF Inductive, Init

\* Every step preserves the invariant.
LEMMA StepInductive == Inductive /\ [Next]_vars => Inductive'
<1> SUFFICES ASSUME Inductive, [Next]_vars PROVE Inductive'
  BY Zenon
<1>1. CASE UNCHANGED vars
  <2>1. UNCHANGED <<whitelist, reg_npt, pal_npt, scode_curr, root, nmi_block, tlb, secret,
                    overlap, stopped>>
    BY <1>1, Zenon DEF vars, nptvars, cpuvars
  <2>2. \A j \in Slot : SectionsOf(j)' = SectionsOf(j)
    BY <2>1, Zenon DEF SectionsOf
  <2>3. TypeOK' /\ (stopped' = "down" => \A p \in Page : secret'[p] = 0)
    BY <2>1, Zenon DEF Inductive, TypeOK
  <2>4. RightsMatch' /\ SecretsKept'
    BY <2>1, <2>2 DEF Inductive, RightsMatch, SecretsKept
  <2>5. PrivateAlone'
    BY <2>1, <2>2, Zenon DEF Inductive, PrivateAlone, Alone
  <2> QED
    BY <2>3, <2>4, <2>5, Zenon DEF Inductive
<1>2. CASE Next
  <2>1. stopped = "no"
    BY <1>2, Zenon DEF Next
  <2>2. ASSUME NEW c \in CPU, NEW g \in Process,
               \/ scode_register(c, g) \/ scode_unregister(c, g) \/ scode_share_ranges(c, g)
               \/ \E p \in Page : NpfEnter(c, g, p)
        PROVE  Inductive'
    BY <2>1, <2>2, RegisterStep, RegisterErrorStep, UnregisterStep, ShareStep, NpfEnterStep, Zenon
       DEF scode_register
  <2>3. ASSUME NEW c \in CPU, NpfReturn(c) \/ NpfOther(c)
        PROVE  Inductive'
    BY <2>1, <2>3, NpfReturnStep, StopStep, Zenon DEF NpfOther
  <2>4. ASSUME NEW c \in CPU, NEW p \in Page, PalWrites(c, p)
        PROVE  Inductive'
    BY <2>1, <2>4, WriteStep, Zenon
  <2>5. CASE hpt_scode_destroy_all
    BY <2>1, <2>5, DestroyStep, Zenon
  <2> QED
    BY <1>2, <2>2, <2>3, <2>4, <2>5, Zenon DEF Next
<1> QED
  BY <1>1, <1>2, Zenon

\* The invariant gives PrivateKept.
LEMMA InductivePrivate == Inductive => PrivateKept
<1> SUFFICES ASSUME Inductive PROVE PrivateKept
  BY Zenon
<1>1. \A i \in Slot : \A r \in SectionsOf(i) : r.page \in Page /\ r.type \in AllTypes
  BY SectionParts, SMTT(20) DEF Inductive, TypeOK, Entry, SectionsOf, ToSet
<1>2. \A i \in Slot : \A r \in SectionsOf(i) : "R" \in pal_npt[i][r.page]
  BY <1>1, Protections DEF Inductive, RightsMatch
<1>3. \A i \in Slot : \A p \in Pages(whitelist[i].sections) : "R" \in pal_npt[i][p]
  BY <1>2, Zenon DEF Pages, SectionsOf
<1>4. ASSUME NEW p \in Page \ overlap, NEW i \in Slot, p \in PrivatePages(i) \/ secret[p] = i
      PROVE  \A c \in CPU, x \in Ept \ {i} : tlb[c][x][p] = {}
  <2>1. PICK r \in SectionsOf(i) : r.page = p /\ reg_prot_of_type(r.type) = {}
    <3>1. CASE p \in PrivatePages(i)
      BY <3>1, Zenon DEF PrivatePages, SectionsOf
    <3>2. CASE secret[p] = i
      <4>1. PICK r \in SectionsOf(i) : r.page = p /\ r.type \in WrittenTypes
        BY <3>2 DEF Inductive, SecretsKept
      <4> QED
        BY <4>1, Protections, Zenon DEF WrittenTypes, AllTypes
    <3> QED
      BY <1>4, <3>1, <3>2, Zenon
  <2> QED
    BY <2>1, Zenon DEF Inductive, PrivateAlone, Alone
<1> QED
  BY <1>3, <1>4, Zenon DEF PrivateKept, Inductive

\* The rights in the EPTs and TLBs, the sections of the whitelist and the
\* private data match in every state (the handlers of scode.c and pt.c).
THEOREM Invariant == Spec => []Inductive
  BY InitInductive, StepInductive, PTL DEF Spec

\* The variables have their types, and no entry has more than TV_MAX_SECTIONS
\* sections (scode_share_range).
THEOREM TypeCorrect == Spec => []TypeOK
<1>1. Inductive => TypeOK
  BY DEF Inductive
<1> QED
  BY <1>1, Invariant, PTL

\* What a PAL has to itself is out of reach of the regular guest and of the
\* other PALs on every CPU, for any number of CPUs, PALs, pages and sections
\* (scode_lend_section, scode_return_section and the flushes after them).
THEOREM Private == Spec => []PrivateKept
  BY InductivePrivate, Invariant, PTL

-----------------------------------------------------------------------------
(* The world a CPU runs in *)

\* A step that moves no CPU and locks and unlocks no PAL; an entry that becomes
\* free or is registered is not running, or else the step is the last.
LEMMA SameWorld ==
  ASSUME WorldMatches, TypeOK, stopped = "no", UNCHANGED cpuvars,
         \A i \in Slot : \/ /\ whitelist'[i].running = whitelist[i].running
                            /\ whitelist'[i].gcr3 = whitelist[i].gcr3
                         \/ whitelist[i].running = NoCpu /\ whitelist'[i].running = NoCpu
                         \/ /\ whitelist'[i].running = whitelist[i].running
                            /\ stopped' \in {"freed", "down"}
  PROVE  WorldMatches'
<1>1. \A c \in CPU : root[c] # 0 => root[c] \in Slot /\ whitelist[root[c]].running # NoCpu
  BY NoneAssumption DEF WorldMatches, TypeOK, Ept, Slot
<1>2. UNCHANGED <<scode_curr, root, nmi_block>>
  BY Zenon DEF cpuvars
<1>3. \A c \in CPU : /\ root'[c] = scode_curr'[c]
                     /\ nmi_block'[c] = (root'[c] # 0)
                     /\ root'[c] # 0 => whitelist'[root'[c]].running = c
  BY <1>1, <1>2, Zenon DEF WorldMatches
<1>4. \A i \in Slot : whitelist[i].running # NoCpu =>
        root[whitelist[i].running] = i /\ whitelist[i].gcr3 # NoProcess
  BY DEF WorldMatches
<1>5. \A i \in Slot : whitelist'[i].running # NoCpu =>
        /\ root'[whitelist'[i].running] = i
        /\ whitelist'[i].gcr3 # NoProcess \/ stopped' \in {"freed", "down"}
  BY <1>2, <1>4, Zenon
<1> QED
  BY <1>3, <1>5, Zenon DEF WorldMatches

\* The hypercalls move no CPU.
LEMMA WorldHypercall ==
  ASSUME Inductive, WorldMatches, stopped = "no", stopped' \in {"no", "freed"},
         NEW c \in CPU, NEW g \in Process,
         scode_register(c, g) \/ scode_unregister(c, g) \/ scode_share_ranges(c, g)
  PROVE  WorldMatches'
<1>1. TypeOK /\ whitelist \in [Slot -> Entry]
  BY Zenon DEF Inductive, TypeOK
<1>2. CASE RegisterError(c, g)
  BY <1>1, <1>2, SameWorld, Zenon DEF RegisterError
<1>3. CASE Register(c, g)
  <2> DEFINE free == {i \in Slot : whitelist[i].gcr3 = NoProcess}
  <2>1. PICK s :
          /\ free # {}
          /\ whitelist' = [whitelist EXCEPT ![Min(free)] =
               [gcr3 |-> g, entry |-> Head(s).page, info |-> Pages(s), sections |-> s,
                running |-> NoCpu]]
          /\ UNCHANGED cpuvars
    BY <1>3, Zenon DEF Register, Stop
  <2>2. PICK F : F = free
    BY Zenon
  <2>3. F \subseteq Nat /\ F # {}
    BY <2>1, <2>2 DEF Slot
  <2>4. PICK i \in Slot : i = Min(F) /\ whitelist[i].gcr3 = NoProcess
    BY <2>2, <2>3, MinIsLeast, ZenonT(30)
  <2>5. whitelist[i].running = NoCpu
    BY <2>4 DEF WorldMatches
  <2>6. whitelist'[i].running = NoCpu /\ \A j \in Slot \ {i} : whitelist'[j] = whitelist[j]
    BY <1>1, <2>1, <2>2, <2>4, Zenon
  <2> QED
    BY <1>1, <2>1, <2>5, <2>6, SameWorld, Zenon
<1>4. CASE scode_unregister(c, g)
  <2>1. PICK i \in Slot : /\ NotRunning(i) \/ stopped' = "freed"
                          /\ whitelist' = [whitelist EXCEPT ![i] = Cleared(i)]
                          /\ UNCHANGED cpuvars
    BY <1>4, Zenon DEF scode_unregister
  <2>2. whitelist'[i] = Cleared(i) /\ \A j \in Slot \ {i} : whitelist'[j] = whitelist[j]
    BY <1>1, <2>1, Zenon
  <2>3. whitelist'[i].running = whitelist[i].running
    BY <1>1, <2>2, ClearedEntry, Zenon
  <2> QED
    BY <1>1, <2>1, <2>2, <2>3, SameWorld, Zenon DEF NotRunning
<1>5. CASE scode_share_ranges(c, g)
  <2>1. UNCHANGED cpuvars /\ \E i \in Slot : \E q :
          \/ whitelist' = [whitelist EXCEPT ![i].sections = q]
          \/ whitelist' = [whitelist EXCEPT ![i].sections = q,
                                            ![i].running = whitelist[i].running]
    BY <1>5, Zenon DEF scode_share_ranges, scode_release_all_shared_pages, Stop
  <2>2. \A i \in Slot : /\ whitelist'[i].running = whitelist[i].running
                        /\ whitelist'[i].gcr3 = whitelist[i].gcr3
    <3>1. PICK i \in Slot : \E q :
            \/ whitelist' = [whitelist EXCEPT ![i].sections = q]
            \/ whitelist' = [whitelist EXCEPT ![i].sections = q,
                                              ![i].running = whitelist[i].running]
      BY <2>1
    <3>2. /\ whitelist'[i].running = whitelist[i].running
          /\ whitelist'[i].gcr3 = whitelist[i].gcr3
      BY <1>1, <3>1, Zenon DEF Entry
    <3>3. \A j \in Slot \ {i} : whitelist'[j] = whitelist[j]
      BY <1>1, <3>1, Zenon
    <3> QED
      BY <3>2, <3>3
  <2> QED
    BY <1>1, <2>1, <2>2, SameWorld
<1> QED
  BY <1>2, <1>3, <1>4, <1>5, Zenon DEF scode_register

\* A call takes the CPU into the PAL and locks it.
LEMMA WorldEnter ==
  ASSUME Inductive, WorldMatches, stopped = "no", stopped' \in {"no", "freed"},
         NEW c \in CPU, NEW g \in Process, NEW p \in Page, NpfEnter(c, g, p)
  PROVE  WorldMatches'
<1>1. whitelist \in [Slot -> Entry] /\ root \in [CPU -> Ept] /\ scode_curr \in [CPU -> Ept]
      /\ nmi_block \in [CPU -> BOOLEAN]
  BY Zenon DEF Inductive, TypeOK
<1>2. /\ scode_in_list(g, p) # 0 /\ NotRunning(scode_in_list(g, p)) /\ scode_curr[c] = 0
      /\ hpt_scode_switch_scode(c, scode_in_list(g, p))
  BY Zenon DEF NpfEnter, Stop
<1>3. PICK i \in Slot : i = scode_in_list(g, p) /\ whitelist[i].gcr3 = g
  BY <1>2, InListSlot, Zenon
<1>4. /\ whitelist' = [whitelist EXCEPT ![i].running = c]
      /\ scode_curr' = [scode_curr EXCEPT ![c] = i]
      /\ root' = [root EXCEPT ![c] = i]
      /\ nmi_block' = [nmi_block EXCEPT ![c] = TRUE]
  BY <1>2, <1>3, Zenon DEF hpt_scode_switch_scode
<1>5. whitelist[i].running = NoCpu /\ root[c] = 0 /\ whitelist[i].gcr3 # NoProcess /\ i # 0
  BY <1>2, <1>3, NoneAssumption, Zenon DEF NotRunning, WorldMatches, Slot
<1>6. \A d \in CPU : /\ root[d] = scode_curr[d] /\ nmi_block[d] = (root[d] # 0)
                     /\ root[d] # 0 => /\ root[d] \in Slot /\ root[d] # i
                                       /\ whitelist[root[d]].running = d
  BY <1>1, <1>5, NoneAssumption DEF WorldMatches, Ept, Slot
<1>7. /\ whitelist'[i].running = c /\ whitelist'[i].gcr3 = whitelist[i].gcr3
      /\ \A j \in Slot \ {i} : whitelist'[j] = whitelist[j]
  BY <1>1, <1>4, Zenon DEF Entry
<1>8. \A d \in CPU : /\ root'[d] = IF d = c THEN i ELSE root[d]
                     /\ scode_curr'[d] = IF d = c THEN i ELSE scode_curr[d]
                     /\ nmi_block'[d] = IF d = c THEN TRUE ELSE nmi_block[d]
  BY <1>1, <1>4, Zenon
<1>9. ASSUME NEW d \in CPU
      PROVE  /\ root'[d] = scode_curr'[d]
             /\ nmi_block'[d] = (root'[d] # 0)
             /\ root'[d] # 0 => whitelist'[root'[d]].running = d
  <2>1. CASE d = c
    BY <1>5, <1>7, <1>8, <2>1, Zenon
  <2>2. CASE d # c
    <3>1. root'[d] = root[d] /\ scode_curr'[d] = scode_curr[d] /\ nmi_block'[d] = nmi_block[d]
      BY <1>8, <2>2, Zenon
    <3>2. root[d] # 0 => /\ root[d] \in Slot /\ root[d] # i
                         /\ whitelist[root[d]].running = d
      BY <1>5, <1>6, <2>2
    <3> QED
      BY <1>5, <1>6, <1>7, <3>1, <3>2
  <2> QED
    BY <2>1, <2>2, Zenon
<1>10. \A j \in Slot : whitelist'[j].running # NoCpu =>
         whitelist'[j].gcr3 # NoProcess /\ root'[whitelist'[j].running] = j
  <2>1. \A j \in Slot \ {i} : whitelist[j].running # NoCpu =>
          /\ whitelist[j].gcr3 # NoProcess /\ root[whitelist[j].running] = j
          /\ whitelist[j].running \in CPU
    BY <1>1 DEF WorldMatches, Entry
  <2> TAKE j \in Slot
  <2>2. CASE j = i
    BY <1>5, <1>7, <1>8, <2>2, Zenon
  <2>3. CASE j # i
    <3>1. HAVE whitelist'[j].running # NoCpu
    <3>2. PICK d \in CPU : d = whitelist[j].running /\ root[d] = j
      BY <1>7, <2>1, <2>3, <3>1
    <3>3. d # c
      BY <1>5, <3>2 DEF Slot
    <3> QED
      BY <1>7, <1>8, <2>1, <2>3, <3>2, <3>3, NoneAssumption, Zenon
  <2> QED
    BY <2>2, <2>3, Zenon
<1> QED
  BY <1>9, <1>10, Zenon DEF WorldMatches

\* A return takes the CPU out of the PAL and unlocks it.
LEMMA WorldReturn ==
  ASSUME Inductive, WorldMatches, stopped = "no", stopped' \in {"no", "freed"},
         NEW c \in CPU, NpfReturn(c)
  PROVE  WorldMatches'
<1>1. whitelist \in [Slot -> Entry] /\ root \in [CPU -> Ept] /\ scode_curr \in [CPU -> Ept]
      /\ nmi_block \in [CPU -> BOOLEAN]
  BY DEF Inductive, TypeOK
<1>2. scode_curr[c] # 0 /\ hpt_scode_switch_regular(c, scode_curr[c])
  BY DEF NpfReturn, Stop
<1>3. PICK i \in Slot : i = scode_curr[c]
  BY <1>1, <1>2 DEF Ept, Slot
<1>4. /\ scode_curr' = [scode_curr EXCEPT ![c] = 0]
      /\ root' = [root EXCEPT ![c] = 0]
      /\ nmi_block' = [nmi_block EXCEPT ![c] = FALSE]
      /\ \E q : whitelist' = [whitelist EXCEPT ![i].sections = q, ![i].running = NoCpu]
  BY <1>2, <1>3, Zenon DEF hpt_scode_switch_regular, scode_release_all_shared_pages
<1>5. \A d \in CPU : /\ root[d] = scode_curr[d] /\ nmi_block[d] = (root[d] # 0)
                     /\ root[d] # 0 => root[d] \in Slot /\ whitelist[root[d]].running = d
  BY <1>1 DEF WorldMatches, Ept, Slot
<1>6. ASSUME NEW d \in CPU, d # c
      PROVE  root[d] # i
  <2>1. i # 0 /\ root[c] = i
    BY <1>3, <1>5 DEF Slot
  <2>2. whitelist[i].running = c
    BY <1>5, <2>1, Zenon
  <2> QED
    BY <1>5, <1>6, <2>1, <2>2
<1>7. /\ whitelist'[i].running = NoCpu
      /\ \A j \in Slot \ {i} : whitelist'[j] = whitelist[j]
  BY <1>1, <1>4, Zenon DEF Entry
<1>8. \A d \in CPU : /\ root'[d] = IF d = c THEN 0 ELSE root[d]
                     /\ scode_curr'[d] = IF d = c THEN 0 ELSE scode_curr[d]
                     /\ nmi_block'[d] = IF d = c THEN FALSE ELSE nmi_block[d]
  BY <1>1, <1>4, NSlotsAssumption, Zenon DEF Ept
<1>9. ASSUME NEW d \in CPU
      PROVE  /\ root'[d] = scode_curr'[d]
             /\ nmi_block'[d] = (root'[d] # 0)
             /\ root'[d] # 0 => whitelist'[root'[d]].running = d
  <2>1. CASE d = c
    BY <1>5, <1>7, <1>8, <2>1, Zenon
  <2>2. CASE d # c
    <3>1. root'[d] = root[d] /\ scode_curr'[d] = scode_curr[d] /\ nmi_block'[d] = nmi_block[d]
      BY <1>8, <2>2, Zenon
    <3>2. root[d] # 0 => /\ root[d] \in Slot /\ root[d] # i
                         /\ whitelist[root[d]].running = d
      BY <1>5, <1>6, <2>2
    <3> QED
      BY <1>5, <1>6, <1>7, <3>1, <3>2
  <2> QED
    BY <2>1, <2>2, Zenon
<1>10. \A j \in Slot : whitelist'[j].running # NoCpu =>
         whitelist'[j].gcr3 # NoProcess /\ root'[whitelist'[j].running] = j
  <2>1. \A j \in Slot \ {i} : whitelist[j].running # NoCpu =>
          /\ whitelist[j].gcr3 # NoProcess /\ root[whitelist[j].running] = j
          /\ whitelist[j].running \in CPU
    BY <1>1 DEF WorldMatches, Entry
  <2>2. root[c] = i
    BY <1>3, <1>5, Zenon
  <2> TAKE j \in Slot
  <2>3. CASE j = i
    BY <1>7, <2>3, Zenon
  <2>4. CASE j # i
    <3>1. HAVE whitelist'[j].running # NoCpu
    <3>2. PICK d \in CPU : d = whitelist[j].running /\ root[d] = j
      BY <1>7, <2>1, <2>4, <3>1
    <3>3. d # c
      BY <2>2, <2>4, <3>2, Zenon
    <3> QED
      BY <1>7, <1>8, <2>1, <2>4, <3>2, <3>3, NoneAssumption, Zenon
  <2> QED
    BY <2>3, <2>4
<1> QED
  BY <1>9, <1>10, Zenon DEF WorldMatches

\* A handler that halts or spins moves no CPU.
LEMMA StopsOnly ==
  ASSUME Next, stopped' \in {"halt", "spin"}
  PROVE  UNCHANGED <<whitelist, cpuvars>> /\ stopped = "no"
<1>1. stopped = "no" /\ stopped' # stopped /\ stopped' # "freed" /\ stopped' # "down"
  BY DEF Next
<1>2. ASSUME NEW why, Stop(why)
      PROVE  UNCHANGED <<whitelist, cpuvars>>
  BY <1>2, Zenon DEF Stop
<1>3. ASSUME NEW c \in CPU, NEW g \in Process,
             \/ scode_register(c, g) \/ scode_unregister(c, g)
             \/ scode_share_ranges(c, g) \/ \E p \in Page : NpfEnter(c, g, p)
      PROVE  UNCHANGED <<whitelist, cpuvars>>
  <2>1. CASE scode_register(c, g)
    BY <1>1, <1>2, <2>1, Zenon DEF scode_register, Register, RegisterError
  <2>2. CASE scode_unregister(c, g)
    BY <1>1, <2>2, Zenon DEF scode_unregister
  <2>3. CASE scode_share_ranges(c, g)
    BY <1>1, <1>2, <2>3, Zenon DEF scode_share_ranges
  <2>4. CASE \E p \in Page : NpfEnter(c, g, p)
    BY <1>1, <1>2, <2>4, Zenon DEF NpfEnter, hpt_scode_switch_scode
  <2> QED
    BY <1>3, <2>1, <2>2, <2>3, <2>4, Zenon
<1>4. ASSUME NEW c \in CPU, NpfReturn(c) \/ NpfOther(c)
      PROVE  UNCHANGED <<whitelist, cpuvars>>
  BY <1>1, <1>2, <1>4, Zenon DEF NpfReturn, NpfOther, hpt_scode_switch_regular
<1>5. /\ \A c \in CPU, p \in Page : ~PalWrites(c, p)
      /\ ~hpt_scode_destroy_all
  BY <1>1, Zenon DEF PalWrites, hpt_scode_destroy_all
<1> QED
  BY <1>1, <1>3, <1>4, <1>5, Zenon DEF Next

\* Only hpt_scode_destroy_all takes the machine down.
LEMMA DownOnly ==
  ASSUME Next, stopped' = "down"
  PROVE  hpt_scode_destroy_all /\ stopped = "no"
<1>1. stopped = "no" /\ stopped' # stopped /\ stopped' # "freed"
  BY DEF Next
<1>2. \A why \in {"halt", "spin"} : ~Stop(why)
  BY DEF Stop
<1>3. ASSUME NEW c \in CPU, NEW g \in Process
      PROVE  /\ ~scode_register(c, g) /\ ~scode_unregister(c, g)
             /\ ~scode_share_ranges(c, g) /\ \A p \in Page : ~NpfEnter(c, g, p)
  <2>1. ~scode_register(c, g)
    BY <1>1, <1>2, Zenon DEF scode_register, Register, RegisterError
  <2>2. ~scode_unregister(c, g)
    BY <1>1, Zenon DEF scode_unregister
  <2>3. ~scode_share_ranges(c, g)
    BY <1>1, <1>2, Zenon DEF scode_share_ranges
  <2>4. \A p \in Page : ~NpfEnter(c, g, p)
    BY <1>1, <1>2, Zenon DEF NpfEnter, hpt_scode_switch_scode
  <2> QED
    BY <2>1, <2>2, <2>3, <2>4, Zenon
<1>4. \A c \in CPU : ~NpfReturn(c) /\ ~NpfOther(c)
  BY <1>1, <1>2, Zenon DEF NpfReturn, NpfOther, hpt_scode_switch_regular
<1>5. \A c \in CPU, p \in Page : ~PalWrites(c, p)
  BY <1>1, Zenon DEF PalWrites
<1> QED
  BY <1>1, <1>3, <1>4, <1>5, Zenon DEF Next

\* A CPU runs on the EPT of a PAL exactly when the bookkeeping says so, holds
\* the PAL's lock and keeps NMIs back, and the PAL is registered until the
\* machine goes down or another CPU unregisters it, for any number of CPUs and
\* PALs (hpt_scode_switch_scode, hpt_scode_switch_regular, scode_unregister).
THEOREM World == Spec => []WorldMatches
<1>1. Init => WorldMatches
  <2>1. Free.running = NoCpu
    BY DEF Free, Unused
  <2> QED
    BY <2>1, ZenonT(30) DEF Init, WorldMatches
<1>2. Inductive /\ WorldMatches /\ [Next]_vars => WorldMatches'
  <2> SUFFICES ASSUME Inductive, WorldMatches, [Next]_vars PROVE WorldMatches'
    OBVIOUS
  <2>1. CASE UNCHANGED vars
    BY <2>1 DEF vars, cpuvars, WorldMatches
  <2>2. CASE Next /\ stopped' \in {"halt", "spin"}
    <3>1. UNCHANGED <<whitelist, cpuvars>> /\ stopped = "no"
      BY <2>2, StopsOnly
    <3> QED
      BY <3>1 DEF cpuvars, WorldMatches
  <2>3. CASE Next /\ stopped' = "down"
    <3>1. hpt_scode_destroy_all /\ stopped = "no"
      BY <2>3, DownOnly
    <3>2. TypeOK /\ UNCHANGED cpuvars /\ \A i \in Slot : whitelist'[i] = Cleared(i)
      BY <3>1, Zenon DEF hpt_scode_destroy_all, Inductive
    <3>3. \A i \in Slot : whitelist'[i].running = whitelist[i].running
      BY <3>2, ClearedEntry, Zenon
    <3> QED
      BY <2>3, <3>1, <3>2, <3>3, SameWorld, Zenon
  <2>4. CASE Next /\ stopped' \in {"no", "freed"}
    <3>1. stopped = "no"
      BY <2>4, Zenon DEF Next
    <3>2. ASSUME NEW c \in CPU, NEW g \in Process,
                 \/ scode_register(c, g) \/ scode_unregister(c, g)
                 \/ scode_share_ranges(c, g) \/ \E p \in Page : NpfEnter(c, g, p)
          PROVE  WorldMatches'
      BY <2>4, <3>1, <3>2, WorldHypercall, WorldEnter, Zenon
    <3>3. ASSUME NEW c \in CPU, NpfReturn(c)
          PROVE  WorldMatches'
      BY <2>4, <3>1, <3>3, WorldReturn, Zenon
    <3>4. ASSUME NEW c \in CPU, NEW p \in Page, PalWrites(c, p)
          PROVE  WorldMatches'
      BY <3>4, Zenon DEF PalWrites, cpuvars, WorldMatches
    <3>5. /\ \A c \in CPU : ~NpfOther(c)
          /\ ~hpt_scode_destroy_all
      BY <2>4 DEF NpfOther, Stop, hpt_scode_destroy_all
    <3> QED
      BY <2>4, <3>2, <3>3, <3>4, <3>5 DEF Next
  <2>5. Next => stopped' \in {"no", "halt", "spin", "freed", "down"}
    BY StepInductive, Zenon DEF Inductive, TypeOK
  <2> QED
    BY <2>1, <2>2, <2>3, <2>4, <2>5
<1> QED
  BY <1>1, <1>2, Invariant, PTL DEF Spec

=============================================================================
