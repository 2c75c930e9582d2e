----------------------------- MODULE TrustVisor -----------------------------
(***************************************************************************)
(* The hypapp TrustVisor (hypapps/trustvisor): a process registers a piece *)
(* of its own code and data, a PAL, as a whitelist entry.  Its pages are   *)
(* lent to the PAL: taken out of the EPT of the regular guest and put into *)
(* one of the PAL's own.  A call into the PAL is an instruction fetch that *)
(* faults, and so is the return from it.                                   *)
(*                                                                         *)
(* The event hub stops the other CPUs around hypercalls and EPT violations *)
(* (module Quiesce), so that a handler is one action.  This is how XMHF is *)
(* configured by default.  A CPU that halts or spins in a handler keeps    *)
(* the others stopped for good.  Nothing keeps a process from taking a PAL *)
(* off the whitelist while another CPU is in it; the page tables that CPU  *)
(* runs on are then free memory, and the model goes no further.            *)
(*                                                                         *)
(* A page has one address, the same in every process and for a PAL.  A     *)
(* section is one page.  After the first registration the CPUs share the   *)
(* entries of the regular guest's EPT (nothing changes it before).  Calls  *)
(* come from the regular guest.                                            *)
(***************************************************************************)
EXTENDS Naturals, FiniteSets, SequencesExt

CONSTANTS
  CPU, Process, Page,
  Types,              \* types of sections
  NSlots,             \* whitelist_max
  TV_MAX_SECTIONS,
  MaxRegister,        \* bound: sections of a registration
  NoCpu, NoProcess, NoPage

ASSUME NSlotsAssumption == NSlots \in Nat \ {0}
ASSUME SectionsAssumption ==
  /\ TV_MAX_SECTIONS \in Nat /\ MaxRegister \in 1 .. TV_MAX_SECTIONS
ASSUME TypesAssumption ==
  Types \subseteq {"CODE", "SHARED_CODE", "DATA", "PARAM", "STACK", "SHARED",
                   "GUEST_PAGE_TABLES"}
ASSUME NoneAssumption ==
  NoCpu \notin CPU /\ NoProcess \notin Process /\ NoPage \notin Page

VARIABLES
  whitelist,
  reg_npt,            \* the rights of the regular guest, per page
  pal_npt,            \* the rights of the PAL of an entry
  scode_curr,         \* per CPU, the entry of the PAL it runs, 0 for none
  root,               \* per CPU, whose EPT the EPTP is, 0 for the regular one
  nmi_block,          \* per CPU, NMIs are held back (module GuestNmi)
  tlb,                \* per CPU and EPT, the rights its TLB may hold
  secret,             \* per page, the entry whose PAL left private data in it
  overlap,            \* pages lent while another PAL had them
  stopped             \* why no CPU runs any more

nptvars == <<reg_npt, pal_npt>>
cpuvars == <<scode_curr, root, nmi_block>>
vars == <<whitelist, nptvars, cpuvars, tlb, secret, overlap, stopped>>

Slot == 1 .. NSlots
Ept == 0 .. NSlots
Rights == SUBSET {"R", "W", "X"}
NONE == [p \in Page |-> {}]

\* The sections of an entry; "info" is the set of pages in scode_info, which
\* stays as it was registered; "running" is who holds pal_running_lock.  A free
\* entry has no gcr3.
Section == [page : Page, type : Types \cup {"SHARED"}]
Unused(running) == [gcr3 |-> NoProcess, entry |-> NoPage, info |-> {}, sections |-> <<>>,
                    running |-> running]
Free == Unused(NoCpu)

Init ==
  /\ whitelist = [i \in Slot |-> Free]
  /\ reg_npt = [p \in Page |-> {"R", "W", "X"}]
  /\ pal_npt = [i \in Slot |-> NONE]
  /\ scode_curr = [c \in CPU |-> 0]
  /\ root = [c \in CPU |-> 0]
  /\ nmi_block = [c \in CPU |-> FALSE]
  /\ tlb = [c \in CPU |-> [x \in Ept |-> IF x = 0 THEN reg_npt ELSE NONE]]
  /\ secret = [p \in Page |-> 0]
  /\ overlap = {}
  /\ stopped = "no"

pal_prot_of_type(type) ==
  CASE type \in {"CODE", "SHARED_CODE"} -> {"R", "X"}
    [] type \in {"DATA", "PARAM", "STACK", "SHARED"} -> {"R", "W"}
    [] type = "GUEST_PAGE_TABLES" -> {"R", "W", "X"}

reg_prot_of_type(type) ==
  CASE type \in {"CODE", "DATA", "PARAM", "STACK", "SHARED"} -> {}
    [] type = "SHARED_CODE" -> {"R", "X"}
    [] type = "GUEST_PAGE_TABLES" -> {"R", "W", "X"}

Pages(sections) == {s.page : s \in ToSet(sections)}
TypeOf(sections, p) == (CHOOSE s \in ToSet(sections) : s.page = p).type

\* pal_running_lock is not held.
NotRunning(i) == whitelist[i].running = NoCpu

\* An entry that is no longer in use; its lock is as it was.
Cleared(i) == Unused(whitelist[i].running)

Stop(why) ==
  /\ stopped' = why
  /\ UNCHANGED <<whitelist, nptvars, cpuvars, tlb, secret, overlap>>

-----------------------------------------------------------------------------
(* Page tables and TLBs *)

\* Mutant: only the CPU of the caller.
FlushLocal(t, c) == [t EXCEPT ![c] = [x \in Ept |-> NONE]]

\* xmhf_memprot_flushmappings_alltlb with MEMP_FLUSHTLB_ENTRY: an INVEPT of all
\* contexts, here and on the CPUs that are stopped, before they resume.
flushmappings_alltlb(t, c) == [d \in CPU |-> [x \in Ept |-> NONE]]

\* A CPU that runs may load any entry of the EPT it runs on.
Fill(t) ==
  tlb' = [c \in CPU |-> [t[c] EXCEPT ![root'[c]] =
            [p \in Page |-> @[p] \cup
               IF root'[c] = 0 THEN reg_npt'[p] ELSE pal_npt'[root'[c]][p]]]]

\* What CHK and CHK_RV test for each section; they halt when it fails.  The
\* second section with a page finds the page lent already.
LendOK(i, sections) ==
  /\ IsInjective([k \in DOMAIN sections |-> sections[k].page])
  /\ \A s \in ToSet(sections) :
       /\ pal_prot_of_type(s.type) \subseteq reg_npt[s.page]
       /\ pal_npt[i][s.page] = {}

RegAfterLend(sections) ==
  [p \in Page |-> IF p \in Pages(sections)
                  THEN reg_prot_of_type(TypeOf(sections, p))
                  ELSE reg_npt[p]]

scode_lend_section(i, sections) ==
  /\ reg_npt' = RegAfterLend(sections)
  /\ pal_npt' = [pal_npt EXCEPT ![i] =
       [p \in Page |-> IF p \in Pages(sections)
                       THEN pal_prot_of_type(TypeOf(sections, p))
                       ELSE @[p]]]
  /\ overlap' = overlap \cup
       {p \in Pages(sections) : \E j \in Slot \ {i} : pal_npt[j][p] # {}}

\* Rights are given back as RWX, whatever they were.  The CHK that the PAL can
\* read the page is a conjunct of PrivateKept.
scode_return_section(i, ps) ==
  /\ reg_npt' = [p \in Page |-> IF p \in ps THEN {"R", "W", "X"} ELSE reg_npt[p]]
  /\ pal_npt' = [pal_npt EXCEPT ![i] = [p \in Page |-> IF p \in ps THEN {} ELSE @[p]]]
  /\ overlap' = {p \in overlap : \E j \in Slot : pal_npt'[j][p] # {}}

\* The sections at the end of the array that have type SHARED.
Kept(sections) ==
  CHOOSE n \in 0 .. Len(sections) :
    /\ \A k \in n + 1 .. Len(sections) : sections[k].type = "SHARED"
    /\ n > 0 => sections[n].type # "SHARED"

\* The caller is to flush the TLB; no caller does.
scode_release_all_shared_pages(i, running) ==
  LET sections == whitelist[i].sections
      n == Kept(sections)
  IN  /\ scode_return_section(i, Pages(SubSeq(sections, n + 1, Len(sections))))
      /\ whitelist' = [whitelist EXCEPT ![i].sections = SubSeq(@, 1, n),
                                        ![i].running = running]
      /\ Fill(tlb)

-----------------------------------------------------------------------------
(* Hypercalls of process g *)

Register(c, g) ==
  \E sections \in UNION {[1 .. n -> Section] : n \in 1 .. MaxRegister} :
    LET free == {i \in Slot : whitelist[i].gcr3 = NoProcess}
        i == Min(free)
    IN
    /\ free # {}
    /\ \A s \in ToSet(sections) : s.type \in Types
    /\ IF LendOK(i, sections)
       THEN /\ scode_lend_section(i, sections)
            /\ whitelist' = [whitelist EXCEPT ![i] =
                 [gcr3 |-> g, entry |-> Head(sections).page,
                  info |-> Pages(sections), sections |-> sections,
                  running |-> NoCpu]]
            /\ UNCHANGED <<cpuvars, secret, stopped>>
            /\ Fill(flushmappings_alltlb(tlb, c))
       ELSE Stop("halt")

\* An error after the sections have been lent: they stay lent to a PAL that
\* is not entered in the whitelist, "FIXME clean-up in case of error".
RegisterError(c, g) ==
  \E s \in Section :
    /\ s.type \in Types
    /\ \E i \in Slot : whitelist[i].gcr3 = NoProcess /\ LendOK(i, <<s>>)
    /\ reg_npt' = RegAfterLend(<<s>>)
    /\ UNCHANGED <<whitelist, pal_npt, cpuvars, secret, overlap, stopped>>
    /\ Fill(flushmappings_alltlb(tlb, c))

scode_register(c, g) == Register(c, g) \/ RegisterError(c, g)

\* Pages the PAL can write and the regular guest cannot read.
ToZero(i) ==
  {s.page : s \in {s \in ToSet(whitelist[i].sections) :
                     /\ "W" \in pal_prot_of_type(s.type)
                     /\ "R" \notin reg_prot_of_type(s.type)}}

Zero(ps) == secret' = [p \in Page |-> IF p \in ps THEN 0 ELSE secret[p]]

\* The sections go back, the entry is cleared and the page tables are freed,
\* whether or not a CPU is in the PAL.
scode_unregister(c, g) ==
  \E i \in Slot :
    /\ whitelist[i].gcr3 = g
    /\ \A j \in 1 .. i - 1 : <<whitelist[j].gcr3, whitelist[j].entry>>
                              # <<g, whitelist[i].entry>>
    /\ Zero(ToZero(i))
    /\ scode_return_section(i, Pages(whitelist[i].sections))
    /\ whitelist' = [whitelist EXCEPT ![i] = Cleared(i)]
    /\ stopped' = IF NotRunning(i) THEN stopped ELSE "freed"
    /\ UNCHANGED cpuvars
    /\ Fill(flushmappings_alltlb(tlb, c))

\* Mutant: one section too many.
ShareLimitOff(sections) == Len(sections) <= TV_MAX_SECTIONS
ShareLimit(sections) == Len(sections) < TV_MAX_SECTIONS

\* One page more for a PAL, until it returns.  (An AMD64 build halts.)
scode_share_ranges(c, g) ==
  \E i \in Slot, p \in Page :
    LET new == [page |-> p, type |-> "SHARED"] IN
    /\ whitelist[i].gcr3 = g
    /\ \A j \in 1 .. i - 1 : <<whitelist[j].gcr3, whitelist[j].entry>>
                              # <<g, whitelist[i].entry>>
    /\ \/ /\ ~ShareLimit(whitelist[i].sections)
          /\ UNCHANGED <<cpuvars, secret, stopped>>
          /\ scode_release_all_shared_pages(i, whitelist[i].running)
       \/ /\ ShareLimit(whitelist[i].sections)
          /\ LendOK(i, <<new>>)
          /\ scode_lend_section(i, <<new>>)
          /\ whitelist' = [whitelist EXCEPT ![i].sections = Append(@, new)]
          /\ UNCHANGED <<cpuvars, secret, stopped>>
          /\ Fill(flushmappings_alltlb(tlb, c))
       \/ /\ ShareLimit(whitelist[i].sections)
          /\ ~LendOK(i, <<new>>)
          /\ Stop("halt")

-----------------------------------------------------------------------------
(* EPT violations *)

\* The entry whose registered sections the address is in; 0 is -1 in the code.
scode_in_list(g, p) ==
  LET found == {i \in Slot : whitelist[i].gcr3 = g /\ p \in whitelist[i].info}
  IN  IF found = {} THEN 0 ELSE Min(found)

\* The lock is free.  The MEMP_FLUSHTLB_EPTP flush does no INVEPT.
hpt_scode_switch_scode(c, i) ==
  /\ whitelist' = [whitelist EXCEPT ![i].running = c]
  /\ scode_curr' = [scode_curr EXCEPT ![c] = i]
  /\ root' = [root EXCEPT ![c] = i]
  /\ nmi_block' = [nmi_block EXCEPT ![c] = TRUE]
  /\ UNCHANGED <<nptvars, secret, overlap, stopped>>
  /\ Fill(tlb)

\* Mutant: no xmhf_smpguest_nmi_unblock.
switch_regular_keep_block(c, i) ==
  /\ scode_curr' = [scode_curr EXCEPT ![c] = 0]
  /\ root' = [root EXCEPT ![c] = 0]
  /\ UNCHANGED <<nmi_block, secret, stopped>>
  /\ scode_release_all_shared_pages(i, NoCpu)

hpt_scode_switch_regular(c, i) ==
  /\ scode_curr' = [scode_curr EXCEPT ![c] = 0]
  /\ root' = [root EXCEPT ![c] = 0]
  /\ nmi_block' = [nmi_block EXCEPT ![c] = FALSE]
  /\ UNCHANGED <<secret, stopped>>
  /\ scode_release_all_shared_pages(i, NoCpu)

\* The regular guest jumps to page p, which it may not execute.  The lock of a
\* PAL that runs is never released: the CPU that would do so is stopped.
NpfEnter(c, g, p) ==
  LET i == scode_in_list(g, p)
      entry == i # 0 /\ whitelist[i].entry = p
  IN
  /\ scode_curr[c] = 0
  /\ "X" \notin reg_npt[p]
  /\ \/ ~entry /\ Stop("halt")
     \/ entry /\ ~NotRunning(i) /\ Stop("spin")
     \/ /\ entry /\ NotRunning(i)
        /\ \/ hpt_scode_switch_scode(c, i)
           \/ Stop("halt")            \* marshalling fails, or IF is clear

\* The PAL jumps to RETURN_FROM_PAL_ADDRESS.  When it has set IF or cleared
\* CR0.EM, "goto out" goes back, and again.
NpfReturn(c) ==
  /\ scode_curr[c] # 0
  /\ \/ hpt_scode_switch_regular(c, scode_curr[c])
     \/ Stop("halt")                  \* unmarshalling fails
     \/ Stop("spin")

\* Any other violation, of the regular guest or of a PAL.
NpfOther(c) == Stop("halt")

-----------------------------------------------------------------------------
\* All CPUs have come to the barrier of xmhf_runtime_shutdown (module SmpBoot).
hpt_scode_destroy_all ==
  /\ Zero(UNION {ToZero(i) : i \in Slot})
  /\ whitelist' = [i \in Slot |-> Cleared(i)]
  /\ stopped' = "down"
  /\ UNCHANGED <<nptvars, cpuvars, tlb, overlap>>

\* The PAL that c runs writes to a page, perhaps by an old TLB entry.
PalWrites(c, p) ==
  LET i == root[c] IN
  /\ i # 0
  /\ "W" \in tlb[c][i][p]
  /\ p \in Pages(whitelist[i].sections)
  /\ TypeOf(whitelist[i].sections, p) \in {"DATA", "PARAM", "STACK"}
  /\ secret' = [secret EXCEPT ![p] = i]
  /\ UNCHANGED <<whitelist, nptvars, cpuvars, tlb, overlap, stopped>>

Next ==
  /\ stopped = "no"
  /\ \/ \E c \in CPU, g \in Process :
          /\ scode_curr[c] = 0
          /\ \/ scode_register(c, g)
             \/ scode_unregister(c, g)
             \/ scode_share_ranges(c, g)
             \/ \E p \in Page : NpfEnter(c, g, p)
     \/ \E c \in CPU : NpfReturn(c) \/ NpfOther(c)
     \/ \E c \in CPU, p \in Page : PalWrites(c, p)
     \/ hpt_scode_destroy_all

Spec == Init /\ [][Next]_vars

-----------------------------------------------------------------------------
Entry == [gcr3 : Process \cup {NoProcess}, entry : Page \cup {NoPage},
          info : SUBSET Page, sections : Seq(Section), running : CPU \cup {NoCpu}]

\* The types of the variables; no more than TV_MAX_SECTIONS sections are
\* written to the array of an entry (scode_share_range).
TypeOK ==
  /\ whitelist \in [Slot -> Entry]
  /\ \A i \in Slot : Len(whitelist[i].sections) <= TV_MAX_SECTIONS
  /\ reg_npt \in [Page -> Rights]
  /\ pal_npt \in [Slot -> [Page -> Rights]]
  /\ scode_curr \in [CPU -> Ept]
  /\ root \in [CPU -> Ept]
  /\ nmi_block \in [CPU -> BOOLEAN]
  /\ tlb \in [CPU -> [Ept -> [Page -> Rights]]]
  /\ secret \in [Page -> Ept]
  /\ overlap \subseteq Page
  /\ stopped \in {"no", "halt", "spin", "freed", "down"}

PrivatePages(i) ==
  {s.page : s \in {s \in ToSet(whitelist[i].sections) :
                     reg_prot_of_type(s.type) = {}}}

\* A page a PAL has to itself, or that still holds its private data, is out of
\* reach of the regular guest and of the other PALs on every CPU, old TLB
\* entries included, whatever was registered, shared, entered and returned
\* from (scode_lend_section, scode_return_section and the flushes after them).
\* Pages lent while another PAL had them are excepted: for those it is not so.
\* A PAL can read the sections of its entry until they are returned, and
\* nothing private is in memory when the machine goes down.  Of what a CPU does
\* on page tables that were freed under it (stopped is "freed") nothing is said.
PrivateKept ==
  /\ \A i \in Slot : \A p \in Pages(whitelist[i].sections) :
       "R" \in pal_npt[i][p]
  /\ \A p \in Page \ overlap, i \in Slot :
       p \in PrivatePages(i) \/ secret[p] = i =>
         \A c \in CPU, x \in Ept \ {i} : tlb[c][x][p] = {}
  /\ stopped = "down" => \A p \in Page : secret[p] = 0

\* A CPU runs on the EPT of a PAL exactly when scode_curr says so and NMIs are
\* held back on it, and it holds the lock of the PAL, so that no two CPUs are in
\* one PAL; a PAL nobody is in is unlocked, also when an entry is used again
\* (hpt_scode_npf, the two switches and scode_register).  The PAL is registered
\* all the while, unless the machine goes down or scode_unregister, which does
\* not look at the lock, has been called for it from another CPU: that alone
\* takes the page tables away from a CPU that runs on them.
WorldMatches ==
  /\ \A c \in CPU :
       /\ root[c] = scode_curr[c]
       /\ nmi_block[c] = (root[c] # 0)
       /\ root[c] # 0 => whitelist[root[c]].running = c
  /\ \A i \in Slot : whitelist[i].running # NoCpu =>
       /\ root[whitelist[i].running] = i
       /\ whitelist[i].gcr3 # NoProcess \/ stopped \in {"freed", "down"}
=============================================================================
