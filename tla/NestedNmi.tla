----------------------------- MODULE NestedNmi -----------------------------
(***************************************************************************)
(* NMIs on a CPU whose guest L1 is itself a hypervisor and runs a guest L2 *)
(* (nested-x86vmx-handler2.c, and the NMI fields in nested-x86vmx-vmcs12.c *)
(* and smpg-x86vmx.c).  XMHF keeps NMIs for L1 or L2 in one count.  What   *)
(* becomes of them depends on what L1 has asked for in VMCS12, which it    *)
(* may change before each entry.                                           *)
(*                                                                         *)
(* The intercept handlers call mhv_nmi_disable first: NMIs that arrive     *)
(* later are counted and handled by mhv_nmi_enable before the guest is     *)
(* entered (module GuestNmi).  So what follows mhv_nmi_disable is one      *)
(* action here.  "exit1", "window1", "exit2" and "window2" are the points  *)
(* between a VM exit and mhv_nmi_disable, "post1" and "post2" those before *)
(* an entry where NMIs are handled.                                        *)
(***************************************************************************)
EXTENDS Naturals

VARIABLES
  where,                  \* the guest that runs, has exited or is about to run
  halt,                   \* the assertion or VM entry that has failed, if any
  vmcs01,                 \* the VMCS of L1 ...
  vmcs02,                 \* ... and of L2, as in module GuestNmi
  vmcs12,                 \* what L1 sees of the VMCS of L2
  idt,                    \* the NMI whose delivery to L2 the exit has cut short
  guest_nmi_exiting, guest_virtual_nmis, guest_nmi_window_exiting,
  guest_block_nmi,
  guest_vmcs_block_nmi_overridden, guest_vmcs_block_nmi,
  guest_nmi_pending,
  \* What has happened:
  l2_blocks,              \* L2 blocks NMIs, as L1 entered it and NMIs and IRETs left it
  delayed,                \* the blocking was overridden as an NMI was to be injected
  crowded                 \* two NMIs were kept as an L2 was entered that blocks NMIs

settingvars == <<guest_nmi_exiting, guest_virtual_nmis, guest_nmi_window_exiting>>
overridevars == <<guest_vmcs_block_nmi_overridden, guest_vmcs_block_nmi>>
infovars == <<settingvars, guest_block_nmi, overridevars>>
historyvars == <<l2_blocks, delayed, crowded>>
vars == <<where, halt, vmcs01, vmcs02, vmcs12, idt, infovars, guest_nmi_pending, historyvars>>

\* block: blocking by NMI; entry: who has an NMI injected at the next entry;
\* window: NMI-window exiting.
Vmcs == [block : BOOLEAN, entry : {"none", "l0", "l1"}, window : BOOLEAN]

Init ==
  /\ where = "run1" /\ halt = "no"
  /\ vmcs01 = [block |-> FALSE, entry |-> "none", window |-> FALSE]
  /\ vmcs02 = [block |-> FALSE, entry |-> "none", window |-> FALSE]
  /\ vmcs12 = [block |-> FALSE, exit |-> "none", injects |-> FALSE]
  /\ idt = "none"
  /\ guest_nmi_exiting = FALSE /\ guest_virtual_nmis = FALSE
  /\ guest_nmi_window_exiting = FALSE
  /\ guest_block_nmi = FALSE
  /\ guest_vmcs_block_nmi_overridden = FALSE
  /\ guest_vmcs_block_nmi = FALSE
  /\ guest_nmi_pending = 0
  /\ l2_blocks = FALSE /\ delayed = FALSE /\ crowded = FALSE

\* The CPU is at w and has not halted.
At(w) == halt = "no" /\ where = w

\* HALT_ON_ERRORCOND fails, or a VM entry does: the end.
Halt(why) ==
  /\ halt' = why
  /\ UNCHANGED <<where, vmcs01, vmcs02, vmcs12, idt, infovars, guest_nmi_pending, historyvars>>

WindowOpen(vmcs) == vmcs.window /\ ~vmcs.block

\* One more NMI is kept, up to a limit.
Kept(limit) == IF guest_nmi_pending < limit THEN guest_nmi_pending + 1 ELSE guest_nmi_pending

-----------------------------------------------------------------------------
(* L1: the parts of GuestNmi that matter *)

\* xmhf_smpguest_arch_x86vmx_inject_nmi: an NMI exit of L1, or an NMI that
\* arrives before mhv_nmi_disable or is counted after it.
Nmi1 ==
  LET limit == IF vmcs01.block \/ vmcs01.entry # "none" THEN 1 ELSE 2 IN
  /\ \/ At("run1") /\ ~WindowOpen(vmcs01)
     \/ At("exit1") \/ At("window1") \/ At("post1")
  /\ IF guest_nmi_pending > limit
       THEN Halt("limit")
       ELSE /\ where' = IF where = "run1" THEN "post1" ELSE where
            /\ guest_nmi_pending' = Kept(limit)
            /\ vmcs01' = [vmcs01 EXCEPT !.window = guest_nmi_pending' > 0]
            /\ UNCHANGED <<halt, vmcs02, vmcs12, idt, infovars, historyvars>>

\* L1 exits: at once where the NMI window is open.
Exit1 ==
  /\ At("run1")
  /\ where' = IF WindowOpen(vmcs01) THEN "window1" ELSE "exit1"
  /\ UNCHANGED <<halt, vmcs01, vmcs02, vmcs12, idt, infovars, guest_nmi_pending, historyvars>>

\* NMI-window exit of L1.
Window1 ==
  /\ At("window1")
  /\ IF guest_nmi_pending = 0
       THEN Halt("window")
       ELSE /\ where' = "post1"
            /\ guest_nmi_pending' = guest_nmi_pending - 1
            /\ vmcs01' = [vmcs01 EXCEPT !.entry = "l0", !.window = guest_nmi_pending' > 0]
            /\ crowded' = FALSE
            /\ UNCHANGED <<halt, vmcs02, vmcs12, idt, infovars, l2_blocks, delayed>>

\* Any other exit of L1 that is not for an entry to L2.
Resume1 ==
  /\ At("exit1") /\ where' = "post1"
  /\ UNCHANGED <<halt, vmcs01, vmcs02, vmcs12, idt, infovars, guest_nmi_pending, historyvars>>

\* An NMI to inject must not meet NMI blocking, or the entry fails.
Enter1 ==
  /\ At("post1")
  /\ IF vmcs01.entry # "none" /\ vmcs01.block
       THEN Halt("entry1")
       ELSE /\ where' = "run1"
            /\ vmcs01' = [vmcs01 EXCEPT !.block = @ \/ vmcs01.entry # "none", !.entry = "none"]
            /\ UNCHANGED <<halt, vmcs02, vmcs12, idt, infovars, guest_nmi_pending, historyvars>>

Iret1 ==
  /\ At("run1") /\ vmcs01.block
  /\ vmcs01' = [vmcs01 EXCEPT !.block = FALSE]
  /\ UNCHANGED <<where, halt, vmcs02, vmcs12, idt, infovars, guest_nmi_pending, historyvars>>

-----------------------------------------------------------------------------
(* NMI fields of VMCS02 *)

\* L1 is to get a pending NMI as an exit of L2, whether or not L2 blocks virtual
\* NMIs: the blocking in VMCS02 is overridden.
Overrides(exiting, block_nmi) == exiting /\ guest_nmi_pending' > 0 /\ ~block_nmi

\* Mutant: the blocking saved by an earlier override is saved over.
update_nested_nmi_resave(vmcs, exiting, window_exiting, block_nmi) ==
  LET override == Overrides(exiting, block_nmi) IN
  /\ vmcs02' = [vmcs EXCEPT
       !.window = IF exiting THEN override \/ window_exiting ELSE guest_nmi_pending' > 0,
       !.block = IF override THEN FALSE
                 ELSE IF guest_vmcs_block_nmi_overridden THEN guest_vmcs_block_nmi
                 ELSE @]
  /\ guest_vmcs_block_nmi_overridden' = override
  /\ guest_vmcs_block_nmi' = IF override THEN vmcs.block ELSE guest_vmcs_block_nmi

\* _update_nested_nmi
update_nested_nmi(vmcs, exiting, window_exiting, block_nmi) ==
  LET override == Overrides(exiting, block_nmi) IN
  /\ vmcs02' = [vmcs EXCEPT
       !.window = IF exiting THEN override \/ window_exiting ELSE guest_nmi_pending' > 0,
       !.block = IF override THEN FALSE
                 ELSE IF guest_vmcs_block_nmi_overridden THEN guest_vmcs_block_nmi
                 ELSE @]
  /\ guest_vmcs_block_nmi_overridden' = override
  /\ guest_vmcs_block_nmi' = IF override /\ ~guest_vmcs_block_nmi_overridden
                               THEN vmcs.block ELSE guest_vmcs_block_nmi

\* vmcs12_to_vmcs02_ctls: virtual NMIs need NMI exiting, NMI-window exiting needs
\* virtual NMIs.
ValidControls(exiting, virtual, window) == (virtual => exiting) /\ (window => virtual)

\* An NMI that L1 injects without NMI exiting.
Unsupported(exiting, injects) == injects /\ ~exiting

\* L1 runs VMLAUNCH or VMRESUME: handle_vmentry, with the NMI fields of
\* vmcs12_to_vmcs02.
Vmentry(exiting, virtual, window, block, injects) ==
  /\ At("exit1") /\ ValidControls(exiting, virtual, window)
  /\ IF Unsupported(exiting, injects)
       THEN Halt("unsupported")
       ELSE IF guest_vmcs_block_nmi_overridden
         THEN Halt("override")
         ELSE /\ where' = "post2"
              /\ vmcs12' = [block |-> block, exit |-> "none", injects |-> injects]
              /\ guest_nmi_exiting' = exiting
              /\ guest_virtual_nmis' = virtual
              /\ guest_nmi_window_exiting' = window
              /\ guest_block_nmi' = IF exiting THEN ~virtual /\ block ELSE guest_block_nmi
              /\ guest_nmi_pending' = guest_nmi_pending
              /\ update_nested_nmi([block |-> block, window |-> window,
                                    entry |-> IF injects THEN "l1" ELSE "none"],
                                   exiting, window, guest_block_nmi')
              /\ l2_blocks' = block
              /\ delayed' = (injects /\ Overrides(exiting, guest_block_nmi'))
              /\ crowded' = (guest_nmi_pending = 2 /\ block /\ ~virtual)
              /\ UNCHANGED <<halt, vmcs01, idt>>

\* The entry fails on these or on other controls, after they have been noted.
\* What is in VMCS02 by then is written again by the next entry.
VmentryFail(exiting, virtual, window) ==
  /\ At("exit1") /\ where' = "post1"
  /\ vmcs12' = [vmcs12 EXCEPT !.exit = "none"]
  /\ guest_nmi_exiting' = exiting
  /\ guest_virtual_nmis' = virtual
  /\ guest_nmi_window_exiting' = window
  /\ guest_block_nmi' \in BOOLEAN
  /\ UNCHANGED <<halt, vmcs01, vmcs02, idt, overridevars, guest_nmi_pending, historyvars>>

\* The limit in handle_nmi: one NMI while the guest that is to get it blocks
\* NMIs, or is about to.
nmi_pending_limit ==
  LET blocks == IF guest_nmi_exiting THEN guest_block_nmi
                ELSE \/ IF guest_vmcs_block_nmi_overridden THEN guest_vmcs_block_nmi
                                                           ELSE vmcs02.block
                     \/ vmcs02.entry # "none"
  IN  IF blocks THEN 1 ELSE 2

\* Mutant: the count is not limited.
Nmi2Unlimited ==
  /\ \/ At("run2") /\ ~WindowOpen(vmcs02)
     \/ At("exit2") \/ At("window2") \/ At("post2")
  /\ where' = IF where = "run2" THEN "post2" ELSE where
  /\ guest_nmi_pending' = guest_nmi_pending + 1
  /\ update_nested_nmi(vmcs02, guest_nmi_exiting, guest_nmi_window_exiting, guest_block_nmi)
  /\ UNCHANGED <<halt, vmcs01, vmcs12, idt, settingvars, guest_block_nmi, historyvars>>

\* xmhf_nested_arch_x86vmx_handle_nmi: an NMI exit of L2, or an NMI that arrives
\* before mhv_nmi_disable or is counted after it.
Nmi2 ==
  /\ \/ At("run2") /\ ~WindowOpen(vmcs02)
     \/ At("exit2") \/ At("window2") \/ At("post2")
  /\ IF guest_nmi_pending > nmi_pending_limit
       THEN Halt("limit")
       ELSE /\ where' = IF where = "run2" THEN "post2" ELSE where
            /\ guest_nmi_pending' = Kept(nmi_pending_limit)
            /\ update_nested_nmi(vmcs02, guest_nmi_exiting, guest_nmi_window_exiting,
                                 guest_block_nmi)
            /\ delayed' = \/ delayed
                          \/ /\ Overrides(guest_nmi_exiting, guest_block_nmi)
                             /\ vmcs02.entry # "none"
            /\ UNCHANGED <<halt, vmcs01, vmcs12, idt, settingvars, guest_block_nmi,
                           l2_blocks, crowded>>

-----------------------------------------------------------------------------
(* L2 runs *)

\* The entry to L2.  VMCS02 has virtual NMIs whatever L1 asked for, so that an
\* NMI to inject must not meet blocking.  Its delivery sets blocking, and may
\* meet an exit.
Enter2 ==
  /\ At("post2")
  /\ IF vmcs02.entry # "none" /\ vmcs02.block
       THEN Halt("entry2")
       ELSE /\ vmcs02' = [vmcs02 EXCEPT !.block = @ \/ vmcs02.entry # "none", !.entry = "none"]
            /\ l2_blocks' = (l2_blocks \/ vmcs02.entry # "none")
            /\ \/ where' = "run2" /\ UNCHANGED idt
               \/ where' = "exit2" /\ vmcs02.entry # "none" /\ idt' = vmcs02.entry
            /\ UNCHANGED <<halt, vmcs01, vmcs12, infovars, guest_nmi_pending, delayed, crowded>>

\* Return from the NMI handler.  With NMI exiting and no virtual NMIs this does
\* not end the blocking that guest_block_nmi stands for.
Iret2 ==
  /\ At("run2") /\ vmcs02.block
  /\ vmcs02' = [vmcs02 EXCEPT !.block = FALSE]
  /\ l2_blocks' = FALSE
  /\ UNCHANGED <<where, halt, vmcs01, vmcs12, idt, infovars, guest_nmi_pending, delayed, crowded>>

\* L2 exits: at once where the NMI window is open.
Exit2 ==
  /\ At("run2")
  /\ where' = IF WindowOpen(vmcs02) THEN "window2" ELSE "exit2"
  /\ UNCHANGED <<halt, vmcs01, vmcs02, vmcs12, idt, infovars, guest_nmi_pending, historyvars>>

-----------------------------------------------------------------------------
(* Exits of L2 *)

\* handle_vmexit20_ept_violation fills in EPT02.  An NMI whose delivery was cut
\* short is injected again.  If L1 uses virtual NMIs the blocking that the
\* processor has set for it is taken back, and asserted to be there.
EptMiss ==
  LET takes_back == idt # "none" /\ guest_virtual_nmis IN
  /\ At("exit2")
  /\ IF takes_back /\ ~vmcs02.block
       THEN Halt("reinject")
       ELSE /\ where' = "post2" /\ idt' = "none"
            /\ vmcs02' = [vmcs02 EXCEPT !.entry = idt, !.block = @ /\ ~takes_back]
            /\ l2_blocks' = (l2_blocks /\ idt = "none")
            /\ UNCHANGED <<halt, vmcs01, vmcs12, infovars, guest_nmi_pending, delayed, crowded>>

\* Other exits that L1 does not see: the hypapp has dealt with a violation of
\* EPT01, a hypercall, CPUID or an MSR.  Nothing is injected again.
Resume202 ==
  /\ At("exit2") /\ where' = "post2"
  /\ idt' = "none"
  /\ UNCHANGED <<halt, vmcs01, vmcs02, vmcs12, infovars, guest_nmi_pending, historyvars>>

\* The blocking by NMI of L2 without the override.
L2Block == IF guest_vmcs_block_nmi_overridden THEN guest_vmcs_block_nmi ELSE vmcs02.block

\* Mutant: VMCS01 keeps its NMI-window bit.
forward_no_window(exit) ==
  /\ where' = "post1" /\ idt' = "none"
  /\ vmcs12' = [block |-> IF guest_nmi_exiting /\ ~guest_virtual_nmis THEN guest_block_nmi
                                                                      ELSE L2Block,
                exit |-> exit, injects |-> FALSE]
  /\ guest_nmi_pending' = IF exit = "nmi" THEN guest_nmi_pending - 1 ELSE guest_nmi_pending
  /\ crowded' = (crowded /\ exit # "nmi")
  /\ vmcs01' = [vmcs01 EXCEPT
       !.block = exit = "nmi" \/ IF guest_nmi_exiting THEN guest_block_nmi ELSE L2Block]
  /\ guest_vmcs_block_nmi_overridden' = FALSE
  /\ UNCHANGED <<halt, vmcs02, settingvars, guest_block_nmi, guest_vmcs_block_nmi,
                 l2_blocks, delayed>>

\* Mutant: the override is not ended.
forward_overridden(exit) ==
  /\ where' = "post1" /\ idt' = "none"
  /\ vmcs12' = [block |-> IF guest_nmi_exiting /\ ~guest_virtual_nmis THEN guest_block_nmi
                                                                      ELSE L2Block,
                exit |-> exit, injects |-> FALSE]
  /\ guest_nmi_pending' = IF exit = "nmi" THEN guest_nmi_pending - 1 ELSE guest_nmi_pending
  /\ crowded' = (crowded /\ exit # "nmi")
  /\ vmcs01' = [vmcs01 EXCEPT
       !.block = exit = "nmi" \/ IF guest_nmi_exiting THEN guest_block_nmi ELSE L2Block,
       !.window = guest_nmi_pending' > 0]
  /\ UNCHANGED <<halt, vmcs02, settingvars, guest_block_nmi, overridevars, l2_blocks, delayed>>

\* handle_vmexit20_forward with vmcs02_to_vmcs12_guest_interruptibility: undo
\* the override, tell L1 and VMCS01 about the blocking.
forward(exit) ==
  /\ where' = "post1" /\ idt' = "none"
  /\ vmcs12' = [block |-> IF guest_nmi_exiting /\ ~guest_virtual_nmis THEN guest_block_nmi
                                                                      ELSE L2Block,
                exit |-> exit, injects |-> FALSE]
  /\ guest_nmi_pending' = IF exit = "nmi" THEN guest_nmi_pending - 1 ELSE guest_nmi_pending
  /\ crowded' = (crowded /\ exit # "nmi")
  /\ vmcs01' = [vmcs01 EXCEPT
       !.block = exit = "nmi" \/ IF guest_nmi_exiting THEN guest_block_nmi ELSE L2Block,
       !.window = guest_nmi_pending' > 0]
  /\ guest_vmcs_block_nmi_overridden' = FALSE
  /\ UNCHANGED <<halt, vmcs02, settingvars, guest_block_nmi, guest_vmcs_block_nmi,
                 l2_blocks, delayed>>

\* An exit that L1 is to see.
Exit201 ==
  /\ At("exit2")
  /\ forward("other")

\* handle_vmexit20_nmi_window: L1 gets its window exit, or an NMI exit, or L2
\* gets an NMI.  In the last two cases there is asserted to be one.
Window2 ==
  /\ At("window2")
  /\ IF guest_nmi_exiting /\ guest_nmi_window_exiting
       THEN forward("window")
       ELSE IF guest_nmi_pending = 0 \/ (guest_nmi_exiting /\ guest_block_nmi)
         THEN Halt("window")
         ELSE IF guest_nmi_exiting
           THEN forward("nmi")
           ELSE /\ where' = "post2"
                /\ guest_nmi_pending' = guest_nmi_pending - 1
                /\ update_nested_nmi([vmcs02 EXCEPT !.entry = "l0"], guest_nmi_exiting,
                                     guest_nmi_window_exiting, guest_block_nmi)
                /\ crowded' = FALSE
                /\ UNCHANGED <<halt, vmcs01, vmcs12, idt, settingvars, guest_block_nmi,
                               l2_blocks, delayed>>

-----------------------------------------------------------------------------
Next ==
  \/ Nmi1 \/ Exit1 \/ Window1 \/ Resume1 \/ Enter1 \/ Iret1
  \/ \E exiting, virtual, window \in BOOLEAN :
       \/ VmentryFail(exiting, virtual, window)
       \/ \E block, injects \in BOOLEAN : Vmentry(exiting, virtual, window, block, injects)
  \/ Nmi2 \/ Enter2 \/ Iret2 \/ Exit2
  \/ EptMiss \/ Resume202 \/ Exit201 \/ Window2

Spec == Init /\ [][Next]_vars

\* An open window causes an exit, its handler ends, and L1 is entered.
FairSpec ==
  /\ Spec
  /\ WF_vars(Exit1 /\ WindowOpen(vmcs01)) /\ WF_vars(Exit2 /\ WindowOpen(vmcs02))
  /\ WF_vars(Window1 \/ Window2) /\ WF_vars(Enter1)

-----------------------------------------------------------------------------

\* Type correctness; in particular no more than two NMIs are ever kept for L1
\* and L2 together, however they enter each other (handle_nmi, inject_nmi).
TypeOK ==
  /\ where \in {"run1", "exit1", "window1", "post1", "run2", "exit2", "window2", "post2"}
  /\ halt \in {"no", "limit", "window", "entry1", "unsupported", "override", "entry2",
               "reinject"}
  /\ vmcs01 \in Vmcs /\ vmcs02 \in Vmcs
  /\ vmcs12 \in [block : BOOLEAN, exit : {"none", "nmi", "window", "other"},
                 injects : BOOLEAN]
  /\ idt \in {"none", "l0", "l1"}
  /\ \A b \in {guest_nmi_exiting, guest_virtual_nmis, guest_nmi_window_exiting,
               guest_block_nmi, guest_vmcs_block_nmi_overridden, guest_vmcs_block_nmi,
               l2_blocks, delayed, crowded} : b \in BOOLEAN
  /\ guest_nmi_pending \in 0 .. 2

\* As NMIs pass between L0, L1 and L2 an assertion fires, or a VM entry fails,
\* in these cases and in no other.  The limit of inject_nmi and handle_nmi: L1
\* has entered an L2 that blocks NMIs while two were kept.  The blocking that
\* handle_vmexit20_ept_violation wants to take back: an NMI arrived before
\* mhv_nmi_disable and had it overridden.  The entry of L2: without virtual
\* NMIs the blocking is not taken back, or L1 itself injects an NMI into an L2
\* that blocks them.  And vmcs12_to_vmcs02 does not support an NMI that L1
\* injects without NMI exiting.  A window exit always finds its NMI, an override
\* is ended before the next entry, and the entry of L1 does not fail.
KnownHalts ==
  /\ halt \in {"no", "limit", "reinject", "entry2", "unsupported"}
  /\ halt = "limit" => crowded
  /\ halt = "reinject" => guest_vmcs_block_nmi_overridden
  /\ halt = "entry2" => ~guest_virtual_nmis \/ (vmcs12.injects /\ vmcs12.block)

\* While a guest runs, its VMCS asks for a window exit exactly if there is an
\* NMI that it, or L1 in place of L2, is to get, or L1 has asked for one:
\* VMCS01 is brought up to date when NMIs came or went while L2 ran.
WindowsArmed ==
  /\ where = "run1" => vmcs01.window = (guest_nmi_pending > 0)
  /\ where = "run2" =>
       vmcs02.window = \/ guest_nmi_pending > 0 /\ (guest_nmi_exiting => ~guest_block_nmi)
                       \/ guest_nmi_exiting /\ guest_nmi_window_exiting

\* L1 sees L2 as blocking virtual NMIs exactly if it does, so that it does not
\* inject a second one: the override of the blocking is undone on every way out
\* of L2, wherever NMIs arrive.  The exception is the case that XMHF warns of
\* ("NMI VMEXIT will be delayed"), an override as an NMI is to be injected.
L2BlockingKept ==
  vmcs12.exit # "none" /\ (guest_virtual_nmis \/ ~guest_nmi_exiting) /\ ~delayed
    => vmcs12.block = l2_blocks

Delivered == \/ vmcs01.entry = "l0" \/ vmcs02.entry = "l0"
             \/ where = "post1" /\ vmcs12.exit = "nmi"

Receptive == \/ where = "run1" /\ ~vmcs01.block
             \/ where = "run2" /\ ~vmcs02.block /\ (guest_nmi_exiting => ~guest_block_nmi)

\* An NMI kept for the guests is delivered if time and again a guest that may
\* take it runs with NMIs unblocked: it is not forgotten as the CPU goes from
\* L1 to L2 and back.
NmiDelivered == []<>Receptive => (guest_nmi_pending > 0 ~> Delivered \/ halt # "no")
=============================================================================
