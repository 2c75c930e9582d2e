------------------------------ MODULE GuestNmi ------------------------------
(***************************************************************************)
(* How one CPU passes NMIs on to its guest: the critical section of the    *)
(* intercept handler (mhv_nmi_disable / mhv_nmi_enable), the count of NMIs *)
(* kept for the guest, the NMI-window exit, the blocking a hypapp asks for *)
(* and the single step over a LAPIC access (smpg-x86vmx.c and the event    *)
(* hub, peh-x86vmx-main.c).                                                *)
(*                                                                         *)
(* The hardware VMCS (hw) and its copy vcpu->vmcs (copy) are two records   *)
(* of the three fields that matter.  The intercept handler works on the    *)
(* copy, the NMI interrupt handler on the hardware: that they never        *)
(* overwrite each other's work is what the critical section is for.        *)
(* NMIs sent to quiesce the CPU do not get this far (module Quiesce).      *)
(***************************************************************************)
EXTENDS Naturals

CONSTANTS
  Lapics,      \* the values lapic may have, a set of Booleans
  MaxVisited   \* bound: no further NMI arrives beyond this count

ASSUME LapicsAssumption == Lapics \subseteq BOOLEAN
ASSUME MaxVisitedAssumption == MaxVisited \in Nat \ {0}

VARIABLES
  lapic,                  \* this is the BSP and its LAPIC page is still intercepted
  at,                     \* where the CPU is
  reason,                 \* why the guest exited, set while at # "guest"
  hw,                     \* the hardware VMCS
  copy,                   \* vcpu->vmcs
  nmi_latched,            \* an NMI the processor has yet to deliver
  host_blocked,           \* the processor blocks NMIs (an NMI caused the exit)
  vmx_mhv_nmi_enable,
  vmx_mhv_nmi_visited,
  guest_nmi_block,
  guest_nmi_pending,
  stepping,               \* the guest single-steps over a LAPIC access
  nmimask                 \* g_vmx_lapic_guest_intr_nmimask

vmcsvars == <<hw, copy>>
mhvvars == <<vmx_mhv_nmi_enable, vmx_mhv_nmi_visited>>
cfgvars == <<guest_nmi_block, guest_nmi_pending>>
lapicvars == <<lapic, stepping, nmimask>>
procvars == <<nmi_latched, host_blocked>>
vars == <<at, reason, vmcsvars, mhvvars, cfgvars, lapicvars, procvars>>

\* block_nmi: "blocking by NMI" in guest_interruptibility; entry_nmi: the
\* VM-entry interruption information injects an NMI; window: NMI-window exiting.
Vmcs == [block_nmi : BOOLEAN, entry_nmi : BOOLEAN, window : BOOLEAN]

Where == {"guest", "exit", "get", "handle", "put", "enable", "while", "dec", "off",
          "inject", "on", "entry", "halted"}
Reasons == {"none", "nmi", "nmi_window", "hypapp_block", "hypapp_unblock",
            "lapic_access", "db", "other"}

Init ==
  /\ lapic \in Lapics
  /\ at = "guest"
  /\ reason = "none"
  /\ hw = [block_nmi |-> FALSE, entry_nmi |-> FALSE, window |-> FALSE]
  /\ copy = hw
  /\ nmi_latched = FALSE
  /\ host_blocked = FALSE
  /\ vmx_mhv_nmi_enable = TRUE
  /\ vmx_mhv_nmi_visited = 0
  /\ guest_nmi_block = FALSE
  /\ guest_nmi_pending = 0
  /\ stepping = FALSE
  /\ nmimask = FALSE

-----------------------------------------------------------------------------
(* The processor and the guest *)

DeviceNmi ==
  /\ ~nmi_latched
  /\ vmx_mhv_nmi_visited < MaxVisited
  /\ nmi_latched' = TRUE
  /\ UNCHANGED <<at, reason, vmcsvars, mhvvars, cfgvars, lapicvars, host_blocked>>

Exit(why) ==
  /\ at = "guest"
  /\ at' = "exit"
  /\ reason' = why
  /\ UNCHANGED <<vmcsvars, mhvvars, cfgvars, lapicvars>>

\* The window is open: the exit comes before the guest's next instruction
\* and before an NMI.
WindowOpen == hw.window /\ ~hw.block_nmi

NmiExit ==
  /\ Exit("nmi")
  /\ ~WindowOpen
  /\ nmi_latched
  /\ nmi_latched' = FALSE
  /\ host_blocked' = TRUE

NmiWindowExit ==
  /\ Exit("nmi_window")
  /\ WindowOpen
  /\ UNCHANGED procvars

\* A hypercall on which the hypapp starts or ends a PAL, or any other exit.
OtherExit ==
  /\ ~WindowOpen
  /\ ~stepping
  /\ \/ Exit("other")
     \/ ~guest_nmi_block /\ Exit("hypapp_block")
     \/ guest_nmi_block /\ Exit("hypapp_unblock")
  /\ UNCHANGED procvars

\* The guest touches the LAPIC page while it is intercepted.  A PAL does not
\* have that page.
LapicExit ==
  /\ lapic
  /\ ~WindowOpen
  /\ ~stepping
  /\ ~guest_nmi_block
  /\ Exit("lapic_access")
  /\ UNCHANGED procvars

DbExit ==
  /\ stepping
  /\ Exit("db")
  /\ UNCHANGED procvars

GuestIret ==
  /\ at = "guest"
  /\ ~stepping
  /\ hw.block_nmi
  /\ hw' = [hw EXCEPT !.block_nmi = FALSE]
  /\ UNCHANGED <<at, reason, copy, mhvvars, cfgvars, lapicvars, procvars>>

\* VM entry delivers the NMI to inject, which blocks further ones.  It fails,
\* and the hypervisor halts, if NMIs are blocked at that time.
VmEntry ==
  /\ at = "entry"
  /\ IF hw.entry_nmi /\ hw.block_nmi
       THEN at' = "halted" /\ UNCHANGED hw
       ELSE /\ at' = "guest"
            /\ hw' = [hw EXCEPT !.block_nmi = @ \/ hw.entry_nmi, !.entry_nmi = FALSE]
  /\ reason' = "none"
  /\ UNCHANGED <<copy, mhvvars, cfgvars, lapicvars, procvars>>

-----------------------------------------------------------------------------
(* Passing an NMI on *)

\* xmhf_smpguest_arch_x86vmx_update_nmi_window_exiting
update_nmi_window_exiting(vmcs, block, pending) ==
  [vmcs EXCEPT !.window = ~block /\ pending > 0]

\* Mutant: the NMI about to be injected is not counted as blocking.
nmi_pending_limit_no_entry == IF hw.block_nmi THEN 1 ELSE 2

nmi_pending_limit == IF hw.block_nmi \/ hw.entry_nmi THEN 1 ELSE 2

\* Mutant: the count is not limited.
inject_nmi_unlimited(to) ==
  /\ at' = to
  /\ guest_nmi_pending' = guest_nmi_pending + 1
  /\ hw' = update_nmi_window_exiting(hw, guest_nmi_block, guest_nmi_pending')

\* xmhf_smpguest_arch_x86vmx_inject_nmi, going on at "to".
inject_nmi(to) ==
  IF guest_nmi_pending > nmi_pending_limit
    THEN at' = "halted" /\ UNCHANGED <<hw, guest_nmi_pending>>
    ELSE /\ at' = to
         /\ guest_nmi_pending' =
              IF guest_nmi_pending < nmi_pending_limit THEN guest_nmi_pending + 1
                                                       ELSE guest_nmi_pending
         /\ hw' = update_nmi_window_exiting(hw, guest_nmi_block, guest_nmi_pending')

\* Mutant: the NMI handler does not look at vmx_mhv_nmi_enable.
NmiInterruptAlways ==
  /\ at \notin {"guest", "halted"}
  /\ nmi_latched
  /\ ~host_blocked
  /\ nmi_latched' = FALSE
  /\ inject_nmi(at)
  /\ UNCHANGED <<reason, copy, mhvvars, guest_nmi_block, lapicvars, host_blocked>>

\* xmhf_smpguest_arch_x86vmx_eventhandler_nmiexception with from_guest = 0: the
\* NMI interrupts the hypervisor.  The main thread sees it as one step.
NmiInterrupt ==
  /\ at \notin {"guest", "halted"}
  /\ nmi_latched
  /\ ~host_blocked
  /\ nmi_latched' = FALSE
  /\ IF vmx_mhv_nmi_enable
       THEN inject_nmi(at) /\ UNCHANGED vmx_mhv_nmi_visited
       ELSE /\ vmx_mhv_nmi_visited' = vmx_mhv_nmi_visited + 1
            /\ UNCHANGED <<at, hw, guest_nmi_pending>>
  /\ UNCHANGED <<reason, copy, vmx_mhv_nmi_enable, guest_nmi_block, lapicvars,
                 host_blocked>>

-----------------------------------------------------------------------------
(* xmhf_parteventhub_arch_x86vmx_intercept_handler *)

\* HALT_ON_ERRORCOND(ok), go on at "to" otherwise.
Assert(ok, to) == at' = IF ok THEN to ELSE "halted"

\* xmhf_smpguest_arch_x86vmx_mhv_nmi_disable
NmiDisable ==
  /\ at = "exit"
  /\ Assert(vmx_mhv_nmi_enable, "get")
  /\ vmx_mhv_nmi_enable' = FALSE
  /\ UNCHANGED <<reason, vmcsvars, vmx_mhv_nmi_visited, cfgvars, lapicvars, procvars>>

GetVmcs ==
  /\ at = "get"
  /\ at' = "handle"
  /\ copy' = hw
  /\ UNCHANGED <<reason, hw, mhvvars, cfgvars, lapicvars, procvars>>

\* eventhandler_nmiexception with from_guest = 1: the critical section is
\* active, so count the NMI; then unblock_nmi.
HandleNmi ==
  /\ at = "handle" /\ reason = "nmi"
  /\ at' = "put"
  /\ vmx_mhv_nmi_visited' = vmx_mhv_nmi_visited + 1
  /\ host_blocked' = FALSE
  /\ UNCHANGED <<reason, vmcsvars, vmx_mhv_nmi_enable, cfgvars, lapicvars, nmi_latched>>

\* Mutant: the injected NMI stays counted.
HandleNmiWindowKeep ==
  /\ at = "handle" /\ reason = "nmi_window"
  /\ Assert(guest_nmi_pending > 0 /\ copy.window, "put")
  /\ copy' = update_nmi_window_exiting([copy EXCEPT !.entry_nmi = TRUE],
                                       guest_nmi_block, guest_nmi_pending)
  /\ UNCHANGED <<reason, hw, mhvvars, cfgvars, lapicvars, procvars>>

HandleNmiWindow ==
  /\ at = "handle" /\ reason = "nmi_window"
  /\ Assert(guest_nmi_pending > 0 /\ copy.window, "put")
  /\ guest_nmi_pending' = guest_nmi_pending - 1
  /\ copy' = update_nmi_window_exiting([copy EXCEPT !.entry_nmi = TRUE],
                                       guest_nmi_block, guest_nmi_pending')
  /\ UNCHANGED <<reason, hw, mhvvars, guest_nmi_block, lapicvars, procvars>>

\* xmhf_smpguest_arch_x86vmx_nmi_block and nmi_unblock, called by the hypapp.
HandleNmiBlock ==
  /\ at = "handle" /\ reason \in {"hypapp_block", "hypapp_unblock"}
  /\ Assert(~vmx_mhv_nmi_enable, "put")
  /\ guest_nmi_block' = (reason = "hypapp_block")
  /\ copy' = update_nmi_window_exiting(copy, guest_nmi_block', guest_nmi_pending)
  /\ UNCHANGED <<reason, hw, mhvvars, guest_nmi_pending, lapicvars, procvars>>

\* eventhandler_hwpgtblviolation: single-step the access with NMIs blocked.
HandleLapicAccess ==
  /\ at = "handle" /\ reason = "lapic_access"
  /\ at' = "put"
  /\ stepping' = TRUE
  /\ nmimask' = copy.block_nmi
  /\ copy' = [copy EXCEPT !.block_nmi = TRUE]
  /\ UNCHANGED <<reason, hw, mhvvars, cfgvars, lapic, procvars>>

\* Mutant: NMIs are unblocked after the step instead of restored.
HandleDbUnblock ==
  /\ at = "handle" /\ reason = "db"
  /\ at' = "put"
  /\ stepping' = FALSE
  /\ copy' = [copy EXCEPT !.block_nmi = FALSE]
  /\ UNCHANGED <<reason, hw, mhvvars, cfgvars, lapic, nmimask, procvars>>

\* eventhandler_dbexception: restore the blocking found before the step.
HandleDb ==
  /\ at = "handle" /\ reason = "db"
  /\ at' = "put"
  /\ stepping' = FALSE
  /\ copy' = [copy EXCEPT !.block_nmi = nmimask]
  /\ UNCHANGED <<reason, hw, mhvvars, cfgvars, lapic, nmimask, procvars>>

HandleOther ==
  /\ at = "handle" /\ reason = "other"
  /\ at' = "put"
  /\ UNCHANGED <<reason, vmcsvars, mhvvars, cfgvars, lapicvars, procvars>>

PutVmcs ==
  /\ at = "put"
  /\ at' = "enable"
  /\ hw' = copy
  /\ UNCHANGED <<reason, copy, mhvvars, cfgvars, lapicvars, procvars>>

(* xmhf_smpguest_arch_x86vmx_mhv_nmi_enable *)

NmiEnable ==
  /\ at = "enable"
  /\ Assert(~vmx_mhv_nmi_enable, "while")
  /\ vmx_mhv_nmi_enable' = TRUE
  /\ UNCHANGED <<reason, vmcsvars, vmx_mhv_nmi_visited, cfgvars, lapicvars, procvars>>

\* Mutant: off by one in the test for counted NMIs.
NmiEnableTestOne ==
  /\ at = "while"
  /\ at' = IF vmx_mhv_nmi_visited > 1 THEN "dec" ELSE "entry"
  /\ UNCHANGED <<reason, vmcsvars, mhvvars, cfgvars, lapicvars, procvars>>

NmiEnableTest ==
  /\ at = "while"
  /\ IF vmx_mhv_nmi_visited > 0 THEN at' = "dec" ELSE Assert(vmx_mhv_nmi_enable, "entry")
  /\ UNCHANGED <<reason, vmcsvars, mhvvars, cfgvars, lapicvars, procvars>>

NmiEnableDec ==
  /\ at = "dec"
  /\ at' = "off"
  /\ vmx_mhv_nmi_visited' = vmx_mhv_nmi_visited - 1
  /\ UNCHANGED <<reason, vmcsvars, vmx_mhv_nmi_enable, cfgvars, lapicvars, procvars>>

NmiEnableOff ==
  /\ at = "off"
  /\ at' = "inject"
  /\ vmx_mhv_nmi_enable' = FALSE
  /\ UNCHANGED <<reason, vmcsvars, vmx_mhv_nmi_visited, cfgvars, lapicvars, procvars>>

NmiEnableInject ==
  /\ at = "inject"
  /\ inject_nmi("on")
  /\ UNCHANGED <<reason, copy, mhvvars, guest_nmi_block, lapicvars, procvars>>

NmiEnableOn ==
  /\ at = "on"
  /\ at' = "while"
  /\ vmx_mhv_nmi_enable' = TRUE
  /\ UNCHANGED <<reason, vmcsvars, vmx_mhv_nmi_visited, cfgvars, lapicvars, procvars>>

-----------------------------------------------------------------------------

HypervisorStep ==
  \/ NmiDisable \/ GetVmcs \/ PutVmcs \/ VmEntry
  \/ HandleNmi \/ HandleNmiWindow \/ HandleNmiBlock \/ HandleLapicAccess
  \/ HandleDb \/ HandleOther
  \/ NmiEnable \/ NmiEnableTest \/ NmiEnableDec \/ NmiEnableOff
  \/ NmiEnableInject \/ NmiEnableOn

GuestStep == OtherExit \/ LapicExit \/ GuestIret

Next == \/ HypervisorStep \/ GuestStep \/ DbExit \/ DeviceNmi
        \/ NmiExit \/ NmiWindowExit \/ NmiInterrupt

Spec == Init /\ [][Next]_vars

\* The hypervisor keeps running, the processor delivers NMIs and opened
\* windows, and a single step ends.  The guest may do what it likes.
FairSpec == /\ Spec
            /\ WF_vars(HypervisorStep)
            /\ WF_vars(NmiWindowExit)
            /\ WF_vars(DbExit)
            /\ SF_vars(NmiExit \/ NmiInterrupt)

-----------------------------------------------------------------------------

\* Type correctness; in particular no more than two NMIs are ever kept for the
\* guest, whatever arrives while it cannot take them (inject_nmi).
TypeOK ==
  /\ lapic \in BOOLEAN
  /\ at \in Where
  /\ reason \in Reasons
  /\ hw \in Vmcs
  /\ copy \in Vmcs
  /\ nmi_latched \in BOOLEAN
  /\ host_blocked \in BOOLEAN
  /\ vmx_mhv_nmi_enable \in BOOLEAN
  /\ vmx_mhv_nmi_visited \in 0 .. MaxVisited + 1
  /\ guest_nmi_block \in BOOLEAN
  /\ guest_nmi_pending \in 0 .. 2
  /\ stepping \in BOOLEAN
  /\ nmimask \in BOOLEAN

\* No assertion fires and no VM entry fails: the count of kept NMIs respects
\* the limit in force whenever an NMI is added, an NMI window finds an NMI to
\* inject, and an NMI is never injected into a guest that blocks NMIs.
NeverHalts == at # "halted"

\* The single step over a LAPIC access, which blocks NMIs behind the back of
\* the count, is the only thing that can make those assertions fire.
OnlyLapicHalts == ~lapic => NeverHalts

\* When the guest runs, the hardware's NMI-window bit tells whether there is
\* an NMI to pass on and the hypapp allows it, and no NMI is left counted but
\* unprocessed.  An update of the hardware VMCS lost to putVMCS, or an NMI
\* that slips in behind the loop of mhv_nmi_enable, would break this.
WindowArmed ==
  at = "guest" => /\ hw.window = (guest_nmi_pending > 0 /\ ~guest_nmi_block)
                  /\ vmx_mhv_nmi_visited = 0
                  /\ vmx_mhv_nmi_enable

\* Whether the guest is in its NMI handler or about to enter it, under the
\* blocking the single step adds.
GuestBlocked ==
  IF stepping THEN nmimask
  ELSE LET vmcs == IF at = "put" THEN copy ELSE hw
       IN  vmcs.block_nmi \/ vmcs.entry_nmi

VN == INSTANCE VirtualNmi WITH waiting <- guest_nmi_pending, blocked <- GuestBlocked

\* The guest sees NMIs as on a bare processor, whatever exits, hypapp
\* requests and LAPIC accesses happen in between.
ImplementsVirtualNmi == VN!Spec

\* Only the guest's own IRET ends the blocking of NMIs: no intercept handler,
\* in particular not the single step over a LAPIC access made inside the
\* guest's NMI handler, opens the guest to a nested NMI.
OnlyIretUnblocks == [][GuestBlocked /\ ~GuestBlocked' => GuestIret]_vars

Receptive == at = "guest" /\ ~hw.block_nmi /\ ~guest_nmi_block

\* An NMI the processor received reaches the guest if time and again the
\* guest runs with NMIs unblocked: none is forgotten in vmx_mhv_nmi_visited by
\* the loop of mhv_nmi_enable, or in guest_nmi_pending.
NmiReachesGuest == []<>Receptive => (nmi_latched ~> hw.entry_nmi)
=============================================================================
