------------------------------ MODULE SmpBoot ------------------------------
(***************************************************************************)
(* How the CPUs come up, how the guest's own INIT-SIPI-SIPI starts its     *)
(* APs, and how the CPUs go down: the rally of bplt-x86-smp.c, the barrier *)
(* of runtime.c, LAPIC interception and SIPI emulation of smpg-x86vmx.c,   *)
(* the INIT exit of peh-x86vmx-main.c and xmhf_runtime_shutdown.           *)
(*                                                                         *)
(* CPU 0 is the BSP; only its LAPIC page is intercepted.  at[c] is where a *)
(* CPU is.  A loop over g_midtable is one step per entry, in order, since  *)
(* the APs change what it looks at.                                        *)
(***************************************************************************)
EXTENDS Naturals, FiniteSetsExt

CONSTANTS
  N,           \* g_midtable_numentries
  ExtraInits,  \* the values of __EXTRA_AP_INIT_COUNT__ to consider
  Vector,      \* SIPI vectors the guest uses
  Reset        \* whether the chipset may send INITs of its own

\* With one CPU the LAPIC is not intercepted and no AP is started.
ASSUME NAssumption == N \in Nat \ {0, 1}
ASSUME ExtraInitsAssumption == ExtraInits \subseteq Nat
ASSUME ResetAssumption == Reset \in BOOLEAN

CPU == 0 .. N - 1
BSP == 0
AP == CPU \ {BSP}

\* What the guest writes to ICR.  "other" is any IPI but INIT and SIPI.
NoIpi == [kind |-> "none", dest |-> {}, vector |-> 0]
Ipi == [kind : {"init", "sipi", "other"}, dest : {{a} : a \in AP} \cup {AP},
        vector : Vector]

VARIABLES
  ExtraInit,               \* __EXTRA_AP_INIT_COUNT__ of this build, 0 if undefined
  at,
  g_cpus_active,
  g_ap_go_signal,
  g_appmain_success_counter,
  sipireceived,
  sipivector,
  extra_init_count,
  init_pending,            \* per CPU, an INIT the processor has yet to act on
  cs,                      \* per CPU, the vector its guest was started at
  expected,                \* per CPU, the vector of the SIPI that was accepted
  lapic,                   \* what the BSP's EPT maps the LAPIC page to
  icr,                     \* the IPI being processed
  todo,                    \* its destinations still to be served
  scan,                    \* loop variable of have_all_cores_recievedSIPI
  g_all_cores_booted_up,
  shutdown_count           \* count of xmhf_runtime_shutdown

startvars == <<g_cpus_active, g_ap_go_signal, g_appmain_success_counter>>
sipivars == <<sipireceived, sipivector, cs, expected>>
initvars == <<ExtraInit, extra_init_count, init_pending>>
icrvars == <<icr, todo, scan>>
lapicvars == <<lapic, g_all_cores_booted_up>>
vars == <<at, startvars, sipivars, initvars, icrvars, lapicvars, shutdown_count>>

Where == {"start", "rally", "appmain", "appmain_wait", "smpguest", "sipi_wait",
          "guest", "step", "init_send", "sipi_test", "sipi_flag", "scan_sipi",
          "scan_extra", "link", "delink", "init_clear", "init_wait",
          "shutdown", "down"}

Init ==
  /\ ExtraInit \in ExtraInits
  /\ at = [c \in CPU |-> "start"]
  /\ g_cpus_active = 0
  /\ g_ap_go_signal = 0
  /\ g_appmain_success_counter = 0
  /\ sipireceived = [c \in CPU |-> 0]
  /\ sipivector = [c \in CPU |-> 0]
  /\ extra_init_count = [c \in CPU |-> ExtraInit]
  /\ init_pending = [c \in CPU |-> FALSE]
  /\ cs = [c \in CPU |-> 0]
  /\ expected = [c \in CPU |-> 0]
  /\ lapic = "real"
  /\ icr = NoIpi
  /\ todo = {}
  /\ scan = 0
  /\ g_all_cores_booted_up = 0
  /\ shutdown_count = 0

Goto(c, from, to) == at[c] = from /\ at' = [at EXCEPT ![c] = to]

-----------------------------------------------------------------------------
(* Start of the hypervisor *)

\* Mutant: only the APs are counted.
RallyApOnly(c) ==
  /\ Goto(c, "start", "rally")
  /\ g_cpus_active' = g_cpus_active + (IF c = BSP THEN 0 ELSE 1)
  /\ UNCHANGED <<g_ap_go_signal, g_appmain_success_counter, sipivars, initvars, icrvars,
                 lapicvars, shutdown_count>>

\* smpinitialize_commonstart: count this CPU ...
Rally(c) ==
  /\ Goto(c, "start", "rally")
  /\ g_cpus_active' = g_cpus_active + 1
  /\ UNCHANGED <<g_ap_go_signal, g_appmain_success_counter, sipivars, initvars, icrvars,
                 lapicvars, shutdown_count>>

\* ... and wait: the BSP for all CPUs, an AP for the BSP's signal.
Proceed(c) ==
  /\ Goto(c, "rally", "appmain")
  /\ IF c = BSP THEN g_cpus_active >= N /\ g_ap_go_signal' = 1
                ELSE g_ap_go_signal = 1 /\ UNCHANGED g_ap_go_signal
  /\ UNCHANGED <<g_cpus_active, g_appmain_success_counter, sipivars, initvars, icrvars,
                 lapicvars, shutdown_count>>

\* Mutant: the BSP does not wait for the hypapp of the other CPUs.
AppMainNoWait(c) ==
  /\ Goto(c, "appmain", "smpguest")
  /\ g_appmain_success_counter' = g_appmain_success_counter + 1
  /\ UNCHANGED <<g_cpus_active, g_ap_go_signal, sipivars, initvars, icrvars, lapicvars,
                 shutdown_count>>

\* xmhf_runtime_main: the hypapp's main, then the BSP waits for all of them.
AppMain(c) ==
  /\ Goto(c, "appmain", IF c = BSP THEN "appmain_wait" ELSE "smpguest")
  /\ g_appmain_success_counter' = g_appmain_success_counter + 1
  /\ UNCHANGED <<g_cpus_active, g_ap_go_signal, sipivars, initvars, icrvars, lapicvars,
                 shutdown_count>>

AppMainWait(c) ==
  /\ Goto(c, "appmain_wait", "smpguest")
  /\ g_appmain_success_counter >= N
  /\ UNCHANGED <<startvars, sipivars, initvars, icrvars, lapicvars, shutdown_count>>

\* xmhf_smpguest_arch_initialize: the BSP unmaps its LAPIC page and starts the
\* guest, an AP waits for a SIPI.
SmpGuestInitialize(c) ==
  /\ Goto(c, "smpguest", IF c = BSP THEN "guest" ELSE "sipi_wait")
  /\ lapic' = IF c = BSP THEN "unmapped" ELSE lapic
  /\ UNCHANGED <<startvars, sipivars, initvars, icrvars, g_all_cores_booted_up,
                 shutdown_count>>

\* while (!sipireceived), then postCPUwakeup or guestVMCS_INIT.
SipiWakeup(c) ==
  /\ Goto(c, at[c], "guest")
  /\ at[c] \in {"sipi_wait", "init_wait"}
  /\ sipireceived[c] = 1
  /\ cs' = [cs EXCEPT ![c] = sipivector[c]]
  /\ UNCHANGED <<startvars, sipireceived, sipivector, expected, initvars, icrvars,
                 lapicvars, shutdown_count>>

-----------------------------------------------------------------------------
(* The guest on the BSP sends IPIs *)

\* eventhandler_hwpgtblviolation: the access faults and is single-stepped on
\* the virtual LAPIC page if it is to ICR, on the real one otherwise.
LapicAccess ==
  /\ Goto(BSP, "guest", "step")
  /\ lapic = "unmapped"
  /\ \/ lapic' = "virtual" /\ icr' \in Ipi
     \/ lapic' = "real" /\ icr' = NoIpi
  /\ UNCHANGED <<startvars, sipivars, initvars, todo, scan, g_all_cores_booted_up,
                 shutdown_count>>

\* eventhandler_dbexception: process a write to ICR.  Another IPI goes to the
\* physical LAPIC, as does an access to another register.  Processing an INIT
\* does nothing when __EXTRA_AP_INIT_COUNT__ is not defined.
DbException ==
  /\ Goto(BSP, "step", CASE icr.kind = "sipi" -> "sipi_test"
                         [] icr.kind = "init" /\ ExtraInit > 0 -> "init_send"
                         [] OTHER -> "link")
  /\ todo' = icr.dest
  /\ UNCHANGED <<startvars, sipivars, initvars, icr, scan, lapicvars, shutdown_count>>

\* eventhandler_x2apic_icrwrite: with x2APIC the same IPIs come as a WRMSR.
X2apicIcrWrite ==
  /\ \E ipi \in Ipi : /\ ipi.kind # "other"
                      /\ Goto(BSP, "guest",
                              IF ipi.kind = "sipi" THEN "sipi_test"
                              ELSE IF ExtraInit > 0 THEN "init_send" ELSE "link")
                      /\ icr' = ipi
                      /\ todo' = ipi.dest
  /\ g_all_cores_booted_up = 0
  /\ UNCHANGED <<startvars, sipivars, initvars, scan, lapicvars, shutdown_count>>

\* processINITcpu: a real INIT to a CPU that runs a guest, none to others.
ProcessInitCpu ==
  /\ at[BSP] = "init_send"
  /\ LET d == Min(todo) IN
       /\ init_pending' = [init_pending EXCEPT ![d] = @ \/ sipireceived[d] = 1]
       /\ todo' = todo \ {d}
  /\ at' = [at EXCEPT ![BSP] = IF todo' = {} THEN "link" ELSE @]
  /\ UNCHANGED <<startvars, sipivars, ExtraInit, extra_init_count, icr, scan, lapicvars,
                 shutdown_count>>

\* Mutant: the vector is not stored.
ProcessSipiCpuNoVector ==
  /\ at[BSP] = "sipi_test"
  /\ LET d == Min(todo) IN
       IF sipireceived[d] = 1
         THEN /\ todo' = todo \ {d}
              /\ at' = [at EXCEPT ![BSP] = IF todo' = {} THEN "scan_sipi" ELSE @]
              /\ UNCHANGED expected
         ELSE /\ expected' = [expected EXCEPT ![d] = icr.vector]
              /\ at' = [at EXCEPT ![BSP] = "sipi_flag"]
              /\ UNCHANGED todo
  /\ scan' = 0
  /\ UNCHANGED <<startvars, sipireceived, sipivector, cs, initvars, icr, lapicvars,
                 shutdown_count>>

\* processSIPIcpu: drop the SIPI if one was received, else note the vector ...
ProcessSipiCpu ==
  /\ at[BSP] = "sipi_test"
  /\ LET d == Min(todo) IN
       IF sipireceived[d] = 1
         THEN /\ todo' = todo \ {d}
              /\ at' = [at EXCEPT ![BSP] = IF todo' = {} THEN "scan_sipi" ELSE @]
              /\ UNCHANGED <<sipivector, expected>>
         ELSE /\ sipivector' = [sipivector EXCEPT ![d] = icr.vector]
              /\ expected' = [expected EXCEPT ![d] = icr.vector]
              /\ at' = [at EXCEPT ![BSP] = "sipi_flag"]
              /\ UNCHANGED todo
  /\ scan' = 0
  /\ UNCHANGED <<startvars, sipireceived, cs, initvars, icr, lapicvars, shutdown_count>>

\* Mutant: the loop over the destinations ends with the first it wakes.
ProcessSipiCpuFlagFirst ==
  /\ at[BSP] = "sipi_flag"
  /\ sipireceived' = [sipireceived EXCEPT ![Min(todo)] = 1]
  /\ todo' = {}
  /\ at' = [at EXCEPT ![BSP] = "scan_sipi"]
  /\ UNCHANGED <<startvars, sipivector, cs, expected, initvars, icr, scan, lapicvars,
                 shutdown_count>>

\* ... and then raise the flag the AP waits for.
ProcessSipiCpuFlag ==
  /\ at[BSP] = "sipi_flag"
  /\ LET d == Min(todo) IN
       /\ sipireceived' = [sipireceived EXCEPT ![d] = 1]
       /\ todo' = todo \ {d}
  /\ at' = [at EXCEPT ![BSP] = IF todo' = {} THEN "scan_sipi" ELSE "sipi_test"]
  /\ UNCHANGED <<startvars, sipivector, cs, expected, initvars, icr, scan, lapicvars,
                 shutdown_count>>

\* Mutant: the last CPU of the table is not looked at.
ScanSipiShort ==
  /\ at[BSP] = "scan_sipi"
  /\ IF scan = N - 1
       THEN at' = [at EXCEPT ![BSP] = "delink"] /\ UNCHANGED scan
       ELSE IF scan = BSP
       THEN scan' = scan + 1 /\ UNCHANGED at
       ELSE /\ at' = [at EXCEPT ![BSP] = IF sipireceived[scan] = 1 THEN "scan_extra"
                                                                   ELSE "link"]
            /\ UNCHANGED scan
  /\ UNCHANGED <<startvars, sipivars, initvars, icr, todo, lapicvars, shutdown_count>>

\* have_all_cores_recievedSIPI, at entry scan: BSP skipped, an AP must have its
\* SIPI ...
ScanSipi ==
  /\ at[BSP] = "scan_sipi"
  /\ IF scan = N
       THEN at' = [at EXCEPT ![BSP] = "delink"] /\ UNCHANGED scan
       ELSE IF scan = BSP
       THEN scan' = scan + 1 /\ UNCHANGED at
       ELSE /\ at' = [at EXCEPT ![BSP] = IF sipireceived[scan] = 1 THEN "scan_extra"
                                                                   ELSE "link"]
            /\ UNCHANGED scan
  /\ UNCHANGED <<startvars, sipivars, initvars, icr, todo, lapicvars, shutdown_count>>

\* ... and no INIT to come.
ScanExtra ==
  /\ Goto(BSP, "scan_extra", IF extra_init_count[scan] > 0 THEN "link" ELSE "scan_sipi")
  /\ scan' = scan + 1
  /\ UNCHANGED <<startvars, sipivars, initvars, icr, todo, lapicvars, shutdown_count>>

\* Mutant: the LAPIC page stays mapped after the single step.
LinkKeepMapped ==
  /\ Goto(BSP, "link", "guest")
  /\ icr' = NoIpi /\ todo' = {} /\ scan' = 0
  /\ UNCHANGED <<startvars, sipivars, initvars, lapicvars, shutdown_count>>

\* No SIPI, or some CPU still to come: keep intercepting.
Link ==
  /\ Goto(BSP, "link", "guest")
  /\ lapic' = "unmapped"
  /\ icr' = NoIpi /\ todo' = {} /\ scan' = 0
  /\ UNCHANGED <<startvars, sipivars, initvars, g_all_cores_booted_up, shutdown_count>>

\* xmhf_smpguest_arch_x86vmx_delink_lapic
DelinkLapic ==
  /\ Goto(BSP, "delink", "guest")
  /\ lapic' = "real"
  /\ g_all_cores_booted_up' = 1
  /\ icr' = NoIpi /\ todo' = {} /\ scan' = 0
  /\ UNCHANGED <<startvars, sipivars, initvars, shutdown_count>>

-----------------------------------------------------------------------------
(* INIT on a CPU that runs the guest *)

\* An INIT that no interception sees: the chipset's, at a reset.
ResetInit(c) ==
  /\ Reset
  /\ at[c] = "guest"
  /\ init_pending' = [init_pending EXCEPT ![c] = TRUE]
  /\ UNCHANGED <<at, startvars, sipivars, ExtraInit, extra_init_count, icrvars, lapicvars,
                 shutdown_count>>

\* Mutant: every INIT is taken for a boot.
InitExitAlways(c) ==
  /\ at[c] \in {"guest", "step"}
  /\ init_pending[c]
  /\ init_pending' = [init_pending EXCEPT ![c] = FALSE]
  /\ extra_init_count' = [extra_init_count EXCEPT ![c] = @ - 1]
  /\ at' = [at EXCEPT ![c] = "init_clear"]
  /\ UNCHANGED <<startvars, sipivars, ExtraInit, icrvars, lapicvars, shutdown_count>>

\* VMX_VMEXIT_INIT: one of the INITs that boot the AP again, or a shutdown.
\* xmhf_runtime_shutdown begins by counting the CPU.
InitExit(c) ==
  /\ at[c] \in {"guest", "step"}
  /\ init_pending[c]
  /\ init_pending' = [init_pending EXCEPT ![c] = FALSE]
  /\ IF extra_init_count[c] > 0
       THEN /\ extra_init_count' = [extra_init_count EXCEPT ![c] = @ - 1]
            /\ at' = [at EXCEPT ![c] = "init_clear"]
            /\ UNCHANGED shutdown_count
       ELSE /\ at' = [at EXCEPT ![c] = "shutdown"]
            /\ shutdown_count' = shutdown_count + 1
            /\ UNCHANGED extra_init_count
  /\ UNCHANGED <<startvars, sipivars, ExtraInit, icrvars, lapicvars>>

InitClear(c) ==
  /\ Goto(c, "init_clear", "init_wait")
  /\ sipireceived' = [sipireceived EXCEPT ![c] = 0]
  /\ UNCHANGED <<startvars, sipivector, cs, expected, initvars, icrvars, lapicvars,
                 shutdown_count>>

\* Mutant: the barrier lets the last but one CPU through.
ShutdownEarly(c) ==
  /\ Goto(c, "shutdown", "down")
  /\ shutdown_count >= N - 1
  /\ UNCHANGED <<startvars, sipivars, initvars, icrvars, lapicvars, shutdown_count>>

\* The barrier of xmhf_runtime_shutdown, then the hypapp's shutdown handler.
Shutdown(c) ==
  /\ Goto(c, "shutdown", "down")
  /\ shutdown_count >= N
  /\ UNCHANGED <<startvars, sipivars, initvars, icrvars, lapicvars, shutdown_count>>

-----------------------------------------------------------------------------
\* What the hypervisor does on CPU c.
HypervisorStep(c) ==
  \/ Rally(c) \/ Proceed(c) \/ AppMain(c) \/ AppMainWait(c)
  \/ SmpGuestInitialize(c) \/ SipiWakeup(c)
  \/ InitExit(c) \/ InitClear(c) \/ Shutdown(c)
  \/ /\ c = BSP
     /\ \/ DbException \/ ProcessInitCpu \/ ProcessSipiCpu \/ ProcessSipiCpuFlag
        \/ ScanSipi \/ ScanExtra \/ Link \/ DelinkLapic

\* What the guest and the chipset do.
GuestStep == LapicAccess \/ X2apicIcrWrite \/ \E c \in CPU : ResetInit(c)

Next == GuestStep \/ \E c \in CPU : HypervisorStep(c)

Spec == Init /\ [][Next]_vars

\* A CPU in the hypervisor keeps executing; the guest owes nothing.
FairSpec == Spec /\ \A c \in CPU : WF_vars(HypervisorStep(c))

-----------------------------------------------------------------------------
(* Properties *)

\* Type correctness of the per-CPU and global boot state; in particular
\* extra_init_count (a u32 the INIT exit decrements) never wraps below zero.
TypeOK ==
  /\ ExtraInit \in ExtraInits
  /\ at \in [CPU -> Where]
  /\ {g_cpus_active, g_appmain_success_counter, shutdown_count, scan} \subseteq 0 .. N
  /\ {g_ap_go_signal, g_all_cores_booted_up} \subseteq {0, 1}
  /\ sipireceived \in [CPU -> {0, 1}]
  /\ {sipivector, cs, expected} \subseteq [CPU -> Vector \cup {0}]
  /\ extra_init_count \in [CPU -> 0 .. ExtraInit]
  /\ init_pending \in [CPU -> BOOLEAN]
  /\ lapic \in {"real", "virtual", "unmapped"}
  /\ icr \in Ipi \cup {NoIpi}
  /\ todo \subseteq AP

\* No CPU runs guest code before the hypapp's main has succeeded on every CPU
\* (runtime.c: the BSP waits for the counter, the APs only for a SIPI that the
\* BSP's guest has to send).
GuestAfterAppMain ==
  (\E c \in CPU : at[c] \in {"guest", "step"})
    => \A c \in CPU : at[c] \notin {"start", "rally", "appmain"}

\* An AP runs at the vector of the SIPI that was accepted for it, also when it
\* is started a second time: processSIPIcpu stores the vector before it raises
\* the flag, drops SIPIs while the flag is up, and only the AP lowers the flag.
StartsAtAcceptedVector ==
  \A a \in AP : at[a] = "guest" => cs[a] = expected[a] /\ cs[a] \in Vector

\* Until interception is given up the BSP's guest never runs with the LAPIC
\* page mapped, except for the instruction that is single-stepped: no SIPI can
\* pass the hypervisor unseen (dbexception unmaps the page again).
InterceptionHolds ==
  at[BSP] = "guest" /\ g_all_cores_booted_up = 0 => lapic = "unmapped"

\* Interception is given up only when every AP has its SIPI, and none waits
\* for one that would no longer be seen (have_all_cores_recievedSIPI and
\* delink_lapic against the INIT exit of the APs).
NoApForgotten ==
  g_all_cores_booted_up = 1
    => \A a \in AP : at[a] # "init_clear" /\ sipireceived[a] = 1

\* In the default build, where an AP is started once, no AP is forgotten: the
\* scan needs no protection from the INIT exit there.
NoApForgottenByDefault == ExtraInit = 0 => NoApForgotten

\* The hypapp's shutdown handler runs on a CPU only once no CPU runs the guest
\* any more (the barrier of xmhf_runtime_shutdown).
ShutdownTogether ==
  \A c \in CPU : at[c] = "down" => \A d \in CPU : at[d] \in {"shutdown", "down"}

\* All CPUs meet at the start-up barriers and the BSP gets to start the guest:
\* neither the rally nor the wait for the hypapps can hang.
BootCompletes == <>(at[BSP] = "guest")

\* Without extra INITs every AP a SIPI is addressed to gets to run the guest,
\* whatever the guest sends afterwards.
SipiStartsAp ==
  \A a \in AP : (ExtraInit = 0 /\ at[BSP] = "sipi_test" /\ a \in todo)
                ~> at[a] \in {"guest", "shutdown", "down"}

=============================================================================
