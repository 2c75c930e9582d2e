------------------------------- MODULE Quiesce -------------------------------
(***************************************************************************)
(* Stopping all other CPUs with NMIs and letting them go again             *)
(* (xmhf-smpguest/arch/x86/vmx/smpg-x86vmx.c), together with what it       *)
(* interacts with: the EPT lock, the printf line lock, the TLB shootdown   *)
(* and NMIs that devices raise for the guest.                              *)
(*                                                                         *)
(* A CPU has a main thread (guest and VM exit handlers), at qpc[c], and an *)
(* NMI handler, at npc[c], that runs on top of it: the main thread stands  *)
(* still while npc[c] # "none".  The processor keeps one further NMI       *)
(* latched while a handler runs, and delivers it after the IRET.           *)
(*                                                                         *)
(* The globals g_vmx_... of smpg-x86vmx-data.c are the fields of g.  A     *)
(* critical section "spin_lock(l); x = ..; spin_unlock(l)" on a counter or *)
(* the resume signal is one step: these locks guard nothing else, and their *)
(* holders are not stopped inside.                                         *)
(***************************************************************************)
EXTENDS EptLock, Integers

CONSTANT MaxDeviceNmi   \* bound: NMIs that devices raise

ASSUME MaxDeviceNmiAssumption == MaxDeviceNmi \in Nat

VARIABLES
  qpc,           \* per CPU, position of the main thread
  npc,           \* per CPU, position of the NMI handler
  printing,      \* per CPU, position of the main thread in printf
  quiesced,      \* vcpu->quiesced
  g,             \* the shared variables
  stale,         \* CPUs whose TLB may hold EPT entries now changed
  nmi_latched,   \* per CPU, an NMI the processor has yet to deliver
  device_nmi,    \* number of NMIs devices have raised
  owed,          \* per CPU, NMIs devices raised for it less those passed on
  merged         \* per CPU, NMIs that came when one was latched already

nmivars == <<nmi_latched, device_nmi, owed, merged>>
qvars == <<qpc, npc, printing, quiesced, g, stale, nmivars>>
vars == <<eptvars, qvars>>

MainPc ==
  {"run", "halted",
   "q_spin", "q_wlock", "q_mark", "q_count", "q_set", "q_send", "q_wait",
   "q_punlock", "q_wunlock",
   "app", "app_flush", "app_done",
   "e_resumecount", "e_signal", "e_wait", "e_unmark", "e_unsignal", "e_unflush",
   "e_unlock"}

HandlerPc == {"none", "n_check", "n_mark", "n_count", "n_wait", "n_flush",
              "n_resumecount", "n_unmark", "n_inject"}

\* A spin lock word is 1 when free; linelock is emhfc_putchar_linelock_spinlock.
Globals == [lock_quiesce : {0, 1}, linelock : {0, 1}, quiesce : {0, 1},
            quiesce_counter : 0 .. N - 1, quiesce_resume_counter : 0 .. N - 1,
            quiesce_resume_signal : {0, 1}, flush_all_tlb_signal : {0, 1}]

Init ==
  /\ EptInit
  /\ qpc = [c \in CPU |-> "run"]
  /\ npc = [c \in CPU |-> "none"]
  /\ printing = [c \in CPU |-> "no"]
  /\ quiesced = [c \in CPU |-> 0]
  /\ g = [lock_quiesce |-> 1, linelock |-> 1, quiesce |-> 0,
          quiesce_counter |-> 0, quiesce_resume_counter |-> 0,
          quiesce_resume_signal |-> 0, flush_all_tlb_signal |-> 0]
  /\ stale = {}
  /\ nmi_latched = [c \in CPU |-> FALSE]
  /\ device_nmi = 0
  /\ owed = [c \in CPU |-> 0]
  /\ merged = [c \in CPU |-> 0]

-----------------------------------------------------------------------------
(* printf and software walks of the EPT *)

\* printf holds the line lock for a whole line.  VM exit handlers print, also
\* inside a software walk (EU_CHK), and so does the hypapp.
PrintfMove(c, from, to, linelock) ==
  /\ npc[c] = "none"
  /\ printing[c] = from
  /\ printing' = [printing EXCEPT ![c] = to]
  /\ g' = [g EXCEPT !.linelock = linelock]
  /\ UNCHANGED <<eptvars, qpc, npc, quiesced, stale, nmivars>>

Printf(c) ==
  /\ \/ qpc[c] = "run" /\ pc[c] \in {"idle", "r_held"}
     \/ qpc[c] = "app"
  /\ PrintfMove(c, "no", "wait", g.linelock)

PrintfLock(c) == g.linelock = 1 /\ PrintfMove(c, "wait", "hold", 0)

PrintfUnlock(c) == PrintfMove(c, "hold", "no", 1)

\* The main thread of c can take its next step outside printf.
Main(c) == npc[c] = "none" /\ printing[c] = "no"

\* A VM exit handler that walks the EPT in software.
Walk(c) ==
  /\ Main(c)
  /\ qpc[c] = "run"
  /\ ReadLock(c) \/ ReadStep(c)
  /\ UNCHANGED qvars

-----------------------------------------------------------------------------
(* xmhf_smpguest_arch_x86vmx_quiesce *)

Move(c, from, to) ==
  /\ Main(c)
  /\ qpc[c] = from
  /\ qpc' = [qpc EXCEPT ![c] = to]
  /\ UNCHANGED <<npc, printing>>

\* A step that only moves on and changes shared variables.
Step(c, from, to, globals) ==
  /\ Move(c, from, to)
  /\ g' = globals
  /\ UNCHANGED <<eptvars, quiesced, stale, nmivars>>

Mark(c, from, to, value) ==
  /\ Move(c, from, to)
  /\ quiesced' = [quiesced EXCEPT ![c] = value]
  /\ UNCHANGED <<eptvars, g, stale, nmivars>>

Quiesce(c) == pc[c] = "idle" /\ Step(c, "run", "q_spin", g)

QuiesceSpin(c) ==
  /\ g.lock_quiesce = 1
  /\ Move(c, "q_spin", "q_wlock")
  /\ g' = [g EXCEPT !.lock_quiesce = 0]
  /\ WriteLock(c)
  /\ UNCHANGED <<quiesced, stale, nmivars>>

QuiesceEptLock(c) ==
  /\ Main(c)
  /\ \/ qpc[c] = "q_wlock" /\ pc[c] # "w_held"
     \/ qpc[c] = "q_wunlock"
  /\ WriteStep(c)
  /\ UNCHANGED qvars

\* Mutant: the other CPUs are stopped without the line lock in hand.
QuiesceNoLineLock(c) == pc[c] = "w_held" /\ Step(c, "q_wlock", "q_mark", g)

QuiesceLineLock(c) ==
  /\ pc[c] = "w_held"
  /\ g.linelock = 1
  /\ Step(c, "q_wlock", "q_mark", [g EXCEPT !.linelock = 0])

QuiesceMark(c) == Mark(c, "q_mark", "q_count", 1)

\* Mutant: the count of an earlier quiesce is kept.
QuiesceKeepCount(c) == Step(c, "q_count", "q_set", g)

QuiesceCount(c) == Step(c, "q_count", "q_set", [g EXCEPT !.quiesce_counter = 0])

QuiesceSet(c) == Step(c, "q_set", "q_send", [g EXCEPT !.quiesce = 1])

\* _vmx_send_quiesce_signal: an NMI to all but self.  Where a device's NMI is
\* already latched the processor keeps one of the two: the handler stops for
\* it, and the guest does not get the device's.
QuiesceSend(c) ==
  /\ Move(c, "q_send", "q_wait")
  /\ nmi_latched' = [d \in CPU |-> d # c \/ nmi_latched[d]]
  /\ merged' = [d \in CPU |-> IF d # c /\ nmi_latched[d] THEN merged[d] + 1 ELSE merged[d]]
  /\ UNCHANGED <<eptvars, quiesced, g, stale, device_nmi, owed>>

\* Mutant: one CPU is left out of the wait.
QuiesceWaitShort(c) == g.quiesce_counter >= N - 2 /\ Step(c, "q_wait", "q_punlock", g)

QuiesceWait(c) == g.quiesce_counter >= N - 1 /\ Step(c, "q_wait", "q_punlock", g)

QuiesceLineUnlock(c) == Step(c, "q_punlock", "q_wunlock", [g EXCEPT !.linelock = 1])

QuiesceReturn(c) == pc[c] = "idle" /\ Step(c, "q_wunlock", "app", g)

-----------------------------------------------------------------------------
(* The hypapp, between quiesce and endquiesce *)

\* The hypapp changes EPT entries of any CPU, then asks for a shootdown.
AppChangeEpt(c) ==
  /\ Move(c, "app", "app_flush")
  /\ stale' = CPU
  /\ UNCHANGED <<eptvars, quiesced, g, nmivars>>

\* Mutant: only the own TLB is flushed.
AppFlushLocal(c) ==
  /\ Move(c, "app_flush", "app_done")
  /\ stale' = stale \ {c}
  /\ UNCHANGED <<eptvars, quiesced, g, nmivars>>

\* xmhf_memprot_flushmappings_alltlb: HALT_ON_ERRORCOND(g_vmx_quiesce), raise
\* the signal, flush the own TLB.
AppFlush(c) ==
  /\ Move(c, "app_flush", IF g.quiesce = 1 THEN "app_done" ELSE "halted")
  /\ g' = [g EXCEPT !.flush_all_tlb_signal = 1]
  /\ stale' = stale \ {c}
  /\ UNCHANGED <<eptvars, quiesced, nmivars>>

AppReturn(c) == Step(c, "app", "app_done", g)

(* xmhf_smpguest_arch_x86vmx_endquiesce *)

\* Mutant: the request stays up while the others resume.
EndQuiesceKeep(c) == Step(c, "app_done", "e_resumecount", g)

EndQuiesce(c) == Step(c, "app_done", "e_resumecount", [g EXCEPT !.quiesce = 0])

EndResumeCount(c) ==
  Step(c, "e_resumecount", "e_signal", [g EXCEPT !.quiesce_resume_counter = 0])

EndSignal(c) == Step(c, "e_signal", "e_wait", [g EXCEPT !.quiesce_resume_signal = 1])

EndWait(c) == g.quiesce_resume_counter >= N - 1 /\ Step(c, "e_wait", "e_unmark", g)

EndUnmark(c) == Mark(c, "e_unmark", "e_unsignal", 0)

EndUnsignal(c) ==
  Step(c, "e_unsignal", "e_unflush", [g EXCEPT !.quiesce_resume_signal = 0])

EndUnflush(c) ==
  Step(c, "e_unflush", "e_unlock", [g EXCEPT !.flush_all_tlb_signal = 0])

EndUnlock(c) == Step(c, "e_unlock", "run", [g EXCEPT !.lock_quiesce = 1])

-----------------------------------------------------------------------------
(* NMIs *)

\* A device raises an NMI for c; the processor keeps one if one is latched.
DeviceNmi(c) ==
  /\ device_nmi < MaxDeviceNmi
  /\ device_nmi' = device_nmi + 1
  /\ nmi_latched' = [nmi_latched EXCEPT ![c] = TRUE]
  /\ owed' = [owed EXCEPT ![c] = @ + 1]
  /\ merged' = [merged EXCEPT ![c] = IF nmi_latched[c] THEN @ + 1 ELSE @]
  /\ UNCHANGED <<eptvars, qpc, npc, printing, quiesced, g, stale>>

Handler(c, from, to) ==
  /\ npc[c] = from
  /\ npc' = [npc EXCEPT ![c] = to]
  /\ UNCHANGED <<eptvars, qpc, printing, device_nmi, merged>>

\* A handler's step that only moves on and changes shared variables.
HandlerStep(c, from, to, globals) ==
  /\ Handler(c, from, to)
  /\ g' = globals
  /\ UNCHANGED <<quiesced, stale, nmi_latched, owed>>

HandlerMark(c, from, to, value) ==
  /\ Handler(c, from, to)
  /\ quiesced' = [quiesced EXCEPT ![c] = value]
  /\ UNCHANGED <<g, stale, nmi_latched, owed>>

\* An NMI is delivered when no handler runs: as a VM exit if the guest runs,
\* through the hypervisor's own IDT otherwise.
DeliverNmi(c) ==
  /\ nmi_latched[c]
  /\ Handler(c, "none", "n_check")
  /\ nmi_latched' = [nmi_latched EXCEPT ![c] = FALSE]
  /\ UNCHANGED <<quiesced, g, stale, owed>>

(* xmhf_smpguest_arch_x86vmx_nmi_check_quiesce *)

\* Mutant: a CPU that is already stopped drops the NMI.
NmiCheckDrop(c) ==
  HandlerStep(c, "n_check", IF g.quiesce = 0 THEN "n_inject"
                            ELSE IF quiesced[c] = 0 THEN "n_mark" ELSE "none", g)

NmiCheckQuiesce(c) ==
  HandlerStep(c, "n_check", IF g.quiesce = 1 /\ quiesced[c] = 0
                              THEN "n_mark" ELSE "n_inject", g)

NmiMark(c) == HandlerMark(c, "n_mark", "n_count", 1)

NmiCount(c) ==
  HandlerStep(c, "n_count", "n_wait", [g EXCEPT !.quiesce_counter = @ + 1])

NmiWait(c) == g.quiesce_resume_signal = 1 /\ HandlerStep(c, "n_wait", "n_flush", g)

NmiFlush(c) ==
  /\ Handler(c, "n_flush", "n_resumecount")
  /\ stale' = IF g.flush_all_tlb_signal = 1 THEN stale \ {c} ELSE stale
  /\ UNCHANGED <<quiesced, g, nmi_latched, owed>>

NmiResumeCount(c) ==
  HandlerStep(c, "n_resumecount", "n_unmark",
              [g EXCEPT !.quiesce_resume_counter = @ + 1])

\* Mutant: a CPU resumes and still counts as stopped.
NmiKeepMark(c) == HandlerStep(c, "n_unmark", "none", g)

NmiUnmark(c) == HandlerMark(c, "n_unmark", "none", 0)

\* xmhf_smpguest_arch_x86vmx_eventhandler_nmiexception, the NMI is not for
\* quiescing: pass it on to the guest (module GuestNmi).
NmiInject(c) ==
  /\ Handler(c, "n_inject", "none")
  /\ owed' = [owed EXCEPT ![c] = @ - 1]
  /\ UNCHANGED <<quiesced, g, stale, nmi_latched>>

-----------------------------------------------------------------------------

\* Steps of a main thread inside code of the hypervisor.
HypervisorStep(c) ==
  \/ PrintfLock(c) \/ PrintfUnlock(c)
  \/ Walk(c) /\ pc[c] # "idle"
  \/ QuiesceSpin(c) \/ QuiesceEptLock(c) \/ QuiesceLineLock(c) \/ QuiesceMark(c)
  \/ QuiesceCount(c) \/ QuiesceSet(c) \/ QuiesceSend(c) \/ QuiesceWait(c)
  \/ QuiesceLineUnlock(c) \/ QuiesceReturn(c)
  \/ AppChangeEpt(c) \/ AppFlush(c) \/ AppReturn(c)
  \/ EndQuiesce(c) \/ EndResumeCount(c) \/ EndSignal(c) \/ EndWait(c)
  \/ EndUnmark(c) \/ EndUnsignal(c) \/ EndUnflush(c) \/ EndUnlock(c)

NmiStep(c) ==
  \/ DeliverNmi(c) \/ NmiCheckQuiesce(c) \/ NmiMark(c) \/ NmiCount(c)
  \/ NmiWait(c) \/ NmiFlush(c) \/ NmiResumeCount(c) \/ NmiUnmark(c)
  \/ NmiInject(c)

\* What the guest makes its CPU do: a VM exit whose handler prints, walks the
\* EPT or makes a hypercall.
GuestStep(c) == Printf(c) \/ (Walk(c) /\ pc[c] = "idle") \/ Quiesce(c)

Next == \E c \in CPU : \/ GuestStep(c)
                       \/ HypervisorStep(c)
                       \/ DeviceNmi(c)
                       \/ NmiStep(c)

Spec == Init /\ [][Next]_vars

\* A CPU never stops executing hypervisor code and the processor delivers
\* latched NMIs; guests and devices may do nothing.  The hypapp prints
\* finitely often and returns.
FairSpec ==
  /\ Spec
  /\ \A c \in CPU : /\ WF_vars(HypervisorStep(c))
                    /\ WF_vars(NmiStep(c))
                    /\ SF_vars(AppChangeEpt(c) \/ AppReturn(c))

-----------------------------------------------------------------------------

\* Type correctness of the quiesce state; in particular neither counter of
\* smpg-x86vmx-data.c ever exceeds the number of other CPUs, so no CPU counts
\* itself twice in one round.
TypeOK ==
  /\ EptTypeOK
  /\ qpc \in [CPU -> MainPc]
  /\ npc \in [CPU -> HandlerPc]
  /\ printing \in [CPU -> {"no", "wait", "hold"}]
  /\ quiesced \in [CPU -> {0, 1}]
  /\ g \in Globals
  /\ stale \in SUBSET CPU
  /\ nmi_latched \in [CPU -> BOOLEAN]
  /\ device_nmi \in 0 .. MaxDeviceNmi
  /\ owed \in [CPU -> Int]
  /\ merged \in [CPU -> Nat]

\* Positions from quiesce's wait being over to just before the resume signal.
Exclusive(c) == qpc[c] \in {"q_punlock", "q_wunlock", "app", "app_flush", "app_done",
                            "e_resumecount", "e_signal"}

\* When quiesce has returned, and until endquiesce signals, every other CPU
\* sits in the wait loop of its NMI handler: the hypapp runs alone.
RunsAlone == \A c, d \in CPU : Exclusive(c) /\ c # d => npc[d] = "n_wait"

\* A stopped CPU is not in the middle of a software walk of the EPT and does
\* not hold the printf line lock, so what it knows about the EPT is not
\* overtaken by the hypapp and the hypapp can print: the reason quiesce takes
\* both locks before it sends the NMIs.
StoppedHoldsNothing ==
  \A d \in CPU : npc[d] = "n_wait" => pc[d] # "r_held" /\ printing[d] # "hold"

\* After the hypapp has changed EPT entries, no CPU runs on with translations
\* it cached before: a CPU with a stale TLB is stopped in its NMI handler, or
\* is the one that made the change and has yet to flush.
NoStaleTlbRuns ==
  \A c \in stale : qpc[c] = "app_flush" \/ npc[c] \in {"n_wait", "n_flush"}

\* A handler cannot tell a device's NMI from a quiesce NMI, and still XMHF
\* never passes on to a guest more NMIs than devices have raised for it; and
\* the NMIs it has not passed on are, between quiesces, exactly the one that
\* is latched, the one being handled, and one for each time that two NMIs,
\* devices' or for quiescing, met in the processor.  So the handler drops and
\* makes up none (nmi_check_quiesce), but a device's NMI that meets a quiesce
\* NMI is never passed on: nothing in the code makes up for that.
NmiAccounted ==
  \A c \in CPU :
    /\ owed[c] >= 0
    /\ g.lock_quiesce = 1 =>
         owed[c] = merged[c] + (IF nmi_latched[c] THEN 1 ELSE 0)
                             + (IF npc[c] \in {"n_check", "n_inject"} THEN 1 ELSE 0)

\* The line lock is taken and given back for ever.
LineLockContended == []<>(g.linelock = 0) /\ []<>(g.linelock = 1)

\* A CPU that has the quiesce lock gets all others to stop, and gets out of
\* endquiesce again: no lock, counter or signal keeps it waiting for ever.
\* The one exception is the line lock, an unfair spin lock: the others may
\* take it and give it back for ever before the CPU gets it.
QuiesceCompletes ==
  \A c \in CPU : LineLockContended \/ (qpc[c] = "q_wlock" ~> qpc[c] = "run")

\* A CPU that is stopped in the NMI handler is released.
StoppedResumes == \A c \in CPU : npc[c] = "n_wait" ~> npc[c] = "none"
=============================================================================
