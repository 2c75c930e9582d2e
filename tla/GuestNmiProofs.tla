--------------------------- MODULE GuestNmiProofs ---------------------------
(***************************************************************************)
(* A CPU passes NMIs on to its guest as a bare processor would, whatever   *)
(* number of NMIs arrives and at whichever step.  The argument rests on    *)
(* who may write the hardware VMCS: outside the critical section the NMI   *)
(* handler, inside it only the main thread, so that the copy putVMCS       *)
(* writes back is never out of date.                                       *)
(***************************************************************************)
EXTENDS GuestNmi, TLAPS

-----------------------------------------------------------------------------
(* The inductive invariant *)

\* From the exit to the end of the handler for its reason.
Handling == {"exit", "get", "handle"}

\* The VMCS the guest will be entered with: once the handler has worked on the
\* copy, the copy, until putVMCS has written it.
Current == IF at = "put" THEN copy ELSE hw

\* The critical section, and the NMIs counted in it.
Section ==
  /\ at \in {"guest", "exit", "while", "dec", "off", "entry"} => vmx_mhv_nmi_enable
  /\ at \in {"get", "handle", "put", "enable", "inject", "on"} => ~vmx_mhv_nmi_enable
  /\ at \in {"guest", "exit", "entry"} => vmx_mhv_nmi_visited = 0
  /\ at = "dec" => vmx_mhv_nmi_visited > 0
  /\ at = "handle" => copy = hw

\* NMIs counted, one in the processor and one that has caused an exit.
Counted ==
  vmx_mhv_nmi_visited + (IF nmi_latched THEN 1 ELSE 0) + (IF host_blocked THEN 1 ELSE 0)
    <= MaxVisited + 1

\* The window bit is always up to date.
Armed == at # "halted" => (Current.window <=> guest_nmi_pending > 0 /\ ~guest_nmi_block)

\* What is known of an exit until it has been handled.
Why ==
  /\ host_blocked => at \in Handling
  /\ at \in Handling =>
       /\ reason = "nmi" <=> host_blocked
       /\ reason = "nmi_window" => WindowOpen
       /\ reason = "db" => stepping
       /\ reason = "lapic_access" => lapic
       /\ reason \notin {"nmi", "db"} => ~stepping

\* An NMI is injected only into a guest that does not block NMIs, and is gone
\* when the guest runs.
Injected ==
  /\ at # "halted" => ~(Current.entry_nmi /\ Current.block_nmi)
  /\ at \in {"guest", "exit", "get", "handle"} => ~hw.entry_nmi

\* The single step is done with NMIs blocked.
Stepped ==
  at # "halted" /\ stepping => lapic /\ Current.block_nmi /\ ~Current.entry_nmi

\* Without single steps the count keeps to the limit of inject_nmi.
Limited ==
  ~lapic => /\ at # "halted"
            /\ Current.block_nmi \/ Current.entry_nmi => guest_nmi_pending <= 1

NmiInductive ==
  /\ TypeOK
  /\ Section
  /\ Counted
  /\ Armed
  /\ Why
  /\ Injected
  /\ Stepped
  /\ Limited

LEMMA StepSection == NmiInductive /\ [Next]_vars => Section'
<1> SUFFICES ASSUME NmiInductive, [Next]_vars PROVE Section'
  OBVIOUS
<1> USE DEF NmiInductive, TypeOK, Section, Why, vmcsvars, mhvvars, cfgvars,
        lapicvars, procvars
<1>1. CASE DeviceNmi
  BY <1>1 DEF DeviceNmi
<1>2. CASE NmiExit \/ NmiWindowExit \/ OtherExit \/ LapicExit \/ DbExit
  BY <1>2 DEF NmiExit, NmiWindowExit, OtherExit, LapicExit, DbExit, Exit, WindowOpen
<1>3. CASE GuestIret \/ VmEntry
  BY <1>3 DEF GuestIret, VmEntry
<1>4. CASE NmiInterrupt
  BY <1>4 DEF NmiInterrupt, inject_nmi, nmi_pending_limit, update_nmi_window_exiting
<1>5. CASE NmiDisable \/ GetVmcs \/ PutVmcs
  BY <1>5 DEF NmiDisable, GetVmcs, PutVmcs, Assert
<1>6. CASE HandleNmi \/ HandleOther
  BY <1>6 DEF HandleNmi, HandleOther
<1>7. CASE HandleNmiWindow
  BY <1>7 DEF HandleNmiWindow, Assert, update_nmi_window_exiting, WindowOpen
<1>8. CASE HandleNmiBlock
  BY <1>8 DEF HandleNmiBlock, Assert, update_nmi_window_exiting
<1>9. CASE HandleLapicAccess \/ HandleDb
  BY <1>9 DEF HandleLapicAccess, HandleDb
<1>10. CASE NmiEnable \/ NmiEnableTest \/ NmiEnableDec
  BY <1>10 DEF NmiEnable, NmiEnableTest, NmiEnableDec, Assert
<1>11. CASE NmiEnableOff \/ NmiEnableOn
  BY <1>11 DEF NmiEnableOff, NmiEnableOn
<1>12. CASE NmiEnableInject
  BY <1>12 DEF NmiEnableInject, inject_nmi, nmi_pending_limit,
     update_nmi_window_exiting
<1>13. CASE UNCHANGED vars
  BY <1>13 DEF vars
<1> QED
  BY <1>1, <1>2, <1>3, <1>4, <1>5, <1>6, <1>7, <1>8, <1>9, <1>10, <1>11, <1>12, <1>13
     DEF Next, HypervisorStep, GuestStep

LEMMA StepCounted == NmiInductive /\ [Next]_vars => Counted'
<1> SUFFICES ASSUME NmiInductive, [Next]_vars PROVE Counted'
  OBVIOUS
<1> USE MaxVisitedAssumption DEF NmiInductive, TypeOK, Counted, Section, Why, Handling, vmcsvars, mhvvars,
        cfgvars, lapicvars, procvars
<1>1. CASE DeviceNmi
  BY <1>1 DEF DeviceNmi
<1>2. CASE NmiExit \/ NmiWindowExit \/ OtherExit \/ LapicExit \/ DbExit
  BY <1>2 DEF NmiExit, NmiWindowExit, OtherExit, LapicExit, DbExit, Exit, WindowOpen
<1>3. CASE GuestIret \/ VmEntry
  BY <1>3 DEF GuestIret, VmEntry
<1>4. CASE NmiInterrupt
  BY <1>4 DEF NmiInterrupt, inject_nmi, nmi_pending_limit, update_nmi_window_exiting
<1>5. CASE NmiDisable \/ GetVmcs \/ PutVmcs
  BY <1>5 DEF NmiDisable, GetVmcs, PutVmcs, Assert
<1>6. CASE HandleNmi \/ HandleOther
  BY <1>6 DEF HandleNmi, HandleOther
<1>7. CASE HandleNmiWindow
  BY <1>7 DEF HandleNmiWindow, Assert, update_nmi_window_exiting, WindowOpen
<1>8. CASE HandleNmiBlock
  BY <1>8 DEF HandleNmiBlock, Assert, update_nmi_window_exiting
<1>9. CASE HandleLapicAccess \/ HandleDb
  BY <1>9 DEF HandleLapicAccess, HandleDb
<1>10. CASE NmiEnable \/ NmiEnableTest \/ NmiEnableDec
  BY <1>10 DEF NmiEnable, NmiEnableTest, NmiEnableDec, Assert
<1>11. CASE NmiEnableOff \/ NmiEnableOn
  BY <1>11 DEF NmiEnableOff, NmiEnableOn
<1>12. CASE NmiEnableInject
  BY <1>12 DEF NmiEnableInject, inject_nmi, nmi_pending_limit,
     update_nmi_window_exiting
<1>13. CASE UNCHANGED vars
  BY <1>13 DEF vars
<1> QED
  BY <1>1, <1>2, <1>3, <1>4, <1>5, <1>6, <1>7, <1>8, <1>9, <1>10, <1>11, <1>12, <1>13
     DEF Next, HypervisorStep, GuestStep

LEMMA StepArmed == NmiInductive /\ [Next]_vars => Armed'
<1> SUFFICES ASSUME NmiInductive, [Next]_vars PROVE Armed'
  OBVIOUS
<1> USE DEF NmiInductive, TypeOK, Vmcs, Armed, Current, Section, vmcsvars, mhvvars,
        cfgvars, lapicvars, procvars
<1>1. CASE DeviceNmi
  BY <1>1 DEF DeviceNmi
<1>2. CASE NmiExit \/ NmiWindowExit \/ OtherExit \/ LapicExit \/ DbExit
  BY <1>2 DEF NmiExit, NmiWindowExit, OtherExit, LapicExit, DbExit, Exit, WindowOpen
<1>3. CASE GuestIret \/ VmEntry
  BY <1>3 DEF GuestIret, VmEntry
<1>4. CASE NmiInterrupt
  BY <1>4 DEF NmiInterrupt, inject_nmi, nmi_pending_limit, update_nmi_window_exiting
<1>5. CASE NmiDisable \/ GetVmcs \/ PutVmcs
  BY <1>5 DEF NmiDisable, GetVmcs, PutVmcs, Assert
<1>6. CASE HandleNmi \/ HandleOther
  BY <1>6 DEF HandleNmi, HandleOther
<1>7. CASE HandleNmiWindow
  BY <1>7 DEF HandleNmiWindow, Assert, update_nmi_window_exiting, WindowOpen
<1>8. CASE HandleNmiBlock
  BY <1>8 DEF HandleNmiBlock, Assert, update_nmi_window_exiting
<1>9. CASE HandleLapicAccess \/ HandleDb
  BY <1>9 DEF HandleLapicAccess, HandleDb
<1>10. CASE NmiEnable \/ NmiEnableTest \/ NmiEnableDec
  BY <1>10 DEF NmiEnable, NmiEnableTest, NmiEnableDec, Assert
<1>11. CASE NmiEnableOff \/ NmiEnableOn
  BY <1>11 DEF NmiEnableOff, NmiEnableOn
<1>12. CASE NmiEnableInject
  BY <1>12 DEF NmiEnableInject, inject_nmi, nmi_pending_limit,
     update_nmi_window_exiting
<1>13. CASE UNCHANGED vars
  BY <1>13 DEF vars
<1> QED
  BY <1>1, <1>2, <1>3, <1>4, <1>5, <1>6, <1>7, <1>8, <1>9, <1>10, <1>11, <1>12, <1>13
     DEF Next, HypervisorStep, GuestStep

LEMMA StepWhy == NmiInductive /\ [Next]_vars => Why'
<1> SUFFICES ASSUME NmiInductive, [Next]_vars PROVE Why'
  OBVIOUS
<1> USE DEF NmiInductive, TypeOK, Vmcs, Why, Section, WindowOpen, Handling, Stepped,
        Current, Armed, vmcsvars, mhvvars, cfgvars, lapicvars, procvars
<1>1. CASE DeviceNmi
  BY <1>1 DEF DeviceNmi
<1>2. CASE NmiExit \/ NmiWindowExit \/ OtherExit \/ LapicExit \/ DbExit
  BY <1>2 DEF NmiExit, NmiWindowExit, OtherExit, LapicExit, DbExit, Exit, WindowOpen
<1>3. CASE GuestIret \/ VmEntry
  BY <1>3 DEF GuestIret, VmEntry
<1>4. CASE NmiInterrupt
  BY <1>4 DEF NmiInterrupt, inject_nmi, nmi_pending_limit, update_nmi_window_exiting
<1>5. CASE NmiDisable \/ GetVmcs \/ PutVmcs
  BY <1>5 DEF NmiDisable, GetVmcs, PutVmcs, Assert
<1>6. CASE HandleNmi \/ HandleOther
  BY <1>6 DEF HandleNmi, HandleOther
<1>7. CASE HandleNmiWindow
  BY <1>7 DEF HandleNmiWindow, Assert, update_nmi_window_exiting, WindowOpen
<1>8. CASE HandleNmiBlock
  BY <1>8 DEF HandleNmiBlock, Assert, update_nmi_window_exiting
<1>9. CASE HandleLapicAccess \/ HandleDb
  BY <1>9 DEF HandleLapicAccess, HandleDb
<1>10. CASE NmiEnable \/ NmiEnableTest \/ NmiEnableDec
  BY <1>10 DEF NmiEnable, NmiEnableTest, NmiEnableDec, Assert
<1>11. CASE NmiEnableOff \/ NmiEnableOn
  BY <1>11 DEF NmiEnableOff, NmiEnableOn
<1>12. CASE NmiEnableInject
  BY <1>12 DEF NmiEnableInject, inject_nmi, nmi_pending_limit,
     update_nmi_window_exiting
<1>13. CASE UNCHANGED vars
  BY <1>13 DEF vars
<1> QED
  BY <1>1, <1>2, <1>3, <1>4, <1>5, <1>6, <1>7, <1>8, <1>9, <1>10, <1>11, <1>12, <1>13
     DEF Next, HypervisorStep, GuestStep

LEMMA StepInjected == NmiInductive /\ [Next]_vars => Injected'
<1> SUFFICES ASSUME NmiInductive, [Next]_vars PROVE Injected'
  OBVIOUS
<1> USE DEF NmiInductive, TypeOK, Vmcs, Injected, Current, Section, Why, Handling,
        WindowOpen, Stepped, vmcsvars, mhvvars, cfgvars, lapicvars, procvars
<1>1. CASE DeviceNmi
  BY <1>1 DEF DeviceNmi
<1>2. CASE NmiExit \/ NmiWindowExit \/ OtherExit \/ LapicExit \/ DbExit
  BY <1>2 DEF NmiExit, NmiWindowExit, OtherExit, LapicExit, DbExit, Exit, WindowOpen
<1>3. CASE GuestIret \/ VmEntry
  BY <1>3 DEF GuestIret, VmEntry
<1>4. CASE NmiInterrupt
  BY <1>4 DEF NmiInterrupt, inject_nmi, nmi_pending_limit, update_nmi_window_exiting
<1>5. CASE NmiDisable \/ GetVmcs \/ PutVmcs
  BY <1>5 DEF NmiDisable, GetVmcs, PutVmcs, Assert
<1>6. CASE HandleNmi \/ HandleOther
  BY <1>6 DEF HandleNmi, HandleOther
<1>7. CASE HandleNmiWindow
  BY <1>7 DEF HandleNmiWindow, Assert, update_nmi_window_exiting, WindowOpen
<1>8. CASE HandleNmiBlock
  BY <1>8 DEF HandleNmiBlock, Assert, update_nmi_window_exiting
<1>9. CASE HandleLapicAccess \/ HandleDb
  BY <1>9 DEF HandleLapicAccess, HandleDb
<1>10. CASE NmiEnable \/ NmiEnableTest \/ NmiEnableDec
  BY <1>10 DEF NmiEnable, NmiEnableTest, NmiEnableDec, Assert
<1>11. CASE NmiEnableOff \/ NmiEnableOn
  BY <1>11 DEF NmiEnableOff, NmiEnableOn
<1>12. CASE NmiEnableInject
  BY <1>12 DEF NmiEnableInject, inject_nmi, nmi_pending_limit,
     update_nmi_window_exiting
<1>13. CASE UNCHANGED vars
  BY <1>13 DEF vars
<1> QED
  BY <1>1, <1>2, <1>3, <1>4, <1>5, <1>6, <1>7, <1>8, <1>9, <1>10, <1>11, <1>12, <1>13
     DEF Next, HypervisorStep, GuestStep

LEMMA StepStepped == NmiInductive /\ [Next]_vars => Stepped'
<1> SUFFICES ASSUME NmiInductive, [Next]_vars PROVE Stepped'
  OBVIOUS
<1> USE DEF NmiInductive, TypeOK, Vmcs, Stepped, Current, Section, Why, Handling,
        WindowOpen, Injected, vmcsvars, mhvvars, cfgvars, lapicvars, procvars
<1>1. CASE DeviceNmi
  BY <1>1 DEF DeviceNmi
<1>2. CASE NmiExit \/ NmiWindowExit \/ OtherExit \/ LapicExit \/ DbExit
  BY <1>2 DEF NmiExit, NmiWindowExit, OtherExit, LapicExit, DbExit, Exit, WindowOpen
<1>3. CASE GuestIret \/ VmEntry
  BY <1>3 DEF GuestIret, VmEntry
<1>4. CASE NmiInterrupt
  BY <1>4 DEF NmiInterrupt, inject_nmi, nmi_pending_limit, update_nmi_window_exiting
<1>5. CASE NmiDisable \/ GetVmcs \/ PutVmcs
  BY <1>5 DEF NmiDisable, GetVmcs, PutVmcs, Assert
<1>6. CASE HandleNmi \/ HandleOther
  BY <1>6 DEF HandleNmi, HandleOther
<1>7. CASE HandleNmiWindow
  BY <1>7 DEF HandleNmiWindow, Assert, update_nmi_window_exiting, WindowOpen
<1>8. CASE HandleNmiBlock
  BY <1>8 DEF HandleNmiBlock, Assert, update_nmi_window_exiting
<1>9. CASE HandleLapicAccess \/ HandleDb
  BY <1>9 DEF HandleLapicAccess, HandleDb
<1>10. CASE NmiEnable \/ NmiEnableTest \/ NmiEnableDec
  BY <1>10 DEF NmiEnable, NmiEnableTest, NmiEnableDec, Assert
<1>11. CASE NmiEnableOff \/ NmiEnableOn
  BY <1>11 DEF NmiEnableOff, NmiEnableOn
<1>12. CASE NmiEnableInject
  BY <1>12 DEF NmiEnableInject, inject_nmi, nmi_pending_limit,
     update_nmi_window_exiting
<1>13. CASE UNCHANGED vars
  BY <1>13 DEF vars
<1> QED
  BY <1>1, <1>2, <1>3, <1>4, <1>5, <1>6, <1>7, <1>8, <1>9, <1>10, <1>11, <1>12, <1>13
     DEF Next, HypervisorStep, GuestStep

LEMMA StepLimited == NmiInductive /\ [Next]_vars => Limited'
<1> SUFFICES ASSUME NmiInductive, [Next]_vars PROVE Limited'
  OBVIOUS
<1> USE DEF NmiInductive, TypeOK, Vmcs, Limited, Current, Section, Why, Handling,
        WindowOpen, Injected, Armed, Stepped, vmcsvars, mhvvars, cfgvars, lapicvars,
        procvars
<1>1. CASE DeviceNmi
  BY <1>1 DEF DeviceNmi
<1>2. CASE NmiExit \/ NmiWindowExit \/ OtherExit \/ LapicExit \/ DbExit
  BY <1>2 DEF NmiExit, NmiWindowExit, OtherExit, LapicExit, DbExit, Exit, WindowOpen
<1>3. CASE GuestIret \/ VmEntry
  BY <1>3 DEF GuestIret, VmEntry
<1>4. CASE NmiInterrupt
  BY <1>4 DEF NmiInterrupt, inject_nmi, nmi_pending_limit, update_nmi_window_exiting
<1>5. CASE NmiDisable \/ GetVmcs \/ PutVmcs
  BY <1>5 DEF NmiDisable, GetVmcs, PutVmcs, Assert
<1>6. CASE HandleNmi \/ HandleOther
  BY <1>6 DEF HandleNmi, HandleOther
<1>7. CASE HandleNmiWindow
  BY <1>7 DEF HandleNmiWindow, Assert, update_nmi_window_exiting, WindowOpen
<1>8. CASE HandleNmiBlock
  BY <1>8 DEF HandleNmiBlock, Assert, update_nmi_window_exiting
<1>9. CASE HandleLapicAccess \/ HandleDb
  BY <1>9 DEF HandleLapicAccess, HandleDb
<1>10. CASE NmiEnable \/ NmiEnableTest \/ NmiEnableDec
  BY <1>10 DEF NmiEnable, NmiEnableTest, NmiEnableDec, Assert
<1>11. CASE NmiEnableOff \/ NmiEnableOn
  BY <1>11 DEF NmiEnableOff, NmiEnableOn
<1>12. CASE NmiEnableInject
  BY <1>12 DEF NmiEnableInject, inject_nmi, nmi_pending_limit,
     update_nmi_window_exiting
<1>13. CASE UNCHANGED vars
  BY <1>13 DEF vars
<1> QED
  BY <1>1, <1>2, <1>3, <1>4, <1>5, <1>6, <1>7, <1>8, <1>9, <1>10, <1>11, <1>12, <1>13
     DEF Next, HypervisorStep, GuestStep

LEMMA UpdateType ==
  ASSUME NEW v \in Vmcs, NEW block, NEW pending \in Nat
  PROVE  update_nmi_window_exiting(v, block, pending) \in Vmcs
BY DEF update_nmi_window_exiting, Vmcs

LEMMA InjectType ==
  ASSUME TypeOK, NEW to, inject_nmi(to)
  PROVE  hw' \in Vmcs /\ guest_nmi_pending' \in 0 .. 2 /\ at' \in {to, "halted"}
<1>1. guest_nmi_pending' \in 0 .. 2 /\ at' \in {to, "halted"}
  BY DEF TypeOK, inject_nmi, nmi_pending_limit
<1>2. hw' = hw \/ hw' = update_nmi_window_exiting(hw, guest_nmi_block, guest_nmi_pending')
  BY DEF inject_nmi
<1>3. hw' \in Vmcs
  BY <1>1, <1>2, UpdateType DEF TypeOK
<1> QED
  BY <1>1, <1>3

LEMMA StepTypeOK == NmiInductive /\ [Next]_vars => TypeOK'
<1> SUFFICES ASSUME NmiInductive, [Next]_vars PROVE TypeOK'
  OBVIOUS
<1> USE MaxVisitedAssumption DEF NmiInductive, TypeOK, Where, Vmcs, Reasons, Counted, Section, Why,
        Handling, Armed, WindowOpen, Current, vmcsvars, mhvvars, cfgvars, lapicvars,
        procvars
<1>1. CASE DeviceNmi
  BY <1>1 DEF DeviceNmi
<1>2. CASE NmiExit \/ NmiWindowExit \/ OtherExit \/ LapicExit \/ DbExit
  BY <1>2 DEF NmiExit, NmiWindowExit, OtherExit, LapicExit, DbExit, Exit, WindowOpen
<1>3. CASE GuestIret \/ VmEntry
  BY <1>3 DEF GuestIret, VmEntry
<1>4. CASE NmiInterrupt
  <2>1. vmx_mhv_nmi_visited' \in 0 .. MaxVisited + 1
    BY <1>4 DEF NmiInterrupt
  <2>2. hw' \in Vmcs /\ guest_nmi_pending' \in 0 .. 2 /\ at' \in Where
    BY <1>4, InjectType DEF NmiInterrupt
  <2> QED
    BY <1>4, <2>1, <2>2 DEF NmiInterrupt
<1>5. CASE NmiDisable \/ GetVmcs \/ PutVmcs
  BY <1>5 DEF NmiDisable, GetVmcs, PutVmcs, Assert
<1>6. CASE HandleNmi \/ HandleOther
  <2>1. vmx_mhv_nmi_visited' \in 0 .. MaxVisited + 1
    BY <1>6 DEF HandleNmi, HandleOther
  <2> QED
    BY <1>6, <2>1 DEF HandleNmi, HandleOther
<1>7. CASE HandleNmiWindow
  <2>1. guest_nmi_pending > 0
    BY <1>7 DEF HandleNmiWindow
  <2>2. guest_nmi_pending' \in 0 .. 2 /\ at' \in Where
    BY <1>7, <2>1 DEF HandleNmiWindow, Assert
  <2>3. copy' \in Vmcs
    BY <1>7, <2>2 DEF HandleNmiWindow, update_nmi_window_exiting
  <2> QED
    BY <1>7, <2>2, <2>3 DEF HandleNmiWindow
<1>8. CASE HandleNmiBlock
  BY <1>8 DEF HandleNmiBlock, Assert, update_nmi_window_exiting
<1>9. CASE HandleLapicAccess \/ HandleDb
  BY <1>9 DEF HandleLapicAccess, HandleDb
<1>10. CASE NmiEnable \/ NmiEnableTest \/ NmiEnableDec
  <2>1. vmx_mhv_nmi_visited' \in 0 .. MaxVisited + 1
    BY <1>10 DEF NmiEnable, NmiEnableTest, NmiEnableDec
  <2> QED
    BY <1>10, <2>1 DEF NmiEnable, NmiEnableTest, NmiEnableDec, Assert
<1>11. CASE NmiEnableOff \/ NmiEnableOn
  BY <1>11 DEF NmiEnableOff, NmiEnableOn
<1>12. CASE NmiEnableInject
  <2>1. hw' \in Vmcs /\ guest_nmi_pending' \in 0 .. 2 /\ at' \in Where
    BY <1>12, InjectType DEF NmiEnableInject
  <2> QED
    BY <1>12, <2>1 DEF NmiEnableInject
<1>13. CASE UNCHANGED vars
  BY <1>13 DEF vars
<1> QED
  BY <1>1, <1>2, <1>3, <1>4, <1>5, <1>6, <1>7, <1>8, <1>9, <1>10, <1>11, <1>12, <1>13
     DEF Next, HypervisorStep, GuestStep

LEMMA InitNmi == Init => NmiInductive
<1> SUFFICES ASSUME Init PROVE NmiInductive
  OBVIOUS
<1>1. TypeOK
  <2>1. hw \in Vmcs /\ copy \in Vmcs
    BY DEF Init, Vmcs
  <2>2. lapic \in BOOLEAN /\ vmx_mhv_nmi_visited \in 0 .. MaxVisited + 1
    BY LapicsAssumption, MaxVisitedAssumption DEF Init
  <2>3. /\ {nmi_latched, host_blocked, vmx_mhv_nmi_enable} \subseteq BOOLEAN
        /\ {guest_nmi_block, stepping, nmimask} \subseteq BOOLEAN
    BY Zenon DEF Init
  <2>4. at \in Where /\ reason \in Reasons /\ guest_nmi_pending \in 0 .. 2
    BY DEF Init, Where, Reasons
  <2> QED
    BY <2>1, <2>2, <2>3, <2>4 DEF TypeOK
<1> QED
  BY <1>1, MaxVisitedAssumption DEF Init, NmiInductive, Section, Counted, Armed, Current,
     Why, Handling, Injected, Stepped, Limited

LEMMA StepNmi == NmiInductive /\ [Next]_vars => NmiInductive'
BY StepTypeOK, StepSection, StepCounted, StepArmed, StepWhy, StepInjected, StepStepped,
   StepLimited DEF NmiInductive

-----------------------------------------------------------------------------
(* The guest's blocking of NMIs *)

\* inject_nmi adds an NMI, or merges it with one that waits, or halts the CPU;
\* what the guest blocks stays as it is.
LEMMA InjectArrives ==
  ASSUME TypeOK, NEW to, inject_nmi(to), at # "put", to # "put",
         UNCHANGED <<stepping, nmimask>>
  PROVE  \/ VN!Arrive
         \/ UNCHANGED <<guest_nmi_pending, GuestBlocked>>
<1>1. hw'.block_nmi = hw.block_nmi /\ hw'.entry_nmi = hw.entry_nmi
  BY DEF inject_nmi, update_nmi_window_exiting, TypeOK, Vmcs
<1>2. at' # "put"
  BY DEF inject_nmi
<1>3. UNCHANGED GuestBlocked
  BY <1>1, <1>2 DEF GuestBlocked
<1>4. \/ UNCHANGED guest_nmi_pending
      \/ guest_nmi_pending' \in {guest_nmi_pending, guest_nmi_pending + 1} \cap 1 .. 2
  <2>1. nmi_pending_limit \in {1, 2} /\ guest_nmi_pending \in 0 .. 2
    BY DEF nmi_pending_limit, TypeOK
  <2>2. \/ UNCHANGED guest_nmi_pending
        \/ /\ guest_nmi_pending <= nmi_pending_limit
           /\ guest_nmi_pending' = IF guest_nmi_pending < nmi_pending_limit
                                     THEN guest_nmi_pending + 1 ELSE guest_nmi_pending
    BY <2>1 DEF inject_nmi
  <2>3. CASE guest_nmi_pending < nmi_pending_limit
    <3>1. guest_nmi_pending + 1 \in 1 .. 2
      BY <2>1, <2>3
    <3> QED
      BY <2>2, <2>3, <3>1
  <2>4. CASE ~(guest_nmi_pending < nmi_pending_limit)
    BY <2>2, <2>4
  <2> QED
    BY <2>3, <2>4
<1> QED
  BY <1>3, <1>4 DEF VN!Arrive

\* What a step does to the NMIs kept for the guest and to its blocking: an NMI
\* arrives, the guest takes one, the guest returns from its handler, or nothing.
LEMMA NmiStep ==
  ASSUME NmiInductive, [Next]_vars
  PROVE  \/ VN!Arrive
         \/ VN!Take
         \/ VN!Iret /\ GuestIret
         \/ UNCHANGED <<guest_nmi_pending, GuestBlocked>>
<1> USE DEF NmiInductive, TypeOK, Vmcs, GuestBlocked, Current, vmcsvars, mhvvars, cfgvars,
        lapicvars, procvars
<1>1. CASE DeviceNmi \/ NmiExit \/ NmiWindowExit \/ OtherExit \/ LapicExit \/ DbExit
  BY <1>1 DEF DeviceNmi, NmiExit, NmiWindowExit, OtherExit, LapicExit, DbExit, Exit
<1>2. CASE GuestIret
  BY <1>2 DEF GuestIret, Injected, VN!Iret
<1>3. CASE VmEntry
  BY <1>3 DEF VmEntry
<1>4. CASE NmiInterrupt
  <2>1. CASE vmx_mhv_nmi_enable
    BY <1>4, <2>1, InjectArrives DEF NmiInterrupt, Section
  <2>2. CASE ~vmx_mhv_nmi_enable
    BY <1>4, <2>2 DEF NmiInterrupt
  <2> QED
    BY <2>1, <2>2
<1>5. CASE NmiDisable \/ GetVmcs \/ PutVmcs
  BY <1>5 DEF NmiDisable, GetVmcs, PutVmcs, Assert
<1>6. CASE HandleNmi \/ HandleOther
  BY <1>6 DEF HandleNmi, HandleOther, Section
<1>7. CASE HandleNmiWindow
  BY <1>7 DEF HandleNmiWindow, Section, Armed, Why, Handling, WindowOpen, Injected, Assert,
     update_nmi_window_exiting, VN!Take
<1>8. CASE HandleNmiBlock
  BY <1>8 DEF HandleNmiBlock, Section, Assert, update_nmi_window_exiting
<1>9. CASE HandleLapicAccess \/ HandleDb
  BY <1>9 DEF HandleLapicAccess, HandleDb, Section, Why, Handling, Injected
<1>10. CASE NmiEnable \/ NmiEnableTest \/ NmiEnableDec \/ NmiEnableOff \/ NmiEnableOn
  BY <1>10 DEF NmiEnable, NmiEnableTest, NmiEnableDec, NmiEnableOff, NmiEnableOn, Assert
<1>11. CASE NmiEnableInject
  BY <1>11, InjectArrives DEF NmiEnableInject
<1>12. CASE UNCHANGED vars
  BY <1>12 DEF vars
<1> QED
  BY <1>1, <1>2, <1>3, <1>4, <1>5, <1>6, <1>7, <1>8, <1>9, <1>10, <1>11, <1>12
     DEF Next, HypervisorStep, GuestStep

-----------------------------------------------------------------------------
(* The results *)

\* The hardware VMCS and its copy agree where they have to, and NMIs are where
\* they are accounted for, in every state.
THEOREM NmiInvariant == Spec => []NmiInductive
BY InitNmi, StepNmi, PTL DEF Spec

\* Types, with at most two NMIs kept for the guest (inject_nmi).
THEOREM NmiTypeCorrect == Spec => []TypeOK
<1>1. NmiInductive => TypeOK
  BY DEF NmiInductive
<1> QED
  BY <1>1, NmiInvariant, PTL

\* On a CPU whose LAPIC page is not intercepted no assertion on the NMI path
\* fires and no VM entry fails.
THEOREM LapicHaltsOnly == Spec => []OnlyLapicHalts
<1>1. NmiInductive => OnlyLapicHalts
  BY DEF NmiInductive, Limited, OnlyLapicHalts, NeverHalts
<1> QED
  BY <1>1, NmiInvariant, PTL

\* No update of the window bit is lost to putVMCS and no NMI slips in behind the
\* loop of mhv_nmi_enable.
THEOREM Arming == Spec => []WindowArmed
<1>1. NmiInductive => WindowArmed
  BY DEF NmiInductive, TypeOK, Vmcs, Armed, Current, Section, WindowArmed
<1> QED
  BY <1>1, NmiInvariant, PTL

\* No intercept handler opens the guest to a nested NMI.
THEOREM IretUnblocks == Spec => OnlyIretUnblocks
<1>1. NmiInductive /\ [Next]_vars => [GuestBlocked /\ ~GuestBlocked' => GuestIret]_vars
  <2> SUFFICES ASSUME NmiInductive, [Next]_vars, GuestBlocked, ~GuestBlocked'
               PROVE  GuestIret
    OBVIOUS
  <2>1. ~VN!Arrive /\ ~VN!Take /\ ~UNCHANGED GuestBlocked
    BY DEF VN!Arrive, VN!Take
  <2> QED
    BY <2>1, NmiStep
<1> QED
  BY <1>1, NmiInvariant, PTL DEF Spec, OnlyIretUnblocks

\* The guest sees its NMIs as on a bare processor: the detailed module
\* implements VirtualNmi.
THEOREM NmiRefinement == Spec => ImplementsVirtualNmi
<1>1. Init => VN!Init
  BY DEF Init, VN!Init, GuestBlocked
<1>2. NmiInductive /\ [Next]_vars => [VN!Next]_VN!vars
  BY NmiStep DEF VN!Next, VN!vars
<1> QED
  BY <1>1, <1>2, NmiInvariant, PTL DEF Spec, ImplementsVirtualNmi, VN!Spec
=============================================================================
