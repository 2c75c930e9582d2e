---------------------------- MODULE SmpBootProofs ----------------------------
(***************************************************************************)
(* Start-up, the guest's INIT-SIPI-SIPI and shutdown are correct for any   *)
(* number of CPUs, any set of SIPI vectors and any number of extra INITs.  *)
(* Each of the three barrier counters is the number of CPUs that have      *)
(* passed a point, and a CPU that runs the guest has the flag and the      *)
(* vector of the SIPI that was accepted for it.                            *)
(***************************************************************************)
EXTENDS SmpBoot, FiniteSetTheorems, TLAPS

-----------------------------------------------------------------------------
(* The inductive invariant *)

\* The CPUs that g_cpus_active, g_appmain_success_counter and the count of
\* xmhf_runtime_shutdown have counted.
Rallied == {c \in CPU : at[c] # "start"}
Succeeded == {c \in CPU : at[c] \notin {"start", "rally", "appmain"}}
ShutDown == {c \in CPU : at[c] \in {"shutdown", "down"}}

Counters ==
  /\ g_cpus_active = Cardinality(Rallied)
  /\ g_appmain_success_counter = Cardinality(Succeeded)
  /\ shutdown_count = Cardinality(ShutDown)

\* Where only the BSP is, and where only APs are.
BspOnly == {"appmain_wait", "step", "init_send", "sipi_test", "sipi_flag", "scan_sipi",
            "scan_extra", "link", "delink"}

Places ==
  /\ \A a \in AP : at[a] \notin BspOnly
  /\ at[BSP] # "sipi_wait"
  /\ sipireceived[BSP] = 0

\* The BSP has passed the barrier on the hypapps; nothing that leads an AP into
\* the guest happens before.
Passed == at[BSP] \notin {"start", "rally", "appmain", "appmain_wait"}

Barrier ==
  /\ Passed => Succeeded = CPU
  /\ \A a \in AP : sipireceived[a] = 1 => Passed

\* An IPI being processed has destinations left, and a SIPI has a vector.
Processing ==
  /\ at[BSP] \in {"init_send", "sipi_test", "sipi_flag"} => todo # {} /\ icr \in Ipi
  /\ at[BSP] = "scan_extra" => scan \in AP

\* What the flag of an AP stands for.
Accepted ==
  /\ \A a \in AP : at[a] \in {"guest", "init_clear"} => sipireceived[a] = 1
  /\ \A a \in AP : at[a] = "guest" => cs[a] = sipivector[a]
  /\ \A a \in AP : sipireceived[a] = 1 => sipivector[a] = expected[a] /\ expected[a] \in Vector
  /\ at[BSP] = "sipi_flag" => /\ sipivector[Min(todo)] = expected[Min(todo)]
                              /\ expected[Min(todo)] \in Vector

\* How far have_all_cores_recievedSIPI has come, in the default build.
Scanned ==
  ExtraInit = 0 =>
    /\ \A c \in CPU : at[c] # "init_clear"
    /\ at[BSP] = "sipi_flag" => scan = 0
    /\ at[BSP] \in {"scan_sipi", "scan_extra"} => \A a \in AP : a < scan => sipireceived[a] = 1
    /\ at[BSP] = "scan_extra" => sipireceived[scan] = 1
    /\ at[BSP] = "delink" => \A a \in AP : sipireceived[a] = 1

\* TypeOK, taken apart.
SipiTypes ==
  /\ sipireceived \in [CPU -> {0, 1}]
  /\ sipivector \in [CPU -> Vector \cup {0}]
  /\ cs \in [CPU -> Vector \cup {0}]
  /\ expected \in [CPU -> Vector \cup {0}]

InitTypes ==
  /\ ExtraInit \in ExtraInits
  /\ extra_init_count \in [CPU -> 0 .. ExtraInit]

PendingTypes == init_pending \in [CPU -> BOOLEAN]

IcrTypes ==
  /\ icr \in Ipi \cup {NoIpi}
  /\ todo \subseteq AP
  /\ scan \in 0 .. N

LapicTypes ==
  /\ lapic \in {"real", "virtual", "unmapped"}
  /\ g_ap_go_signal \in {0, 1}
  /\ g_all_cores_booted_up \in {0, 1}

SmpInductive ==
  /\ TypeOK
  /\ Counters
  /\ Places
  /\ Barrier
  /\ Processing
  /\ Accepted
  /\ Scanned
  /\ InterceptionHolds
  /\ NoApForgottenByDefault
  /\ ShutdownTogether

-----------------------------------------------------------------------------
(* Helpers *)

LEMMA LeastOfSet ==
  ASSUME NEW S, S \subseteq Nat, S # {}
  PROVE  Min(S) \in S
<1>1. \E x \in S : \A y \in S : ~(<<y, x>> \in OpToRel(<, Nat))
  BY NatLessThanWellFounded, WFMin, Zenon
<1>2. \A x, y \in Nat : y < x => <<y, x>> \in OpToRel(<, Nat)
  BY DEF OpToRel
<1>3. PICK x \in S : \A y \in S : ~(<<y, x>> \in OpToRel(<, Nat))
  BY <1>1
<1>4. \A y \in S : ~(y < x)
  BY <1>2, <1>3, Zenon
<1>5. \E z \in S : \A y \in S : z <= y
  BY <1>4
<1> QED
  BY <1>5, Zenon DEF Min

LEMMA Cpus == BSP \in CPU /\ BSP \notin AP /\ CPU = AP \cup {BSP}
BY NAssumption DEF CPU, AP, BSP

LEMMA IpiDestinations ==
  \A ipi \in Ipi : ipi.dest # {} /\ ipi.dest \subseteq AP /\ ipi.vector \in Vector
<1>1. 1 \in AP
  BY NAssumption DEF AP, CPU, BSP
<1> QED
  BY <1>1 DEF Ipi

\* Sets of CPUs: what the barriers use of their size.
LEMMA CpuCount ==
  ASSUME NEW S \in SUBSET CPU
  PROVE  /\ Cardinality(S) \in 0 .. N
         /\ Cardinality(S) >= N => S = CPU
         /\ \A c \in CPU \ S : Cardinality(S \cup {c}) = Cardinality(S) + 1
<1>1. IsFiniteSet(CPU) /\ Cardinality(CPU) = N
  BY NAssumption, FS_Interval DEF CPU
<1>2. /\ IsFiniteSet(S)
      /\ Cardinality(S) <= N
      /\ N = Cardinality(S) => CPU = S
  BY <1>1, FS_Subset
<1>3. Cardinality(S) \in Nat
  BY <1>2, FS_CardinalityType
<1>4. \A c \in CPU \ S : Cardinality(S \cup {c}) = Cardinality(S) + 1
  BY <1>2, FS_AddElement
<1> QED
  BY <1>2, <1>3, <1>4, NAssumption

\* The destination an IPI is being processed for is an AP it is addressed to.
LEMMA FirstTarget ==
  ASSUME TypeOK, Processing, at[BSP] \in {"init_send", "sipi_test", "sipi_flag"}
  PROVE  Min(todo) \in todo /\ Min(todo) \in AP
<1>1. todo \subseteq Nat /\ todo # {}
  BY NAssumption DEF TypeOK, Processing, AP, CPU
<1> QED
  BY <1>1, LeastOfSet DEF TypeOK

LEMMA InitSmp == Init => SmpInductive
<1> SUFFICES ASSUME Init PROVE SmpInductive
  OBVIOUS
<1> USE NAssumption, ExtraInitsAssumption DEF Init, CPU, AP, BSP
<1>1. init_pending \in [CPU -> BOOLEAN]
  BY Zenon
<1>2. TypeOK
  BY <1>1 DEF TypeOK, Where
<1>3. Counters
  <2>1. Rallied = {} /\ Succeeded = {} /\ ShutDown = {}
    BY DEF Rallied, Succeeded, ShutDown
  <2> QED
    BY <2>1, FS_EmptySet DEF Counters
<1>4. Places /\ Barrier /\ Processing /\ Accepted /\ Scanned
  BY DEF Places, BspOnly, Barrier, Passed, Processing, Accepted, Scanned
<1> QED
  BY <1>2, <1>3, <1>4 DEF SmpInductive, InterceptionHolds, NoApForgottenByDefault,
     NoApForgotten, ShutdownTogether

LEMMA StepPlaces == SmpInductive /\ [Next]_vars => Places'
<1> SUFFICES ASSUME SmpInductive, [Next]_vars PROVE Places'
  OBVIOUS
<1> at \in [CPU -> Where] /\ sipireceived \in [CPU -> {0, 1}]
  BY DEF SmpInductive, TypeOK
<1> USE Cpus DEF SmpInductive, Places, BspOnly
<1>1. ASSUME NEW c \in CPU, Rally(c) \/ Proceed(c) \/ AppMain(c) \/ AppMainWait(c)
       PROVE Places'
  BY <1>1 DEF Rally, Proceed, AppMain, AppMainWait, Goto, startvars, sipivars,
     initvars, icrvars, lapicvars
<1>2. ASSUME NEW c \in CPU, SmpGuestInitialize(c) \/ SipiWakeup(c) PROVE Places'
  BY <1>2 DEF SmpGuestInitialize, SipiWakeup, Goto, startvars, sipivars, initvars,
     icrvars, lapicvars
<1>3. ASSUME NEW c \in CPU, InitExit(c) \/ InitClear(c) \/ Shutdown(c) PROVE Places'
  BY <1>3 DEF InitExit, InitClear, Shutdown, Goto, startvars, sipivars, initvars,
     icrvars, lapicvars
<1>4. CASE LapicAccess \/ DbException \/ X2apicIcrWrite
  BY <1>4 DEF LapicAccess, DbException, X2apicIcrWrite, Goto, startvars, Ipi, NoIpi,
     sipivars, initvars, icrvars, lapicvars
<1>5. CASE ProcessInitCpu
  BY <1>5, FirstTarget DEF ProcessInitCpu, startvars, sipivars, initvars, icrvars,
     lapicvars
<1>6. CASE ProcessSipiCpu \/ ProcessSipiCpuFlag
  BY <1>6, FirstTarget DEF ProcessSipiCpu, ProcessSipiCpuFlag, startvars, sipivars,
     initvars, icrvars, lapicvars
<1>7. CASE ScanSipi \/ ScanExtra
  BY <1>7 DEF ScanSipi, ScanExtra, Goto, startvars, sipivars, initvars, icrvars,
     lapicvars
<1>8. CASE Link \/ DelinkLapic
  BY <1>8 DEF Link, DelinkLapic, Goto, startvars, sipivars, initvars, icrvars,
     lapicvars
<1>9. ASSUME NEW c \in CPU, ResetInit(c) PROVE Places'
  BY <1>9 DEF ResetInit, startvars, sipivars, initvars, icrvars, lapicvars
<1>10. CASE UNCHANGED vars
  BY <1>10 DEF vars, startvars, sipivars, initvars, icrvars, lapicvars
<1> QED
  BY <1>1, <1>2, <1>3, <1>4, <1>5, <1>6, <1>7, <1>8, <1>9, <1>10 DEF Next,
     GuestStep, HypervisorStep

LEMMA StepInterceptionHolds == SmpInductive /\ [Next]_vars => InterceptionHolds'
<1> SUFFICES ASSUME SmpInductive, [Next]_vars PROVE InterceptionHolds'
  OBVIOUS
<1> at \in [CPU -> Where]
  BY DEF SmpInductive, TypeOK
<1> USE Cpus DEF SmpInductive, InterceptionHolds, Places
<1>1. ASSUME NEW c \in CPU, Rally(c) \/ Proceed(c) \/ AppMain(c) \/ AppMainWait(c)
       PROVE InterceptionHolds'
  BY <1>1 DEF Rally, Proceed, AppMain, AppMainWait, Goto, startvars, sipivars,
     initvars, icrvars, lapicvars
<1>2. ASSUME NEW c \in CPU, SmpGuestInitialize(c) \/ SipiWakeup(c) PROVE
       InterceptionHolds'
  BY <1>2 DEF SmpGuestInitialize, SipiWakeup, Goto, startvars, sipivars, initvars,
     icrvars, lapicvars
<1>3. ASSUME NEW c \in CPU, InitExit(c) \/ InitClear(c) \/ Shutdown(c) PROVE
       InterceptionHolds'
  BY <1>3 DEF InitExit, InitClear, Shutdown, Goto, startvars, sipivars, initvars,
     icrvars, lapicvars
<1>4. CASE LapicAccess \/ DbException \/ X2apicIcrWrite
  BY <1>4 DEF LapicAccess, DbException, X2apicIcrWrite, Goto, startvars, Ipi, NoIpi,
     sipivars, initvars, icrvars, lapicvars
<1>5. CASE ProcessInitCpu
  BY <1>5, FirstTarget DEF ProcessInitCpu, startvars, sipivars, initvars, icrvars,
     lapicvars
<1>6. CASE ProcessSipiCpu \/ ProcessSipiCpuFlag
  BY <1>6, FirstTarget DEF ProcessSipiCpu, ProcessSipiCpuFlag, startvars, sipivars,
     initvars, icrvars, lapicvars
<1>7. CASE ScanSipi \/ ScanExtra
  BY <1>7 DEF ScanSipi, ScanExtra, Goto, startvars, sipivars, initvars, icrvars,
     lapicvars
<1>8. CASE Link \/ DelinkLapic
  BY <1>8 DEF Link, DelinkLapic, Goto, startvars, sipivars, initvars, icrvars,
     lapicvars
<1>9. ASSUME NEW c \in CPU, ResetInit(c) PROVE InterceptionHolds'
  BY <1>9 DEF ResetInit, startvars, sipivars, initvars, icrvars, lapicvars
<1>10. CASE UNCHANGED vars
  BY <1>10 DEF vars, startvars, sipivars, initvars, icrvars, lapicvars
<1> QED
  BY <1>1, <1>2, <1>3, <1>4, <1>5, <1>6, <1>7, <1>8, <1>9, <1>10 DEF Next,
     GuestStep, HypervisorStep

LEMMA StepProcessing == SmpInductive /\ [Next]_vars => Processing'
<1> SUFFICES ASSUME SmpInductive, [Next]_vars PROVE Processing'
  OBVIOUS
<1> at \in [CPU -> Where]
  BY DEF SmpInductive, TypeOK
<1> USE Cpus DEF SmpInductive, Processing
<1>1. ASSUME NEW c \in CPU, Rally(c) \/ Proceed(c) \/ AppMain(c) \/ AppMainWait(c)
       PROVE Processing'
  BY <1>1 DEF Rally, Proceed, AppMain, AppMainWait, Goto, startvars, sipivars,
     initvars, icrvars, lapicvars
<1>2. ASSUME NEW c \in CPU, SmpGuestInitialize(c) \/ SipiWakeup(c) PROVE Processing'
  BY <1>2 DEF SmpGuestInitialize, SipiWakeup, Goto, startvars, sipivars, initvars,
     icrvars, lapicvars
<1>3. ASSUME NEW c \in CPU, InitExit(c) \/ InitClear(c) \/ Shutdown(c) PROVE
       Processing'
  BY <1>3 DEF InitExit, InitClear, Shutdown, Goto, startvars, sipivars, initvars,
     icrvars, lapicvars
<1>4. CASE LapicAccess \/ DbException \/ X2apicIcrWrite
  <2>1. icr \in Ipi \cup {NoIpi} /\ \A ipi \in Ipi : ipi.dest # {}
    BY IpiDestinations DEF TypeOK
  <2>2. CASE LapicAccess
    BY <2>2 DEF LapicAccess, Goto
  <2>3. CASE DbException
    BY <2>1, <2>3 DEF DbException, Goto, NoIpi
  <2>4. CASE X2apicIcrWrite
    BY <2>1, <2>4 DEF X2apicIcrWrite, Goto
  <2> QED
    BY <1>4, <2>2, <2>3, <2>4
<1>5. CASE ProcessInitCpu
  BY <1>5, FirstTarget DEF ProcessInitCpu, startvars, sipivars, initvars, icrvars,
     lapicvars
<1>6. CASE ProcessSipiCpu \/ ProcessSipiCpuFlag
  BY <1>6, FirstTarget DEF ProcessSipiCpu, ProcessSipiCpuFlag, startvars, sipivars,
     initvars, icrvars, lapicvars
<1>7. CASE ScanSipi \/ ScanExtra
  <2>1. scan # N /\ scan # BSP => scan \in AP
    BY NAssumption DEF SmpInductive, TypeOK, AP, CPU, BSP
  <2> QED
    BY <1>7, <2>1 DEF ScanSipi, ScanExtra, Goto
<1>8. CASE Link \/ DelinkLapic
  BY <1>8 DEF Link, DelinkLapic, Goto, startvars, sipivars, initvars, icrvars,
     lapicvars
<1>9. ASSUME NEW c \in CPU, ResetInit(c) PROVE Processing'
  BY <1>9 DEF ResetInit, startvars, sipivars, initvars, icrvars, lapicvars
<1>10. CASE UNCHANGED vars
  BY <1>10 DEF vars, startvars, sipivars, initvars, icrvars, lapicvars
<1> QED
  BY <1>1, <1>2, <1>3, <1>4, <1>5, <1>6, <1>7, <1>8, <1>9, <1>10 DEF Next,
     GuestStep, HypervisorStep

LEMMA TypeParts ==
  TypeOK <=> /\ at \in [CPU -> Where]
             /\ SipiTypes /\ InitTypes /\ PendingTypes /\ IcrTypes /\ LapicTypes
             /\ g_cpus_active \in 0 .. N
             /\ g_appmain_success_counter \in 0 .. N
             /\ shutdown_count \in 0 .. N
BY DEF TypeOK, SipiTypes, InitTypes, PendingTypes, IcrTypes, LapicTypes

LEMMA StepPlaceType == SmpInductive /\ [Next]_vars => at' \in [CPU -> Where]
<1> SUFFICES ASSUME SmpInductive, [Next]_vars PROVE at' \in [CPU -> Where]
  OBVIOUS
<1> at \in [CPU -> Where]
  BY TypeParts DEF SmpInductive
<1> USE Cpus DEF SmpInductive, Where
<1>1. ASSUME NEW c \in CPU, Rally(c) \/ Proceed(c) \/ AppMain(c) \/ AppMainWait(c)
       PROVE at' \in [CPU -> Where]
  BY <1>1 DEF Rally, Proceed, AppMain, AppMainWait, Goto, startvars, sipivars,
     initvars, icrvars, lapicvars
<1>2. ASSUME NEW c \in CPU, SmpGuestInitialize(c) \/ SipiWakeup(c) PROVE at' \in [CPU -> Where]
  BY <1>2 DEF SmpGuestInitialize, SipiWakeup, Goto, startvars, sipivars, initvars,
     icrvars, lapicvars
<1>3. ASSUME NEW c \in CPU, InitExit(c) \/ InitClear(c) \/ Shutdown(c) PROVE
       at' \in [CPU -> Where]
  BY <1>3 DEF InitExit, InitClear, Shutdown, Goto, startvars, sipivars, initvars,
     icrvars, lapicvars
<1>4. CASE LapicAccess \/ DbException \/ X2apicIcrWrite
  BY <1>4 DEF LapicAccess, DbException, X2apicIcrWrite, Goto, startvars, Ipi, NoIpi,
     sipivars, initvars, icrvars, lapicvars
<1>5. CASE ProcessInitCpu
  BY <1>5, FirstTarget DEF ProcessInitCpu, startvars, sipivars, initvars, icrvars,
     lapicvars
<1>6. CASE ProcessSipiCpu \/ ProcessSipiCpuFlag
  BY <1>6, FirstTarget DEF ProcessSipiCpu, ProcessSipiCpuFlag, startvars, sipivars,
     initvars, icrvars, lapicvars
<1>7. CASE ScanSipi \/ ScanExtra
  BY <1>7 DEF ScanSipi, ScanExtra, Goto, startvars, sipivars, initvars, icrvars,
     lapicvars
<1>8. CASE Link \/ DelinkLapic
  BY <1>8 DEF Link, DelinkLapic, Goto, startvars, sipivars, initvars, icrvars,
     lapicvars
<1>9. ASSUME NEW c \in CPU, ResetInit(c) PROVE at' \in [CPU -> Where]
  BY <1>9 DEF ResetInit, startvars, sipivars, initvars, icrvars, lapicvars
<1>10. CASE UNCHANGED vars
  BY <1>10 DEF vars, startvars, sipivars, initvars, icrvars, lapicvars
<1> QED
  BY <1>1, <1>2, <1>3, <1>4, <1>5, <1>6, <1>7, <1>8, <1>9, <1>10 DEF Next,
     GuestStep, HypervisorStep

LEMMA StepSipiTypes == SmpInductive /\ [Next]_vars => SipiTypes'
<1> SUFFICES ASSUME SmpInductive, [Next]_vars PROVE SipiTypes'
  OBVIOUS
<1> at \in [CPU -> Where] /\ SipiTypes
  BY TypeParts DEF SmpInductive
<1> USE Cpus DEF SmpInductive, SipiTypes
<1>1. ASSUME NEW c \in CPU, Rally(c) \/ Proceed(c) \/ AppMain(c) \/ AppMainWait(c)
       PROVE SipiTypes'
  BY <1>1, IpiDestinations DEF Rally, Proceed, AppMain, AppMainWait, Goto, sipivars,
     initvars, icrvars, lapicvars
<1>2. ASSUME NEW c \in CPU, SmpGuestInitialize(c) \/ SipiWakeup(c) PROVE SipiTypes'
  BY <1>2, IpiDestinations DEF SmpGuestInitialize, SipiWakeup, Goto, startvars,
     sipivars, initvars, icrvars, lapicvars
<1>3. ASSUME NEW c \in CPU, InitExit(c) \/ InitClear(c) \/ Shutdown(c) PROVE
       SipiTypes'
  BY <1>3, IpiDestinations DEF InitExit, InitClear, Shutdown, Goto, startvars,
     sipivars, initvars, icrvars, lapicvars
<1>4. CASE LapicAccess \/ DbException \/ X2apicIcrWrite
  BY <1>4, IpiDestinations DEF LapicAccess, DbException, X2apicIcrWrite, Goto,
     startvars, Ipi, NoIpi, sipivars, initvars, icrvars, lapicvars
<1>5. CASE ProcessInitCpu
  BY <1>5, FirstTarget, IpiDestinations DEF ProcessInitCpu, startvars, sipivars,
     initvars, icrvars, lapicvars
<1>6. CASE ProcessSipiCpu \/ ProcessSipiCpuFlag
  <2>1. Min(todo) \in CPU /\ icr.vector \in Vector
    BY <1>6, FirstTarget, IpiDestinations
       DEF ProcessSipiCpu, ProcessSipiCpuFlag, Processing
  <2> QED
    BY <1>6, <2>1 DEF ProcessSipiCpu, ProcessSipiCpuFlag
<1>7. CASE ScanSipi \/ ScanExtra
  BY <1>7, IpiDestinations DEF ScanSipi, ScanExtra, Goto, startvars, sipivars,
     initvars, icrvars, lapicvars
<1>8. CASE Link \/ DelinkLapic
  BY <1>8, IpiDestinations DEF Link, DelinkLapic, Goto, startvars, sipivars,
     initvars, icrvars, lapicvars
<1>9. ASSUME NEW c \in CPU, ResetInit(c) PROVE SipiTypes'
  BY <1>9, IpiDestinations DEF ResetInit, startvars, sipivars, initvars, icrvars,
     lapicvars
<1>10. CASE UNCHANGED vars
  BY <1>10 DEF vars, startvars, sipivars, initvars, icrvars, lapicvars
<1> QED
  BY <1>1, <1>2, <1>3, <1>4, <1>5, <1>6, <1>7, <1>8, <1>9, <1>10 DEF Next,
     GuestStep, HypervisorStep

LEMMA StepInitTypes == SmpInductive /\ [Next]_vars => InitTypes'
<1> SUFFICES ASSUME SmpInductive, [Next]_vars PROVE InitTypes'
  OBVIOUS
<1> at \in [CPU -> Where] /\ InitTypes
  BY TypeParts DEF SmpInductive
<1> USE Cpus DEF SmpInductive, InitTypes
<1>1. ASSUME NEW c \in CPU, Rally(c) \/ Proceed(c) \/ AppMain(c) \/ AppMainWait(c)
       PROVE InitTypes'
  BY <1>1 DEF Rally, Proceed, AppMain, AppMainWait, Goto, startvars, sipivars,
     initvars, icrvars, lapicvars
<1>2. ASSUME NEW c \in CPU, SmpGuestInitialize(c) \/ SipiWakeup(c) PROVE InitTypes'
  BY <1>2 DEF SmpGuestInitialize, SipiWakeup, Goto, startvars, sipivars, initvars,
     icrvars, lapicvars
<1>3. ASSUME NEW c \in CPU, InitExit(c) \/ InitClear(c) \/ Shutdown(c) PROVE InitTypes'
  <2>1. ExtraInit \in Nat
    BY ExtraInitsAssumption
  <2> QED
    BY <1>3, <2>1 DEF InitExit, InitClear, Shutdown, Goto, initvars
<1>4. CASE LapicAccess \/ DbException \/ X2apicIcrWrite
  BY <1>4 DEF LapicAccess, DbException, X2apicIcrWrite, Goto, startvars, Ipi, NoIpi,
     sipivars, initvars, icrvars, lapicvars
<1>5. CASE ProcessInitCpu
  BY <1>5, FirstTarget DEF ProcessInitCpu, startvars, sipivars, initvars, icrvars,
     lapicvars
<1>6. CASE ProcessSipiCpu \/ ProcessSipiCpuFlag
  BY <1>6, FirstTarget DEF ProcessSipiCpu, ProcessSipiCpuFlag, startvars, sipivars,
     initvars, icrvars, lapicvars
<1>7. CASE ScanSipi \/ ScanExtra
  BY <1>7 DEF ScanSipi, ScanExtra, Goto, startvars, sipivars, initvars, icrvars,
     lapicvars
<1>8. CASE Link \/ DelinkLapic
  BY <1>8 DEF Link, DelinkLapic, Goto, startvars, sipivars, initvars, icrvars,
     lapicvars
<1>9. ASSUME NEW c \in CPU, ResetInit(c) PROVE InitTypes'
  BY <1>9 DEF ResetInit, startvars, sipivars, initvars, icrvars, lapicvars
<1>10. CASE UNCHANGED vars
  BY <1>10 DEF vars, startvars, sipivars, initvars, icrvars, lapicvars
<1> QED
  BY <1>1, <1>2, <1>3, <1>4, <1>5, <1>6, <1>7, <1>8, <1>9, <1>10 DEF Next,
     GuestStep, HypervisorStep

LEMMA StepPendingTypes == SmpInductive /\ [Next]_vars => PendingTypes'
<1> SUFFICES ASSUME SmpInductive, [Next]_vars PROVE PendingTypes'
  OBVIOUS
<1> at \in [CPU -> Where] /\ PendingTypes
  BY TypeParts DEF SmpInductive
<1> USE Cpus DEF SmpInductive, PendingTypes
<1>1. ASSUME NEW c \in CPU, Rally(c) \/ Proceed(c) \/ AppMain(c) \/ AppMainWait(c)
       PROVE PendingTypes'
  BY <1>1 DEF Rally, Proceed, AppMain, AppMainWait, Goto, startvars, sipivars,
     initvars, icrvars, lapicvars
<1>2. ASSUME NEW c \in CPU, SmpGuestInitialize(c) \/ SipiWakeup(c) PROVE
       PendingTypes'
  BY <1>2 DEF SmpGuestInitialize, SipiWakeup, Goto, startvars, sipivars, initvars,
     icrvars, lapicvars
<1>3. ASSUME NEW c \in CPU, InitExit(c) \/ InitClear(c) \/ Shutdown(c) PROVE
       PendingTypes'
  BY <1>3 DEF InitExit, InitClear, Shutdown, Goto, startvars, sipivars, initvars,
     icrvars, lapicvars
<1>4. CASE LapicAccess \/ DbException \/ X2apicIcrWrite
  BY <1>4 DEF LapicAccess, DbException, X2apicIcrWrite, Goto, startvars, Ipi, NoIpi,
     sipivars, initvars, icrvars, lapicvars
<1>5. CASE ProcessInitCpu
  BY <1>5, FirstTarget DEF ProcessInitCpu, startvars, sipivars, initvars, icrvars,
     lapicvars
<1>6. CASE ProcessSipiCpu \/ ProcessSipiCpuFlag
  BY <1>6, FirstTarget DEF ProcessSipiCpu, ProcessSipiCpuFlag, startvars, sipivars,
     initvars, icrvars, lapicvars
<1>7. CASE ScanSipi \/ ScanExtra
  BY <1>7 DEF ScanSipi, ScanExtra, Goto, startvars, sipivars, initvars, icrvars,
     lapicvars
<1>8. CASE Link \/ DelinkLapic
  BY <1>8 DEF Link, DelinkLapic, Goto, startvars, sipivars, initvars, icrvars,
     lapicvars
<1>9. ASSUME NEW c \in CPU, ResetInit(c) PROVE PendingTypes'
  BY <1>9 DEF ResetInit, startvars, sipivars, initvars, icrvars, lapicvars
<1>10. CASE UNCHANGED vars
  BY <1>10 DEF vars, startvars, sipivars, initvars, icrvars, lapicvars
<1> QED
  BY <1>1, <1>2, <1>3, <1>4, <1>5, <1>6, <1>7, <1>8, <1>9, <1>10 DEF Next,
     GuestStep, HypervisorStep

LEMMA StepIcrTypes == SmpInductive /\ [Next]_vars => IcrTypes'
<1> SUFFICES ASSUME SmpInductive, [Next]_vars PROVE IcrTypes'
  OBVIOUS
<1> at \in [CPU -> Where] /\ IcrTypes
  BY TypeParts DEF SmpInductive
<1> USE Cpus DEF SmpInductive, IcrTypes, Processing
<1>1. ASSUME NEW c \in CPU, Rally(c) \/ Proceed(c) \/ AppMain(c) \/ AppMainWait(c)
       PROVE IcrTypes'
  BY <1>1 DEF Rally, Proceed, AppMain, AppMainWait, Goto, startvars, sipivars,
     initvars, icrvars, lapicvars
<1>2. ASSUME NEW c \in CPU, SmpGuestInitialize(c) \/ SipiWakeup(c) PROVE IcrTypes'
  BY <1>2 DEF SmpGuestInitialize, SipiWakeup, Goto, startvars, sipivars, initvars,
     icrvars, lapicvars
<1>3. ASSUME NEW c \in CPU, InitExit(c) \/ InitClear(c) \/ Shutdown(c) PROVE
       IcrTypes'
  BY <1>3 DEF InitExit, InitClear, Shutdown, Goto, startvars, sipivars, initvars,
     icrvars, lapicvars
<1>4. CASE LapicAccess \/ DbException \/ X2apicIcrWrite
  BY <1>4 DEF LapicAccess, DbException, X2apicIcrWrite, Goto, startvars, Ipi, NoIpi,
     sipivars, initvars, icrvars, lapicvars
<1>5. CASE ProcessInitCpu
  BY <1>5, FirstTarget DEF ProcessInitCpu, startvars, sipivars, initvars, icrvars,
     lapicvars
<1>6. CASE ProcessSipiCpu \/ ProcessSipiCpuFlag
  BY <1>6, NAssumption DEF ProcessSipiCpu, ProcessSipiCpuFlag
<1>7. CASE ScanSipi \/ ScanExtra
  <2>1. scan \in AP => scan + 1 \in 0 .. N
    BY NAssumption DEF AP, CPU, BSP
  <2>2. BSP + 1 \in 0 .. N
    BY NAssumption DEF BSP
  <2> QED
    BY <1>7, <2>1, <2>2 DEF ScanSipi, ScanExtra, Goto
<1>8. CASE Link \/ DelinkLapic
  BY <1>8, NAssumption DEF Link, DelinkLapic
<1>9. ASSUME NEW c \in CPU, ResetInit(c) PROVE IcrTypes'
  BY <1>9 DEF ResetInit, startvars, sipivars, initvars, icrvars, lapicvars
<1>10. CASE UNCHANGED vars
  BY <1>10 DEF vars, startvars, sipivars, initvars, icrvars, lapicvars
<1> QED
  BY <1>1, <1>2, <1>3, <1>4, <1>5, <1>6, <1>7, <1>8, <1>9, <1>10 DEF Next,
     GuestStep, HypervisorStep

LEMMA StepLapicTypes == SmpInductive /\ [Next]_vars => LapicTypes'
<1> SUFFICES ASSUME SmpInductive, [Next]_vars PROVE LapicTypes'
  OBVIOUS
<1> at \in [CPU -> Where] /\ LapicTypes
  BY TypeParts DEF SmpInductive
<1> USE Cpus DEF SmpInductive, LapicTypes
<1>1. ASSUME NEW c \in CPU, Rally(c) \/ Proceed(c) \/ AppMain(c) \/ AppMainWait(c)
       PROVE LapicTypes'
  BY <1>1 DEF Rally, Proceed, AppMain, AppMainWait, Goto, startvars, sipivars,
     initvars, icrvars, lapicvars
<1>2. ASSUME NEW c \in CPU, SmpGuestInitialize(c) \/ SipiWakeup(c) PROVE LapicTypes'
  BY <1>2 DEF SmpGuestInitialize, SipiWakeup, Goto, startvars, sipivars, initvars,
     icrvars, lapicvars
<1>3. ASSUME NEW c \in CPU, InitExit(c) \/ InitClear(c) \/ Shutdown(c) PROVE
       LapicTypes'
  BY <1>3 DEF InitExit, InitClear, Shutdown, Goto, startvars, sipivars, initvars,
     icrvars, lapicvars
<1>4. CASE LapicAccess \/ DbException \/ X2apicIcrWrite
  BY <1>4 DEF LapicAccess, DbException, X2apicIcrWrite, Goto, startvars, Ipi, NoIpi,
     sipivars, initvars, icrvars, lapicvars
<1>5. CASE ProcessInitCpu
  BY <1>5, FirstTarget DEF ProcessInitCpu, startvars, sipivars, initvars, icrvars,
     lapicvars
<1>6. CASE ProcessSipiCpu \/ ProcessSipiCpuFlag
  BY <1>6, FirstTarget DEF ProcessSipiCpu, ProcessSipiCpuFlag, startvars, sipivars,
     initvars, icrvars, lapicvars
<1>7. CASE ScanSipi \/ ScanExtra
  BY <1>7 DEF ScanSipi, ScanExtra, Goto, startvars, sipivars, initvars, icrvars,
     lapicvars
<1>8. CASE Link \/ DelinkLapic
  BY <1>8 DEF Link, DelinkLapic, Goto, startvars, sipivars, initvars, icrvars,
     lapicvars
<1>9. ASSUME NEW c \in CPU, ResetInit(c) PROVE LapicTypes'
  BY <1>9 DEF ResetInit, startvars, sipivars, initvars, icrvars, lapicvars
<1>10. CASE UNCHANGED vars
  BY <1>10 DEF vars, startvars, sipivars, initvars, icrvars, lapicvars
<1> QED
  BY <1>1, <1>2, <1>3, <1>4, <1>5, <1>6, <1>7, <1>8, <1>9, <1>10 DEF Next,
     GuestStep, HypervisorStep

LEMMA StepBarrier == SmpInductive /\ [Next]_vars => Barrier'
<1> SUFFICES ASSUME SmpInductive, [Next]_vars PROVE Barrier'
  OBVIOUS
<1> at \in [CPU -> Where] /\ SipiTypes
  BY TypeParts DEF SmpInductive
<1> USE Cpus DEF SmpInductive, SipiTypes, Barrier, Passed, Succeeded, Places, BspOnly
<1>1. ASSUME NEW c \in CPU, Rally(c) \/ Proceed(c) \/ AppMain(c) \/ AppMainWait(c)
      PROVE  Barrier'
  <2>1. g_appmain_success_counter >= N => Succeeded = CPU
    BY CpuCount DEF Counters
  <2> QED
    BY <1>1, <2>1 DEF Rally, Proceed, AppMain, AppMainWait, Goto, startvars, sipivars
<1>2. ASSUME NEW c \in CPU, SmpGuestInitialize(c) \/ SipiWakeup(c) PROVE Barrier'
  BY <1>2 DEF SmpGuestInitialize, SipiWakeup, Goto, startvars, sipivars, initvars,
     icrvars, lapicvars
<1>3. ASSUME NEW c \in CPU, InitExit(c) \/ InitClear(c) \/ Shutdown(c) PROVE Barrier'
  BY <1>3 DEF InitExit, InitClear, Shutdown, Goto, startvars, sipivars, initvars,
     icrvars, lapicvars
<1>4. CASE LapicAccess \/ DbException \/ X2apicIcrWrite
  BY <1>4 DEF LapicAccess, DbException, X2apicIcrWrite, Goto, startvars, Ipi, NoIpi,
     sipivars, initvars, icrvars, lapicvars
<1>5. CASE ProcessInitCpu
  BY <1>5, FirstTarget DEF ProcessInitCpu, startvars, sipivars, initvars, icrvars,
     lapicvars
<1>6. CASE ProcessSipiCpu \/ ProcessSipiCpuFlag
  BY <1>6, FirstTarget DEF ProcessSipiCpu, ProcessSipiCpuFlag, startvars, sipivars,
     initvars, icrvars, lapicvars
<1>7. CASE ScanSipi \/ ScanExtra
  BY <1>7 DEF ScanSipi, ScanExtra, Goto, startvars, sipivars, initvars, icrvars,
     lapicvars
<1>8. CASE Link \/ DelinkLapic
  BY <1>8 DEF Link, DelinkLapic, Goto, startvars, sipivars, initvars, icrvars,
     lapicvars
<1>9. ASSUME NEW c \in CPU, ResetInit(c) PROVE Barrier'
  BY <1>9 DEF ResetInit, startvars, sipivars, initvars, icrvars, lapicvars
<1>10. CASE UNCHANGED vars
  BY <1>10 DEF vars, startvars, sipivars, initvars, icrvars, lapicvars
<1> QED
  BY <1>1, <1>2, <1>3, <1>4, <1>5, <1>6, <1>7, <1>8, <1>9, <1>10 DEF Next,
     GuestStep, HypervisorStep

LEMMA StepAccepted == SmpInductive /\ [Next]_vars => Accepted'
<1> SUFFICES ASSUME SmpInductive, [Next]_vars PROVE Accepted'
  OBVIOUS
<1> at \in [CPU -> Where] /\ SipiTypes
  BY TypeParts DEF SmpInductive
<1> USE Cpus DEF SmpInductive, SipiTypes, Accepted, Places, BspOnly, Processing
<1>1. ASSUME NEW c \in CPU, Rally(c) \/ Proceed(c) \/ AppMain(c) \/ AppMainWait(c)
       PROVE Accepted'
  BY <1>1 DEF Rally, Proceed, AppMain, AppMainWait, Goto, startvars, sipivars,
     initvars, icrvars, lapicvars
<1>2. ASSUME NEW c \in CPU, SmpGuestInitialize(c) \/ SipiWakeup(c) PROVE Accepted'
  BY <1>2 DEF SmpGuestInitialize, SipiWakeup, Goto, startvars, sipivars, initvars,
     icrvars, lapicvars
<1>3. ASSUME NEW c \in CPU, InitExit(c) \/ InitClear(c) \/ Shutdown(c) PROVE
       Accepted'
  BY <1>3 DEF InitExit, InitClear, Shutdown, Goto, startvars, sipivars, initvars,
     icrvars, lapicvars
<1>4. CASE LapicAccess \/ DbException \/ X2apicIcrWrite
  BY <1>4 DEF LapicAccess, DbException, X2apicIcrWrite, Goto, startvars, Ipi, NoIpi,
     sipivars, initvars, icrvars, lapicvars
<1>5. CASE ProcessInitCpu
  BY <1>5, FirstTarget DEF ProcessInitCpu, startvars, sipivars, initvars, icrvars,
     lapicvars
<1>6. CASE ProcessSipiCpu \/ ProcessSipiCpuFlag
  <2>1. Min(todo) \in AP /\ icr.vector \in Vector
    BY <1>6, FirstTarget, IpiDestinations
       DEF ProcessSipiCpu, ProcessSipiCpuFlag, Processing
  <2>2. CASE ProcessSipiCpu
    BY <2>1, <2>2 DEF ProcessSipiCpu
  <2>3. CASE ProcessSipiCpuFlag
    BY <2>1, <2>3 DEF ProcessSipiCpuFlag
  <2> QED
    BY <1>6, <2>2, <2>3
<1>7. CASE ScanSipi \/ ScanExtra
  BY <1>7 DEF ScanSipi, ScanExtra, Goto, startvars, sipivars, initvars, icrvars,
     lapicvars
<1>8. CASE Link \/ DelinkLapic
  BY <1>8 DEF Link, DelinkLapic, Goto, startvars, sipivars, initvars, icrvars,
     lapicvars
<1>9. ASSUME NEW c \in CPU, ResetInit(c) PROVE Accepted'
  BY <1>9 DEF ResetInit, startvars, sipivars, initvars, icrvars, lapicvars
<1>10. CASE UNCHANGED vars
  BY <1>10 DEF vars, startvars, sipivars, initvars, icrvars, lapicvars
<1> QED
  BY <1>1, <1>2, <1>3, <1>4, <1>5, <1>6, <1>7, <1>8, <1>9, <1>10 DEF Next,
     GuestStep, HypervisorStep

LEMMA StepScanned == SmpInductive /\ [Next]_vars => Scanned'
<1> SUFFICES ASSUME SmpInductive, [Next]_vars PROVE Scanned'
  OBVIOUS
<1> at \in [CPU -> Where] /\ SipiTypes
  BY TypeParts DEF SmpInductive
<1> USE Cpus DEF SmpInductive, SipiTypes, Scanned, Processing, Accepted
<1>1. ASSUME NEW c \in CPU, Rally(c) \/ Proceed(c) \/ AppMain(c) \/ AppMainWait(c)
       PROVE Scanned'
  BY <1>1 DEF Rally, Proceed, AppMain, AppMainWait, Goto, startvars, sipivars,
     initvars, icrvars, lapicvars
<1>2. ASSUME NEW c \in CPU, SmpGuestInitialize(c) \/ SipiWakeup(c) PROVE Scanned'
  BY <1>2 DEF SmpGuestInitialize, SipiWakeup, Goto, startvars, sipivars, initvars,
     icrvars, lapicvars
<1>3. ASSUME NEW c \in CPU, InitExit(c) \/ InitClear(c) \/ Shutdown(c) PROVE Scanned'
  <2>1. ExtraInit = 0 => extra_init_count[c] = 0
    BY TypeParts DEF InitTypes
  <2> QED
    BY <1>3, <2>1 DEF InitExit, InitClear, Shutdown, Goto, sipivars, initvars, icrvars
<1>4. CASE LapicAccess \/ DbException \/ X2apicIcrWrite
  BY <1>4 DEF LapicAccess, DbException, X2apicIcrWrite, Goto, startvars, Ipi, NoIpi,
     sipivars, initvars, icrvars, lapicvars
<1>5. CASE ProcessInitCpu
  BY <1>5, FirstTarget DEF ProcessInitCpu, startvars, sipivars, initvars, icrvars,
     lapicvars
<1>6. CASE ProcessSipiCpu \/ ProcessSipiCpuFlag
  <2>1. Min(todo) \in AP /\ \A a \in AP : ~(a < 0)
    BY <1>6, FirstTarget DEF ProcessSipiCpu, ProcessSipiCpuFlag, AP, CPU
  <2>2. CASE ProcessSipiCpu
    BY <2>1, <2>2 DEF ProcessSipiCpu, sipivars, initvars
  <2>3. CASE ProcessSipiCpuFlag
    BY <2>1, <2>3 DEF ProcessSipiCpuFlag, sipivars, initvars
  <2> QED
    BY <1>6, <2>2, <2>3
<1>7. CASE ScanSipi \/ ScanExtra
  <2>1. scan \in 0 .. N /\ \A a \in AP : a \in Nat /\ a < N
    BY TypeParts, NAssumption DEF IcrTypes, AP, CPU
  <2>2. \A a \in AP : a < scan + 1 => a < scan \/ a = scan
    BY <2>1
  <2>3. \A a \in AP : ~(a < BSP + 1)
    BY <2>1 DEF AP, BSP
  <2>4. CASE ScanSipi
    BY <2>1, <2>2, <2>3, <2>4 DEF ScanSipi, sipivars, initvars
  <2>5. CASE ScanExtra
    BY <2>1, <2>2, <2>5 DEF ScanExtra, Goto, sipivars, initvars
  <2> QED
    BY <1>7, <2>4, <2>5
<1>8. CASE Link \/ DelinkLapic
  BY <1>8 DEF Link, DelinkLapic, Goto, startvars, sipivars, initvars, icrvars,
     lapicvars
<1>9. ASSUME NEW c \in CPU, ResetInit(c) PROVE Scanned'
  BY <1>9 DEF ResetInit, startvars, sipivars, initvars, icrvars, lapicvars
<1>10. CASE UNCHANGED vars
  BY <1>10 DEF vars, startvars, sipivars, initvars, icrvars, lapicvars
<1> QED
  BY <1>1, <1>2, <1>3, <1>4, <1>5, <1>6, <1>7, <1>8, <1>9, <1>10 DEF Next,
     GuestStep, HypervisorStep

LEMMA StepNoApForgottenByDefault == SmpInductive /\ [Next]_vars => NoApForgottenByDefault'
<1> SUFFICES ASSUME SmpInductive, [Next]_vars PROVE NoApForgottenByDefault'
  OBVIOUS
<1> at \in [CPU -> Where] /\ SipiTypes
  BY TypeParts DEF SmpInductive
<1> USE Cpus DEF SmpInductive, SipiTypes, NoApForgottenByDefault, NoApForgotten, Scanned
<1>1. ASSUME NEW c \in CPU, Rally(c) \/ Proceed(c) \/ AppMain(c) \/ AppMainWait(c)
       PROVE NoApForgottenByDefault'
  BY <1>1 DEF Rally, Proceed, AppMain, AppMainWait, Goto, startvars, sipivars,
     initvars, icrvars, lapicvars
<1>2. ASSUME NEW c \in CPU, SmpGuestInitialize(c) \/ SipiWakeup(c) PROVE
       NoApForgottenByDefault'
  BY <1>2 DEF SmpGuestInitialize, SipiWakeup, Goto, startvars, sipivars, initvars,
     icrvars, lapicvars
<1>3. ASSUME NEW c \in CPU, InitExit(c) \/ InitClear(c) \/ Shutdown(c)
      PROVE  NoApForgottenByDefault'
  <2>1. ExtraInit = 0 => extra_init_count[c] = 0
    BY TypeParts DEF InitTypes
  <2> QED
    BY <1>3, <2>1 DEF InitExit, InitClear, Shutdown, Goto, sipivars, initvars, lapicvars
<1>4. CASE LapicAccess \/ DbException \/ X2apicIcrWrite
  BY <1>4 DEF LapicAccess, DbException, X2apicIcrWrite, Goto, startvars, Ipi, NoIpi,
     sipivars, initvars, icrvars, lapicvars
<1>5. CASE ProcessInitCpu
  BY <1>5, FirstTarget DEF ProcessInitCpu, startvars, sipivars, initvars, icrvars,
     lapicvars
<1>6. CASE ProcessSipiCpu \/ ProcessSipiCpuFlag
  BY <1>6, FirstTarget DEF ProcessSipiCpu, ProcessSipiCpuFlag, startvars, sipivars,
     initvars, icrvars, lapicvars
<1>7. CASE ScanSipi \/ ScanExtra
  BY <1>7 DEF ScanSipi, ScanExtra, Goto, startvars, sipivars, initvars, icrvars,
     lapicvars
<1>8. CASE Link \/ DelinkLapic
  BY <1>8 DEF Link, DelinkLapic, Goto, startvars, sipivars, initvars, icrvars,
     lapicvars
<1>9. ASSUME NEW c \in CPU, ResetInit(c) PROVE NoApForgottenByDefault'
  BY <1>9 DEF ResetInit, startvars, sipivars, initvars, icrvars, lapicvars
<1>10. CASE UNCHANGED vars
  BY <1>10 DEF vars, startvars, sipivars, initvars, icrvars, lapicvars
<1> QED
  BY <1>1, <1>2, <1>3, <1>4, <1>5, <1>6, <1>7, <1>8, <1>9, <1>10 DEF Next,
     GuestStep, HypervisorStep

LEMMA StepShutdownTogether == SmpInductive /\ [Next]_vars => ShutdownTogether'
<1> SUFFICES ASSUME SmpInductive, [Next]_vars PROVE ShutdownTogether'
  OBVIOUS
<1> at \in [CPU -> Where]
  BY DEF SmpInductive, TypeOK
<1> USE Cpus DEF SmpInductive, ShutdownTogether
<1>1. ASSUME NEW c \in CPU, Rally(c) \/ Proceed(c) \/ AppMain(c) \/ AppMainWait(c)
       PROVE ShutdownTogether'
  BY <1>1 DEF Rally, Proceed, AppMain, AppMainWait, Goto, startvars, sipivars,
     initvars, icrvars, lapicvars
<1>2. ASSUME NEW c \in CPU, SmpGuestInitialize(c) \/ SipiWakeup(c) PROVE
       ShutdownTogether'
  BY <1>2 DEF SmpGuestInitialize, SipiWakeup, Goto, startvars, sipivars, initvars,
     icrvars, lapicvars
<1>3. ASSUME NEW c \in CPU, InitExit(c) \/ InitClear(c) \/ Shutdown(c)
      PROVE  ShutdownTogether'
  <2>1. shutdown_count >= N => ShutDown = CPU
    BY CpuCount DEF Counters, ShutDown
  <2> QED
    BY <1>3, <2>1 DEF InitExit, InitClear, Shutdown, Goto, ShutDown
<1>4. CASE LapicAccess \/ DbException \/ X2apicIcrWrite
  BY <1>4 DEF LapicAccess, DbException, X2apicIcrWrite, Goto, startvars, Ipi, NoIpi,
     sipivars, initvars, icrvars, lapicvars
<1>5. CASE ProcessInitCpu
  BY <1>5, FirstTarget DEF ProcessInitCpu, startvars, sipivars, initvars, icrvars,
     lapicvars
<1>6. CASE ProcessSipiCpu \/ ProcessSipiCpuFlag
  BY <1>6, FirstTarget DEF ProcessSipiCpu, ProcessSipiCpuFlag, startvars, sipivars,
     initvars, icrvars, lapicvars
<1>7. CASE ScanSipi \/ ScanExtra
  BY <1>7 DEF ScanSipi, ScanExtra, Goto, startvars, sipivars, initvars, icrvars,
     lapicvars
<1>8. CASE Link \/ DelinkLapic
  BY <1>8 DEF Link, DelinkLapic, Goto, startvars, sipivars, initvars, icrvars,
     lapicvars
<1>9. ASSUME NEW c \in CPU, ResetInit(c) PROVE ShutdownTogether'
  BY <1>9 DEF ResetInit, startvars, sipivars, initvars, icrvars, lapicvars
<1>10. CASE UNCHANGED vars
  BY <1>10 DEF vars, startvars, sipivars, initvars, icrvars, lapicvars
<1> QED
  BY <1>1, <1>2, <1>3, <1>4, <1>5, <1>6, <1>7, <1>8, <1>9, <1>10 DEF Next,
     GuestStep, HypervisorStep

\* Each counter is increased by the steps that take a CPU into its set.
LEMMA StepCounters == SmpInductive /\ [Next]_vars => Counters'
<1> SUFFICES ASSUME SmpInductive, [Next]_vars PROVE Counters'
  OBVIOUS
<1> at \in [CPU -> Where]
  BY TypeParts DEF SmpInductive
<1> USE Cpus DEF SmpInductive, Counters
<1> DEFINE Same == Rallied' = Rallied /\ Succeeded' = Succeeded /\ ShutDown' = ShutDown
<1>1. ASSUME NEW c \in CPU, Rally(c) PROVE Counters'
  <2>1. /\ c \in CPU \ Rallied /\ Rallied' = Rallied \cup {c}
        /\ Succeeded' = Succeeded /\ ShutDown' = ShutDown
    BY <1>1 DEF Rally, Goto, Rallied, Succeeded, ShutDown
  <2>2. Cardinality(Rallied \cup {c}) = Cardinality(Rallied) + 1
    BY <2>1, CpuCount DEF Rallied
  <2> QED
    BY <1>1, <2>1, <2>2 DEF Rally
<1>2. ASSUME NEW c \in CPU, AppMain(c) PROVE Counters'
  <2>1. /\ c \in CPU \ Succeeded /\ Succeeded' = Succeeded \cup {c}
        /\ Rallied' = Rallied /\ ShutDown' = ShutDown
    BY <1>2 DEF AppMain, Goto, Rallied, Succeeded, ShutDown
  <2>2. Cardinality(Succeeded \cup {c}) = Cardinality(Succeeded) + 1
    BY <2>1, CpuCount DEF Succeeded
  <2> QED
    BY <1>2, <2>1, <2>2 DEF AppMain
<1>3. ASSUME NEW c \in CPU, InitExit(c) PROVE Counters'
  <2>1. Rallied' = Rallied /\ Succeeded' = Succeeded
    BY <1>3 DEF InitExit, Rallied, Succeeded
  <2>2. CASE extra_init_count[c] > 0
    <3>1. ShutDown' = ShutDown
      BY <1>3, <2>2 DEF InitExit, ShutDown
    <3> QED
      BY <1>3, <2>1, <2>2, <3>1 DEF InitExit, startvars
  <2>3. CASE ~(extra_init_count[c] > 0)
    <3>1. c \in CPU \ ShutDown /\ ShutDown' = ShutDown \cup {c}
      BY <1>3, <2>3 DEF InitExit, ShutDown
    <3>2. Cardinality(ShutDown \cup {c}) = Cardinality(ShutDown) + 1
      BY <3>1, CpuCount DEF ShutDown
    <3> QED
      BY <1>3, <2>1, <2>3, <3>1, <3>2 DEF InitExit, startvars
  <2> QED
    BY <2>2, <2>3
<1>4. ASSUME Same, UNCHANGED <<startvars, shutdown_count>> PROVE Counters'
  BY <1>4 DEF startvars
<1>5. ASSUME NEW c \in CPU, Proceed(c) \/ AppMainWait(c) PROVE Counters'
  <2>1. Same
    BY <1>5 DEF Proceed, AppMainWait, Goto, Rallied, Succeeded, ShutDown
  <2> QED
    BY <1>5, <2>1 DEF Proceed, AppMainWait, startvars
<1>6. ASSUME NEW c \in CPU, SmpGuestInitialize(c) \/ SipiWakeup(c) PROVE Counters'
  <2>1. Same
    BY <1>6 DEF SmpGuestInitialize, SipiWakeup, Goto, Rallied, Succeeded, ShutDown
  <2> QED
    BY <1>4, <1>6, <2>1 DEF SmpGuestInitialize, SipiWakeup
<1>7. ASSUME NEW c \in CPU, InitClear(c) \/ Shutdown(c) PROVE Counters'
  <2>1. Same
    BY <1>7 DEF InitClear, Shutdown, Goto, Rallied, Succeeded, ShutDown
  <2> QED
    BY <1>4, <1>7, <2>1 DEF InitClear, Shutdown
<1>8. CASE LapicAccess \/ DbException \/ X2apicIcrWrite
  <2>1. Same
    BY <1>8 DEF LapicAccess, DbException, X2apicIcrWrite, Goto, Rallied, Succeeded, ShutDown
  <2> QED
    BY <1>4, <1>8, <2>1 DEF LapicAccess, DbException, X2apicIcrWrite
<1>9. CASE ProcessInitCpu \/ ProcessSipiCpu \/ ProcessSipiCpuFlag
  <2>1. Same
    BY <1>9 DEF ProcessInitCpu, ProcessSipiCpu, ProcessSipiCpuFlag, Rallied, Succeeded,
       ShutDown
  <2> QED
    BY <1>4, <1>9, <2>1 DEF ProcessInitCpu, ProcessSipiCpu, ProcessSipiCpuFlag
<1>10. CASE ScanSipi \/ ScanExtra \/ Link \/ DelinkLapic
  <2>1. Same
    BY <1>10 DEF ScanSipi, ScanExtra, Link, DelinkLapic, Goto, Rallied, Succeeded, ShutDown
  <2> QED
    BY <1>4, <1>10, <2>1 DEF ScanSipi, ScanExtra, Link, DelinkLapic
<1>11. ASSUME NEW c \in CPU, ResetInit(c) PROVE Counters'
  BY <1>4, <1>11 DEF ResetInit, Rallied, Succeeded, ShutDown
<1>12. CASE UNCHANGED vars
  BY <1>4, <1>12 DEF vars, Rallied, Succeeded, ShutDown
<1> QED
  BY <1>1, <1>2, <1>3, <1>5, <1>6, <1>7, <1>8, <1>9, <1>10, <1>11, <1>12
     DEF Next, GuestStep, HypervisorStep

LEMMA StepSmp == SmpInductive /\ [Next]_vars => SmpInductive'
<1> SUFFICES ASSUME SmpInductive, [Next]_vars PROVE SmpInductive'
  OBVIOUS
<1>1. Counters'
  BY StepCounters
<1>2. /\ g_cpus_active' \in 0 .. N
      /\ g_appmain_success_counter' \in 0 .. N
      /\ shutdown_count' \in 0 .. N
  <2>1. Rallied' \subseteq CPU /\ Succeeded' \subseteq CPU /\ ShutDown' \subseteq CPU
    BY DEF Rallied, Succeeded, ShutDown
  <2> QED
    BY <1>1, <2>1, CpuCount DEF Counters
<1>3. /\ at' \in [CPU -> Where]
      /\ SipiTypes' /\ InitTypes' /\ PendingTypes' /\ IcrTypes' /\ LapicTypes'
  BY StepPlaceType, StepSipiTypes, StepInitTypes, StepPendingTypes, StepIcrTypes,
     StepLapicTypes
<1>4. TypeOK'
  BY <1>2, <1>3 DEF TypeOK, SipiTypes, InitTypes, PendingTypes, IcrTypes, LapicTypes
<1> QED
  BY <1>1, <1>4, StepPlaces, StepBarrier, StepProcessing, StepAccepted, StepScanned,
     StepInterceptionHolds, StepNoApForgottenByDefault, StepShutdownTogether
     DEF SmpInductive

-----------------------------------------------------------------------------
(* The results *)

\* The counters count the CPUs behind each barrier, and flags, vectors and the
\* scan stand for what the CPUs have done, in every state.
THEOREM SmpInvariant == Spec => []SmpInductive
BY InitSmp, StepSmp, PTL DEF Spec

\* The boot state keeps its type; no counter passes N and extra_init_count never
\* wraps.
THEOREM SmpTypeCorrect == Spec => []TypeOK
<1>1. SmpInductive => TypeOK
  BY DEF SmpInductive
<1> QED
  BY <1>1, SmpInvariant, PTL

\* xmhf_runtime_main: the guest runs nowhere before the hypapp's main has
\* succeeded everywhere.
THEOREM AppMainFirst == Spec => []GuestAfterAppMain
<1>1. SmpInductive => GuestAfterAppMain
  <2> SUFFICES ASSUME SmpInductive, NEW c \in CPU, at[c] \in {"guest", "step"}
               PROVE  Succeeded = CPU
    BY DEF GuestAfterAppMain, Succeeded
  <2>1. Passed
    BY Cpus DEF SmpInductive, Barrier, Passed, Places, BspOnly, Accepted
  <2> QED
    BY <2>1 DEF SmpInductive, Barrier
<1> QED
  BY <1>1, SmpInvariant, PTL

\* processSIPIcpu and the wake-up: an AP starts at the vector of the SIPI that
\* was accepted for it.
THEOREM AcceptedVector == Spec => []StartsAtAcceptedVector
<1>1. SmpInductive => StartsAtAcceptedVector
  BY DEF SmpInductive, Accepted, StartsAtAcceptedVector
<1> QED
  BY <1>1, SmpInvariant, PTL

\* The LAPIC page is unmapped whenever the BSP's guest runs, until interception
\* is given up.
THEOREM Interception == Spec => []InterceptionHolds
<1>1. SmpInductive => InterceptionHolds
  BY DEF SmpInductive
<1> QED
  BY <1>1, SmpInvariant, PTL

\* have_all_cores_recievedSIPI is sound in the default build: when interception
\* is given up every AP has its SIPI.
THEOREM NoneForgotten == Spec => []NoApForgottenByDefault
<1>1. SmpInductive => NoApForgottenByDefault
  BY DEF SmpInductive
<1> QED
  BY <1>1, SmpInvariant, PTL

\* The barrier of xmhf_runtime_shutdown holds: the hypapp's handler runs once no
\* CPU runs the guest.
THEOREM ShutdownBarrier == Spec => []ShutdownTogether
<1>1. SmpInductive => ShutdownTogether
  BY DEF SmpInductive
<1> QED
  BY <1>1, SmpInvariant, PTL
=============================================================================
