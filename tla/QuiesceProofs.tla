---------------------------- MODULE QuiesceProofs ----------------------------
(***************************************************************************)
(* Quiescing is correct for any number of CPUs.  The argument is by the    *)
(* phase of the one CPU that has the quiesce lock: its position determines *)
(* where the NMI handlers of the others may be, and the two counters are   *)
(* the numbers of handlers that have, or have not yet, passed a point.     *)
(***************************************************************************)
EXTENDS Quiesce, EptLockProofs, FiniteSetTheorems

-----------------------------------------------------------------------------
(* The inductive invariant *)

\* c is between spin_lock and spin_unlock of g_vmx_lock_quiesce.
Quiescer(c) == qpc[c] \notin {"run", "q_spin", "halted"}

\* Handlers that no quiesce is waiting for, and those on their way to stop.
FreePc == {"none", "n_check", "n_inject", "n_unmark"}
StoppingPc == {"n_mark", "n_count", "n_wait"}

\* Where the handlers of the others may be, given where the quiescer is.
HandlerPcAt(p) ==
  CASE p \in {"q_send", "q_wait"} -> FreePc \cup StoppingPc
    [] p \in {"q_punlock", "q_wunlock", "app", "app_flush", "app_done",
              "e_resumecount", "e_signal"} -> {"n_wait"}
    [] p = "e_wait" -> FreePc \cup {"n_wait", "n_flush", "n_resumecount"}
    [] OTHER -> FreePc

\* The quiesce lock has one owner.
OneQuiescer ==
  /\ \A c \in CPU : Quiescer(c) => g.lock_quiesce = 0
  /\ \A c, d \in CPU : Quiescer(c) /\ Quiescer(d) => c = d
  /\ g.lock_quiesce = 0 => \E c \in CPU : Quiescer(c)
  /\ \A c \in CPU : qpc[c] # "halted"

\* Where a main thread is in the EPT lock and in printf, given where it is in
\* quiesce.
LockPlaces ==
  /\ \A c \in CPU : qpc[c] = "run" => pc[c] \in {"idle", "halted"} \cup ReaderPc
  /\ \A c \in CPU : qpc[c] = "q_wlock" => pc[c] \in {"w_spin", "w_flag", "w_scan", "w_held"}
  /\ \A c \in CPU : qpc[c] \in {"q_mark", "q_count", "q_set", "q_send", "q_wait", "q_punlock"}
                      => pc[c] = "w_held"
  /\ \A c \in CPU : qpc[c] = "q_wunlock" => pc[c] \in {"w_held", "w_release", "idle"}
  /\ \A c \in CPU : qpc[c] \notin {"run", "q_wlock", "q_mark", "q_count", "q_set", "q_send",
                                   "q_wait", "q_punlock", "q_wunlock"} => pc[c] = "idle"
  /\ \A c \in CPU : printing[c] # "no" => qpc[c] \in {"run", "app"}

\* c has the line lock, in printf or in quiesce.
HasLineLock(c) ==
  \/ printing[c] = "hold"
  \/ qpc[c] \in {"q_mark", "q_count", "q_set", "q_send", "q_wait", "q_punlock"}

OneLine ==
  /\ \A c \in CPU : HasLineLock(c) => g.linelock = 0
  /\ \A c, d \in CPU : HasLineLock(c) /\ HasLineLock(d) => c = d

\* The request, the signal and the mark of the quiescer by its position, and
\* the positions of the handlers.
Phases ==
  /\ g.lock_quiesce = 1 => g.quiesce = 0 /\ g.quiesce_resume_signal = 0
  /\ g.lock_quiesce = 1 => \A d \in CPU : npc[d] \in FreePc
  /\ \A c \in CPU : Quiescer(c) =>
       /\ g.quiesce = IF qpc[c] \in {"q_send", "q_wait", "q_punlock", "q_wunlock",
                                     "app", "app_flush", "app_done"} THEN 1 ELSE 0
       /\ g.quiesce_resume_signal =
            IF qpc[c] \in {"e_wait", "e_unmark", "e_unsignal"} THEN 1 ELSE 0
       /\ qpc[c] \notin {"q_wlock", "q_mark", "e_unsignal", "e_unflush", "e_unlock"}
            => quiesced[c] = 1
       /\ npc[c] \in {"none", "n_check", "n_inject"}
  /\ \A c, d \in CPU : Quiescer(c) /\ c # d => npc[d] \in HandlerPcAt(qpc[c])

\* Handlers that have counted themselves, and that have yet to do so again.
Waiting == {d \in CPU : npc[d] = "n_wait"}
Resuming == {d \in CPU : npc[d] \in {"n_wait", "n_flush", "n_resumecount"}}

\* What the two counters count.
Counters ==
  \A c \in CPU :
    /\ qpc[c] = "q_set" => g.quiesce_counter = 0
    /\ qpc[c] \in {"q_send", "q_wait"} => g.quiesce_counter = Cardinality(Waiting)
    /\ qpc[c] = "e_signal" => g.quiesce_resume_counter = 0
    /\ qpc[c] = "e_wait" =>
         g.quiesce_resume_counter + Cardinality(Resuming) = N - 1

\* While a TLB is stale the shootdown is yet to be asked for or is asked for.
Shootdown ==
  stale # {} => (\E c \in CPU : qpc[c] = "app_flush") \/ g.flush_all_tlb_signal = 1

\* NMIs by which owed[d] is above what was merged and what the processor and
\* the handler of d have: one if d has stopped on a device's NMI and its quiesce NMI is yet to be
\* sent, minus one if that has been sent and d is yet to stop.
Credit(d) ==
  IF npc[d] \in StoppingPc
    THEN IF \E c \in CPU : qpc[c] = "q_send" THEN 1 ELSE 0
    ELSE IF \E c \in CPU : c # d /\ qpc[c] = "q_wait" THEN -1 ELSE 0

Accounts ==
  \A d \in CPU : owed[d] = merged[d] + (IF nmi_latched[d] THEN 1 ELSE 0)
                         + (IF npc[d] \in {"n_check", "n_inject"} THEN 1 ELSE 0)
                         + Credit(d)

\* A CPU is marked from the moment it stops, or stops the others, and no longer.
UnmarkedPc == {"run", "q_spin", "q_wlock", "q_mark", "e_unsignal", "e_unflush", "e_unlock"}

Marks ==
  \A d \in CPU : npc[d] \in {"none", "n_check", "n_inject"} /\ qpc[d] \in UnmarkedPc
                 => quiesced[d] = 0

\* A CPU that the quiescer waits for is stopping, or has the quiesce NMI ahead.
Asked ==
  \A c, d \in CPU : qpc[c] = "q_wait" /\ d # c /\ npc[d] \notin StoppingPc
                    => nmi_latched[d] \/ npc[d] = "n_check"

\* TypeOK without the variables of the EPT lock.
QuiesceTypes ==
  /\ qpc \in [CPU -> MainPc]
  /\ npc \in [CPU -> HandlerPc]
  /\ printing \in [CPU -> {"no", "wait", "hold"}]
  /\ quiesced \in [CPU -> {0, 1}]
  /\ g \in Globals
  /\ stale \in SUBSET CPU
  /\ nmi_latched \in [CPU -> BOOLEAN]
  /\ device_nmi \in 0 .. MaxDeviceNmi
  /\ owed \in [CPU -> Int]
  /\ merged \in [CPU -> Nat]

QuiesceInductive ==
  /\ EptInductive
  /\ TypeOK
  /\ OneQuiescer
  /\ LockPlaces
  /\ OneLine
  /\ Phases
  /\ Counters
  /\ StoppedHoldsNothing
  /\ Shootdown
  /\ NoStaleTlbRuns
  /\ Accounts
  /\ Marks
  /\ Asked

-----------------------------------------------------------------------------
(* The EPT lock, and what handlers leave alone *)

LEMMA StepEpt == [Next]_vars => [EptNext]_eptvars
<1> SUFFICES ASSUME [Next]_vars PROVE EptNext \/ UNCHANGED eptvars
  OBVIOUS
<1>1. ASSUME NEW c \in CPU, GuestStep(c) PROVE EptNext \/ UNCHANGED eptvars
  BY <1>1 DEF GuestStep, Printf, PrintfMove, Walk, Quiesce, Step, EptNext
<1>2. ASSUME NEW c \in CPU, HypervisorStep(c) PROVE EptNext \/ UNCHANGED eptvars
  BY <1>2 DEF HypervisorStep, PrintfLock, PrintfUnlock, PrintfMove, Walk, QuiesceSpin,
     QuiesceEptLock, QuiesceLineLock, QuiesceMark, QuiesceCount, QuiesceSet, QuiesceSend,
     QuiesceWait, QuiesceLineUnlock, QuiesceReturn, AppChangeEpt, AppFlush, AppReturn,
     EndQuiesce, EndResumeCount, EndSignal, EndWait, EndUnmark, EndUnsignal, EndUnflush,
     EndUnlock, Step, Mark, EptNext
<1>3. ASSUME NEW c \in CPU, DeviceNmi(c) \/ NmiStep(c) PROVE UNCHANGED eptvars
  BY <1>3 DEF DeviceNmi, NmiStep, DeliverNmi, NmiCheckQuiesce, NmiMark, NmiCount, NmiWait,
     NmiFlush, NmiResumeCount, NmiUnmark, NmiInject, HandlerStep, HandlerMark, Handler
<1>4. CASE UNCHANGED vars
  BY <1>4 DEF vars
<1> QED
  BY <1>1, <1>2, <1>3, <1>4 DEF Next

LEMMA InitQuiesce == Init => QuiesceInductive
<1> SUFFICES ASSUME Init PROVE QuiesceInductive
  OBVIOUS
<1> USE NAssumption DEF CPU
<1>1. EptInductive /\ EptTypeOK
  BY InitInductive DEF Init, EptInductive
<1>2. nmi_latched \in [CPU -> BOOLEAN]
  BY Zenon DEF Init
<1>3. TypeOK
  <2>1. g \in Globals
    BY DEF Init, Globals
  <2>2. qpc \in [CPU -> MainPc] /\ npc \in [CPU -> HandlerPc]
    BY DEF Init, MainPc, HandlerPc
  <2>3. owed \in [CPU -> Int] /\ merged \in [CPU -> Nat]
    BY DEF Init
  <2>4. /\ printing \in [CPU -> {"no", "wait", "hold"}]
        /\ quiesced \in [CPU -> {0, 1}]
        /\ stale \in SUBSET CPU
        /\ device_nmi \in 0 .. MaxDeviceNmi
    BY MaxDeviceNmiAssumption DEF Init
  <2> QED
    BY <1>1, <1>2, <2>1, <2>2, <2>3, <2>4 DEF TypeOK
<1>4. OneQuiescer /\ LockPlaces /\ OneLine /\ Phases /\ Counters
  BY DEF Init, EptInit, OneQuiescer, Quiescer, LockPlaces, OneLine, HasLineLock, Phases,
     FreePc, Counters
<1>5. StoppedHoldsNothing /\ Shootdown /\ NoStaleTlbRuns
  BY DEF Init, StoppedHoldsNothing, Shootdown, NoStaleTlbRuns
<1>6. Accounts
  BY DEF Init, Accounts, Credit, StoppingPc
<1>7. Marks /\ Asked
  BY DEF Init, Marks, Asked
<1> QED
  BY <1>1, <1>3, <1>4, <1>5, <1>6, <1>7 DEF QuiesceInductive

\* What a step of a handler, or a device's NMI, leaves alone.
LEMMA HandlerFrame ==
  ASSUME TypeOK, NEW c \in CPU, DeviceNmi(c) \/ NmiStep(c)
  PROVE  /\ UNCHANGED <<pc, qpc, printing>>
         /\ UNCHANGED <<g.lock_quiesce, g.linelock, g.quiesce, g.quiesce_resume_signal,
                        g.flush_all_tlb_signal>>
BY DEF TypeOK, Globals, DeviceNmi, NmiStep, DeliverNmi, NmiCheckQuiesce, NmiMark, NmiCount,
   NmiWait, NmiFlush, NmiResumeCount, NmiUnmark, NmiInject, HandlerStep, HandlerMark, Handler,
   eptvars

LEMMA StepOneQuiescer == QuiesceInductive /\ [Next]_vars => OneQuiescer'
<1> SUFFICES ASSUME QuiesceInductive, [Next]_vars PROVE OneQuiescer'
  OBVIOUS
<1> USE DEF QuiesceInductive, TypeOK, Globals, OneQuiescer, Quiescer, Phases
<1>1. ASSUME NEW c \in CPU, Printf(c) \/ PrintfLock(c) \/ PrintfUnlock(c)
      PROVE  OneQuiescer'
  BY <1>1 DEF Printf, PrintfLock, PrintfUnlock, PrintfMove
<1>2. ASSUME NEW c \in CPU, Walk(c) PROVE OneQuiescer'
  BY <1>2 DEF Walk, Main, ReadLock, ReadStep, ReadWait, ReadSet, ReadTest, ReadUndo,
     ReadUnlock, ReadErrorReturn, Goto, qvars
<1>3. ASSUME NEW c \in CPU, Quiesce(c) \/ QuiesceSpin(c)
      PROVE  OneQuiescer'
  BY <1>3 DEF Quiesce, QuiesceSpin, Step, Move, Main, WriteLock, Goto
<1>4. ASSUME NEW c \in CPU, QuiesceEptLock(c) PROVE OneQuiescer'
  BY <1>4 DEF QuiesceEptLock, Main, WriteStep, WriteSpin, WriteFlag, WriteScan,
     WriteUnlock, WriteRelease, Goto, qvars
<1>5. ASSUME NEW c \in CPU, QuiesceLineLock(c) \/ QuiesceMark(c) \/ QuiesceCount(c)
             \/ QuiesceSet(c)
      PROVE  OneQuiescer'
  BY <1>5 DEF QuiesceLineLock, QuiesceMark, QuiesceCount, QuiesceSet, Step, Mark,
     Move, Main
<1>6. ASSUME NEW c \in CPU, QuiesceSend(c) \/ QuiesceWait(c)
      PROVE  OneQuiescer'
  BY <1>6 DEF QuiesceSend, QuiesceWait, Step, Move, Main
<1>7. ASSUME NEW c \in CPU, QuiesceLineUnlock(c) \/ QuiesceReturn(c)
      PROVE  OneQuiescer'
  BY <1>7 DEF QuiesceLineUnlock, QuiesceReturn, Step, Move, Main
<1>8. ASSUME NEW c \in CPU, AppChangeEpt(c) \/ AppFlush(c) \/ AppReturn(c)
      PROVE  OneQuiescer'
  BY <1>8 DEF AppChangeEpt, AppFlush, AppReturn, Step, Move, Main
<1>9. ASSUME NEW c \in CPU, EndQuiesce(c) \/ EndResumeCount(c) \/ EndSignal(c)
      PROVE  OneQuiescer'
  BY <1>9 DEF EndQuiesce, EndResumeCount, EndSignal, Step, Move, Main
<1>10. ASSUME NEW c \in CPU, EndWait(c) PROVE OneQuiescer'
  BY <1>10 DEF EndWait, Step, Move, Main
<1>11. ASSUME NEW c \in CPU, EndUnmark(c) \/ EndUnsignal(c) \/ EndUnflush(c) \/
             EndUnlock(c)
      PROVE  OneQuiescer'
  BY <1>11 DEF EndUnmark, EndUnsignal, EndUnflush, EndUnlock, Step, Mark, Move, Main
<1>12. ASSUME NEW c \in CPU, DeviceNmi(c) \/ NmiStep(c) PROVE OneQuiescer'
  BY <1>12, HandlerFrame
<1>13. CASE UNCHANGED vars
  BY <1>13 DEF vars, qvars, eptvars, nmivars
<1> QED
  BY <1>1, <1>2, <1>3, <1>4, <1>5, <1>6, <1>7, <1>8, <1>9, <1>10, <1>11, <1>12, <1>13
     DEF Next, GuestStep, HypervisorStep, NmiStep

\* A CPU that is a writer of the EPT lock takes the writer's next step.
LEMMA WriterStays ==
  ASSUME EptInductive, NEW c \in CPU, WriteStep(c)
  PROVE  \E to \in {"w_flag", "w_scan", "w_held", "w_release", "idle"} :
           /\ pc' = [pc EXCEPT ![c] = to]
           /\ to = "w_flag" => pc[c] = "w_spin"
           /\ to \in {"w_scan", "w_held"} => pc[c] \in {"w_flag", "w_scan"}
           /\ to = "w_release" => pc[c] = "w_held"
           /\ to = "idle" => pc[c] = "w_release"
<1>1. pc[c] = "w_flag" => ~g_eptlock_write_pending
  BY DEF EptInductive, EptTypeOK, Owner, Raised
<1>2. pc[c] = "w_held" => g_eptlock_write_pending
  BY DEF EptInductive, EptTypeOK, Owner, Raised
<1> QED
  BY <1>1, <1>2 DEF WriteStep, WriteSpin, WriteFlag, WriteScan, WriteUnlock, WriteRelease,
     Goto

LEMMA StepLockPlaces == QuiesceInductive /\ [Next]_vars => LockPlaces'
<1> SUFFICES ASSUME QuiesceInductive, [Next]_vars PROVE LockPlaces'
  OBVIOUS
<1> USE DEF QuiesceInductive, TypeOK, Globals, LockPlaces, EptTypeOK, ReaderPc, eptvars
<1>1. ASSUME NEW c \in CPU, Printf(c) \/ PrintfLock(c) \/ PrintfUnlock(c)
      PROVE  LockPlaces'
  BY <1>1 DEF Printf, PrintfLock, PrintfUnlock, PrintfMove
<1>2. ASSUME NEW c \in CPU, Walk(c) PROVE LockPlaces'
  BY <1>2 DEF Walk, Main, ReadLock, ReadStep, ReadWait, ReadSet, ReadTest, ReadUndo,
     ReadUnlock, ReadErrorReturn, Goto, qvars
<1>3. ASSUME NEW c \in CPU, Quiesce(c) \/ QuiesceSpin(c)
      PROVE  LockPlaces'
  BY <1>3 DEF Quiesce, QuiesceSpin, Step, Move, Main, WriteLock, Goto
<1>4. ASSUME NEW c \in CPU, QuiesceEptLock(c) PROVE LockPlaces'
  <2>1. UNCHANGED <<qpc, printing>> /\ WriteStep(c)
    BY <1>4 DEF QuiesceEptLock, qvars
  <2>2. (qpc[c] = "q_wlock" /\ pc[c] # "w_held") \/ qpc[c] = "q_wunlock"
    BY <1>4 DEF QuiesceEptLock
  <2> QED
    BY <2>1, <2>2, WriterStays
<1>5. ASSUME NEW c \in CPU, QuiesceLineLock(c) \/ QuiesceMark(c) \/ QuiesceCount(c)
             \/ QuiesceSet(c)
      PROVE  LockPlaces'
  BY <1>5 DEF QuiesceLineLock, QuiesceMark, QuiesceCount, QuiesceSet, Step, Mark,
     Move, Main
<1>6. ASSUME NEW c \in CPU, QuiesceSend(c) \/ QuiesceWait(c)
      PROVE  LockPlaces'
  BY <1>6 DEF QuiesceSend, QuiesceWait, Step, Move, Main
<1>7. ASSUME NEW c \in CPU, QuiesceLineUnlock(c) \/ QuiesceReturn(c)
      PROVE  LockPlaces'
  BY <1>7 DEF QuiesceLineUnlock, QuiesceReturn, Step, Move, Main
<1>8. ASSUME NEW c \in CPU, AppChangeEpt(c) \/ AppFlush(c) \/ AppReturn(c)
      PROVE  LockPlaces'
  BY <1>8 DEF AppChangeEpt, AppFlush, AppReturn, Step, Move, Main
<1>9. ASSUME NEW c \in CPU, EndQuiesce(c) \/ EndResumeCount(c) \/ EndSignal(c)
      PROVE  LockPlaces'
  BY <1>9 DEF EndQuiesce, EndResumeCount, EndSignal, Step, Move, Main
<1>10. ASSUME NEW c \in CPU, EndWait(c) PROVE LockPlaces'
  BY <1>10 DEF EndWait, Step, Move, Main
<1>11. ASSUME NEW c \in CPU, EndUnmark(c) \/ EndUnsignal(c) \/ EndUnflush(c) \/
             EndUnlock(c)
      PROVE  LockPlaces'
  BY <1>11 DEF EndUnmark, EndUnsignal, EndUnflush, EndUnlock, Step, Mark, Move, Main
<1>12. ASSUME NEW c \in CPU, DeviceNmi(c) \/ NmiStep(c) PROVE LockPlaces'
  BY <1>12, HandlerFrame
<1>13. CASE UNCHANGED vars
  BY <1>13 DEF vars, qvars, eptvars, nmivars
<1> QED
  BY <1>1, <1>2, <1>3, <1>4, <1>5, <1>6, <1>7, <1>8, <1>9, <1>10, <1>11, <1>12, <1>13
     DEF Next, GuestStep, HypervisorStep, NmiStep

LEMMA StepOneLine == QuiesceInductive /\ [Next]_vars => OneLine'
<1> SUFFICES ASSUME QuiesceInductive, [Next]_vars PROVE OneLine'
  OBVIOUS
<1> USE DEF QuiesceInductive, TypeOK, Globals, LockPlaces, OneLine, HasLineLock
<1>1. ASSUME NEW c \in CPU, Printf(c) \/ PrintfLock(c) \/ PrintfUnlock(c)
      PROVE  OneLine'
  BY <1>1 DEF Printf, PrintfLock, PrintfUnlock, PrintfMove
<1>2. ASSUME NEW c \in CPU, Walk(c) PROVE OneLine'
  BY <1>2 DEF Walk, Main, ReadLock, ReadStep, ReadWait, ReadSet, ReadTest, ReadUndo,
     ReadUnlock, ReadErrorReturn, Goto, qvars
<1>3. ASSUME NEW c \in CPU, Quiesce(c) \/ QuiesceSpin(c)
      PROVE  OneLine'
  BY <1>3 DEF Quiesce, QuiesceSpin, Step, Move, Main, WriteLock, Goto
<1>4. ASSUME NEW c \in CPU, QuiesceEptLock(c) PROVE OneLine'
  BY <1>4 DEF QuiesceEptLock, Main, WriteStep, WriteSpin, WriteFlag, WriteScan,
     WriteUnlock, WriteRelease, Goto, qvars
<1>5. ASSUME NEW c \in CPU, QuiesceLineLock(c) \/ QuiesceMark(c) \/ QuiesceCount(c)
             \/ QuiesceSet(c)
      PROVE  OneLine'
  BY <1>5 DEF QuiesceLineLock, QuiesceMark, QuiesceCount, QuiesceSet, Step, Mark,
     Move, Main
<1>6. ASSUME NEW c \in CPU, QuiesceSend(c) \/ QuiesceWait(c)
      PROVE  OneLine'
  BY <1>6 DEF QuiesceSend, QuiesceWait, Step, Move, Main
<1>7. ASSUME NEW c \in CPU, QuiesceLineUnlock(c) \/ QuiesceReturn(c)
      PROVE  OneLine'
  BY <1>7 DEF QuiesceLineUnlock, QuiesceReturn, Step, Move, Main
<1>8. ASSUME NEW c \in CPU, AppChangeEpt(c) \/ AppFlush(c) \/ AppReturn(c)
      PROVE  OneLine'
  BY <1>8 DEF AppChangeEpt, AppFlush, AppReturn, Step, Move, Main
<1>9. ASSUME NEW c \in CPU, EndQuiesce(c) \/ EndResumeCount(c) \/ EndSignal(c)
      PROVE  OneLine'
  BY <1>9 DEF EndQuiesce, EndResumeCount, EndSignal, Step, Move, Main
<1>10. ASSUME NEW c \in CPU, EndWait(c) PROVE OneLine'
  BY <1>10 DEF EndWait, Step, Move, Main
<1>11. ASSUME NEW c \in CPU, EndUnmark(c) \/ EndUnsignal(c) \/ EndUnflush(c) \/
             EndUnlock(c)
      PROVE  OneLine'
  BY <1>11 DEF EndUnmark, EndUnsignal, EndUnflush, EndUnlock, Step, Mark, Move, Main
<1>12. ASSUME NEW c \in CPU, DeviceNmi(c) \/ NmiStep(c) PROVE OneLine'
  BY <1>12, HandlerFrame
<1>13. CASE UNCHANGED vars
  BY <1>13 DEF vars, qvars, eptvars, nmivars
<1> QED
  BY <1>1, <1>2, <1>3, <1>4, <1>5, <1>6, <1>7, <1>8, <1>9, <1>10, <1>11, <1>12, <1>13
     DEF Next, GuestStep, HypervisorStep, NmiStep

-----------------------------------------------------------------------------
(* Counting CPUs *)

LEMMA CpuCard ==
  ASSUME NEW c \in CPU
  PROVE  IsFiniteSet(CPU \ {c}) /\ Cardinality(CPU \ {c}) = N - 1
<1>1. IsFiniteSet(CPU) /\ Cardinality(CPU) = N
  BY NAssumption, FS_Interval DEF CPU
<1> QED
  BY <1>1, FS_RemoveElement

LEMMA OthersCard ==
  ASSUME NEW c \in CPU, NEW S \in SUBSET (CPU \ {c})
  PROVE  /\ IsFiniteSet(S)
         /\ Cardinality(S) \in 0 .. N - 1
         /\ Cardinality(S) >= N - 1 => S = CPU \ {c}
         /\ Cardinality(S) = 0 => S = {}
<1>1. IsFiniteSet(CPU \ {c}) /\ Cardinality(CPU \ {c}) = N - 1
  BY CpuCard
<1>2. /\ IsFiniteSet(S)
      /\ Cardinality(S) <= N - 1
      /\ N - 1 = Cardinality(S) => CPU \ {c} = S
  BY <1>1, FS_Subset
<1>3. Cardinality(S) \in Nat
  BY <1>2, FS_CardinalityType
<1> QED
  BY <1>2, <1>3, FS_EmptySet, NAssumption

\* A handler that is about to stop, or on its way out, is one that the
\* quiescer waits for.
LEMMA WhoStops ==
  ASSUME QuiesceInductive, NEW c \in CPU
  PROVE  /\ npc[c] \in {"n_mark", "n_count"}
              => \E q \in CPU : Quiescer(q) /\ q # c /\ qpc[q] \in {"q_send", "q_wait"}
         /\ npc[c] \in {"n_flush", "n_resumecount"}
              => \E q \in CPU : Quiescer(q) /\ q # c /\ qpc[q] = "e_wait"
BY DEF QuiesceInductive, TypeOK, Globals, Phases, HandlerPcAt, FreePc, StoppingPc, OneQuiescer

LEMMA CountedOthers ==
  ASSUME QuiesceInductive, NEW c \in CPU, Quiescer(c)
  PROVE  Waiting \in SUBSET (CPU \ {c}) /\ Resuming \in SUBSET (CPU \ {c})
BY DEF QuiesceInductive, Phases, Waiting, Resuming


LEMMA StepPhases == QuiesceInductive /\ [Next]_vars => Phases'
<1> SUFFICES ASSUME QuiesceInductive, [Next]_vars PROVE Phases'
  OBVIOUS
<1> USE DEF QuiesceInductive, TypeOK, Globals, OneQuiescer, Quiescer, LockPlaces, Phases,
        HandlerPcAt, FreePc, StoppingPc
<1>1. ASSUME NEW c \in CPU, Printf(c) \/ PrintfLock(c) \/ PrintfUnlock(c)
      PROVE  Phases'
  BY <1>1 DEF Printf, PrintfLock, PrintfUnlock, PrintfMove
<1>2. ASSUME NEW c \in CPU, Walk(c) PROVE Phases'
  BY <1>2 DEF Walk, Main, ReadLock, ReadStep, ReadWait, ReadSet, ReadTest, ReadUndo,
     ReadUnlock, ReadErrorReturn, Goto, qvars
<1>3. ASSUME NEW c \in CPU, Quiesce(c) \/ QuiesceSpin(c)
      PROVE  Phases'
  BY <1>3 DEF Quiesce, QuiesceSpin, Step, Move, Main, WriteLock, Goto
<1>4. ASSUME NEW c \in CPU, QuiesceEptLock(c) PROVE Phases'
  BY <1>4 DEF QuiesceEptLock, Main, WriteStep, WriteSpin, WriteFlag, WriteScan,
     WriteUnlock, WriteRelease, Goto, qvars
<1>5. ASSUME NEW c \in CPU, QuiesceLineLock(c) \/ QuiesceMark(c) \/ QuiesceCount(c)
             \/ QuiesceSet(c)
      PROVE  Phases'
  BY <1>5 DEF QuiesceLineLock, QuiesceMark, QuiesceCount, QuiesceSet, Step, Mark,
     Move, Main
<1>6. ASSUME NEW c \in CPU, QuiesceSend(c) PROVE Phases'
  BY <1>6 DEF QuiesceSend, Move, Main
<1>7. ASSUME NEW c \in CPU, QuiesceWait(c) PROVE Phases'
  <2>1. /\ Quiescer(c) /\ qpc[c] = "q_wait"
        /\ g.quiesce_counter >= N - 1
        /\ qpc' = [qpc EXCEPT ![c] = "q_punlock"]
        /\ UNCHANGED <<npc, g, quiesced>>
    BY <1>7 DEF QuiesceWait, Step, Move
  <2>2. Waiting = CPU \ {c}
    BY <2>1, CountedOthers, OthersCard DEF Counters
  <2>3. \A d \in CPU : d # c => npc[d] = "n_wait"
    BY <2>2 DEF Waiting
  <2> QED
    BY <2>1, <2>3
<1>8. ASSUME NEW c \in CPU, QuiesceLineUnlock(c) \/ QuiesceReturn(c)
      PROVE  Phases'
  BY <1>8 DEF QuiesceLineUnlock, QuiesceReturn, Step, Move, Main
<1>9. ASSUME NEW c \in CPU, AppChangeEpt(c) \/ AppFlush(c) \/ AppReturn(c)
      PROVE  Phases'
  BY <1>9 DEF AppChangeEpt, AppFlush, AppReturn, Step, Move, Main
<1>10. ASSUME NEW c \in CPU, EndQuiesce(c) \/ EndResumeCount(c) \/ EndSignal(c)
      PROVE  Phases'
  BY <1>10 DEF EndQuiesce, EndResumeCount, EndSignal, Step, Move, Main
<1>11. ASSUME NEW c \in CPU, EndWait(c) PROVE Phases'
  <2>1. /\ Quiescer(c) /\ qpc[c] = "e_wait"
        /\ g.quiesce_resume_counter >= N - 1
        /\ qpc' = [qpc EXCEPT ![c] = "e_unmark"]
        /\ UNCHANGED <<npc, g, quiesced>>
    BY <1>11 DEF EndWait, Step, Move
  <2>2. Resuming = {}
    <3>1. Cardinality(Resuming) \in Nat
      BY <2>1, CountedOthers, OthersCard
    <3>2. Cardinality(Resuming) = 0
      BY <2>1, <3>1, NAssumption DEF Counters
    <3> QED
      BY <2>1, <3>2, CountedOthers, OthersCard
  <2>3. \A d \in CPU : npc[d] \notin {"n_wait", "n_flush", "n_resumecount"}
    BY <2>2 DEF Resuming
  <2> QED
    BY <2>1, <2>3
<1>12. ASSUME NEW c \in CPU, EndUnmark(c) \/ EndUnsignal(c) \/ EndUnflush(c) \/
             EndUnlock(c)
      PROVE  Phases'
  BY <1>12 DEF EndUnmark, EndUnsignal, EndUnflush, EndUnlock, Step, Mark, Move, Main
<1>13. ASSUME NEW c \in CPU,
              DeviceNmi(c) \/ DeliverNmi(c) \/ NmiCheckQuiesce(c) \/ NmiInject(c)
      PROVE   Phases'
  BY <1>13 DEF DeviceNmi, DeliverNmi, NmiCheckQuiesce, NmiInject, HandlerStep, Handler
<1>14. ASSUME NEW c \in CPU, NmiMark(c) \/ NmiCount(c) \/ NmiWait(c) PROVE Phases'
  BY <1>14 DEF NmiMark, NmiCount, NmiWait, HandlerStep, HandlerMark, Handler
<1>15. ASSUME NEW c \in CPU, NmiFlush(c) \/ NmiResumeCount(c) \/ NmiUnmark(c) PROVE Phases'
  BY <1>15 DEF NmiFlush, NmiResumeCount, NmiUnmark, HandlerStep, HandlerMark, Handler
<1>16. CASE UNCHANGED vars
  BY <1>16 DEF vars, qvars, eptvars, nmivars
<1> QED
  BY <1>1, <1>2, <1>3, <1>4, <1>5, <1>6, <1>7, <1>8, <1>9, <1>10, <1>11, <1>12,
     <1>13, <1>14, <1>15, <1>16, ZenonT(30) DEF Next, GuestStep, HypervisorStep, NmiStep

LEMMA StepCounters == QuiesceInductive /\ [Next]_vars => Counters'
<1> SUFFICES ASSUME QuiesceInductive, [Next]_vars PROVE Counters'
  OBVIOUS
<1> USE DEF QuiesceInductive, TypeOK, Globals, Counters
<1>1. ASSUME NEW c \in CPU,
             \/ Printf(c) \/ PrintfLock(c) \/ PrintfUnlock(c) \/ Walk(c)
             \/ QuiesceEptLock(c) \/ DeviceNmi(c)
      PROVE  Counters'
  <2>1. UNCHANGED <<qpc, npc, g.quiesce_counter, g.quiesce_resume_counter>>
    BY <1>1 DEF Printf, PrintfLock, PrintfUnlock, PrintfMove, Walk, QuiesceEptLock,
       DeviceNmi, qvars
  <2>2. Waiting' = Waiting /\ Resuming' = Resuming
    BY <2>1 DEF Waiting, Resuming
  <2> QED
    BY <2>1, <2>2
<1>2. ASSUME NEW c \in CPU,
             \/ Quiesce(c) \/ QuiesceSpin(c) \/ QuiesceLineLock(c) \/ QuiesceMark(c)
             \/ QuiesceCount(c) \/ QuiesceSend(c) \/ QuiesceWait(c) \/ QuiesceLineUnlock(c)
             \/ QuiesceReturn(c)
      PROVE  Counters'
  <2>1. npc' = npc
    BY <1>2 DEF Quiesce, QuiesceSpin, QuiesceLineLock, QuiesceMark, QuiesceCount, QuiesceSend,
       QuiesceWait, QuiesceLineUnlock, QuiesceReturn, Step, Mark, Move
  <2>2. Waiting' = Waiting /\ Resuming' = Resuming
    BY <2>1 DEF Waiting, Resuming
  <2> QED
    BY <1>2, <2>2 DEF Quiesce, QuiesceSpin, QuiesceLineLock, QuiesceMark, QuiesceCount,
       QuiesceSend, QuiesceWait, QuiesceLineUnlock, QuiesceReturn, Step, Mark, Move,
       OneQuiescer, Quiescer
<1>3. ASSUME NEW c \in CPU, QuiesceSet(c) PROVE Counters'
  <2>1. /\ Quiescer(c) /\ qpc[c] = "q_set"
        /\ qpc' = [qpc EXCEPT ![c] = "q_send"]
        /\ npc' = npc
        /\ g' = [g EXCEPT !.quiesce = 1]
    BY <1>3 DEF QuiesceSet, Step, Move, Quiescer
  <2>2. \A d \in CPU : npc[d] # "n_wait"
    BY <2>1 DEF Phases, HandlerPcAt, FreePc
  <2>3. Cardinality(Waiting)' = 0
    <3>1. npc' = npc
      BY <2>1
    <3>2. Waiting' = {}
      BY <2>2, <3>1, Zenon DEF Waiting
    <3> QED
      BY <3>2, FS_EmptySet, Zenon
  <2>4. \A d \in CPU : d # c => ~Quiescer(d)
    BY <2>1 DEF OneQuiescer
  <2> QED
    BY <2>1, <2>3, <2>4 DEF Quiescer
<1>4. ASSUME NEW c \in CPU,
             \/ AppChangeEpt(c) \/ AppFlush(c) \/ AppReturn(c)
             \/ EndQuiesce(c) \/ EndResumeCount(c) \/ EndWait(c) \/ EndUnmark(c)
             \/ EndUnsignal(c) \/ EndUnflush(c) \/ EndUnlock(c)
      PROVE  Counters'
  BY <1>4 DEF AppChangeEpt, AppFlush, AppReturn, EndQuiesce, EndResumeCount, EndWait,
     EndUnmark, EndUnsignal, EndUnflush, EndUnlock, Step, Mark, Move, Waiting, Resuming,
     OneQuiescer, Quiescer
<1>5. ASSUME NEW c \in CPU, EndSignal(c) PROVE Counters'
  <2>1. /\ Quiescer(c) /\ qpc[c] = "e_signal"
        /\ qpc' = [qpc EXCEPT ![c] = "e_wait"]
        /\ npc' = npc
        /\ g' = [g EXCEPT !.quiesce_resume_signal = 1]
    BY <1>5 DEF EndSignal, Step, Move, Quiescer
  <2>2. \A d \in CPU : npc[d] = "n_wait" <=> d # c
    BY <2>1 DEF Phases, HandlerPcAt, FreePc
  <2>3. Resuming' = CPU \ {c}
    BY <2>1, <2>2, CountedOthers DEF Resuming
  <2>4. Cardinality(CPU \ {c}) = N - 1
    BY CpuCard
  <2>5. \A d \in CPU : d # c => ~Quiescer(d)
    BY <2>1 DEF OneQuiescer
  <2>6. g.quiesce_resume_counter = 0
    BY <2>1
  <2> QED
    BY <2>1, <2>3, <2>4, <2>5, <2>6, NAssumption DEF Quiescer
<1>6. ASSUME NEW c \in CPU, DeliverNmi(c) \/ NmiCheckQuiesce(c) \/ NmiMark(c) \/ NmiFlush(c)
                            \/ NmiUnmark(c) \/ NmiInject(c)
      PROVE  Counters'
  <2>1. Waiting' = Waiting /\ Resuming' = Resuming
    BY <1>6 DEF DeliverNmi, NmiCheckQuiesce, NmiMark, NmiFlush, NmiUnmark, NmiInject,
       HandlerStep, HandlerMark, Handler, Waiting, Resuming
  <2>2. UNCHANGED <<qpc, g>>
    BY <1>6 DEF DeliverNmi, NmiCheckQuiesce, NmiMark, NmiFlush, NmiUnmark, NmiInject,
       HandlerStep, HandlerMark, Handler
  <2> QED
    BY <2>1, <2>2
<1>7. ASSUME NEW c \in CPU, NmiCount(c) PROVE Counters'
  <2>1. /\ npc[c] = "n_count"
        /\ npc' = [npc EXCEPT ![c] = "n_wait"]
        /\ qpc' = qpc
        /\ g' = [g EXCEPT !.quiesce_counter = @ + 1]
    BY <1>7 DEF NmiCount, HandlerStep, Handler
  <2>2. PICK q \in CPU : Quiescer(q) /\ qpc[q] \in {"q_send", "q_wait"}
    BY <2>1, WhoStops
  <2>3. Waiting' = Waiting \cup {c} /\ c \notin Waiting
    BY <2>1 DEF Waiting
  <2>4. IsFiniteSet(Waiting)
    BY <2>2, CountedOthers, OthersCard
  <2>5. Cardinality(Waiting)' = Cardinality(Waiting) + 1
    BY <2>3, <2>4, FS_AddElement
  <2> QED
    BY <2>1, <2>2, <2>5 DEF OneQuiescer, Quiescer
<1>8. ASSUME NEW c \in CPU, NmiWait(c) PROVE Counters'
  <2>1. /\ npc[c] = "n_wait" /\ g.quiesce_resume_signal = 1
        /\ npc' = [npc EXCEPT ![c] = "n_flush"]
        /\ UNCHANGED <<qpc, g>>
    BY <1>8 DEF NmiWait, HandlerStep, Handler
  <2>2. \A q \in CPU : qpc[q] \notin {"q_send", "q_wait"}
    BY <2>1 DEF Phases, Quiescer
  <2>3. Resuming' = Resuming
    BY <2>1 DEF Resuming
  <2> QED
    BY <2>1, <2>2, <2>3
<1>9. ASSUME NEW c \in CPU, NmiResumeCount(c) PROVE Counters'
  <2>1. /\ npc[c] = "n_resumecount"
        /\ npc' = [npc EXCEPT ![c] = "n_unmark"]
        /\ qpc' = qpc
        /\ g' = [g EXCEPT !.quiesce_resume_counter = @ + 1]
    BY <1>9 DEF NmiResumeCount, HandlerStep, Handler
  <2>2. PICK q \in CPU : Quiescer(q) /\ qpc[q] = "e_wait"
    BY <2>1, WhoStops
  <2>3. Resuming' = Resuming \ {c} /\ c \in Resuming
    BY <2>1 DEF Resuming
  <2>4. IsFiniteSet(Resuming) /\ Cardinality(Resuming) \in Nat
    BY <2>2, CountedOthers, OthersCard
  <2>5. Cardinality(Resuming)' = Cardinality(Resuming) - 1
    BY <2>3, <2>4, FS_RemoveElement
  <2>6. g'.quiesce_resume_counter + Cardinality(Resuming)' = N - 1
    BY <2>1, <2>2, <2>4, <2>5, NAssumption
  <2> QED
    BY <2>1, <2>2, <2>6 DEF OneQuiescer, Quiescer
<1>10. CASE UNCHANGED vars
  BY <1>10 DEF vars, qvars, Waiting, Resuming
<1> QED
  BY <1>1, <1>2, <1>3, <1>4, <1>5, <1>6, <1>7, <1>8, <1>9, <1>10
     DEF Next, GuestStep, HypervisorStep, NmiStep

LEMMA StepTypes == QuiesceInductive /\ [Next]_vars => QuiesceTypes'
<1> SUFFICES ASSUME QuiesceInductive, [Next]_vars PROVE QuiesceTypes'
  OBVIOUS
<1> QuiesceTypes
  BY DEF QuiesceInductive, TypeOK, QuiesceTypes
<1> USE NAssumption DEF QuiesceTypes, Globals, MainPc, HandlerPc, nmivars
<1>1. ASSUME NEW c \in CPU, Printf(c) \/ PrintfLock(c) \/ PrintfUnlock(c)
      PROVE  QuiesceTypes'
  BY <1>1 DEF Printf, PrintfLock, PrintfUnlock, PrintfMove
<1>2. ASSUME NEW c \in CPU, Walk(c) PROVE QuiesceTypes'
  BY <1>2 DEF Walk, Main, ReadLock, ReadStep, ReadWait, ReadSet, ReadTest, ReadUndo,
     ReadUnlock, ReadErrorReturn, Goto, qvars
<1>3. ASSUME NEW c \in CPU, Quiesce(c) \/ QuiesceSpin(c)
      PROVE  QuiesceTypes'
  BY <1>3 DEF Quiesce, QuiesceSpin, Step, Move, Main, WriteLock, Goto
<1>4. ASSUME NEW c \in CPU, QuiesceEptLock(c) PROVE QuiesceTypes'
  BY <1>4 DEF QuiesceEptLock, Main, WriteStep, WriteSpin, WriteFlag, WriteScan,
     WriteUnlock, WriteRelease, Goto, qvars
<1>5. ASSUME NEW c \in CPU, QuiesceLineLock(c) \/ QuiesceMark(c) \/ QuiesceCount(c)
             \/ QuiesceSet(c)
      PROVE  QuiesceTypes'
  BY <1>5 DEF QuiesceLineLock, QuiesceMark, QuiesceCount, QuiesceSet, Step, Mark,
     Move, Main
<1>6. ASSUME NEW c \in CPU, QuiesceSend(c) \/ QuiesceWait(c)
      PROVE  QuiesceTypes'
  <2>1. nmi_latched' \in [CPU -> BOOLEAN]
    BY <1>6, ZenonT(30) DEF QuiesceSend, QuiesceWait, Step
  <2> QED
    BY <1>6, <2>1 DEF QuiesceSend, QuiesceWait, Step, Move, Main
<1>7. ASSUME NEW c \in CPU, QuiesceLineUnlock(c) \/ QuiesceReturn(c)
      PROVE  QuiesceTypes'
  BY <1>7 DEF QuiesceLineUnlock, QuiesceReturn, Step, Move, Main
<1>8. ASSUME NEW c \in CPU, AppChangeEpt(c) \/ AppFlush(c) \/ AppReturn(c)
      PROVE  QuiesceTypes'
  BY <1>8 DEF AppChangeEpt, AppFlush, AppReturn, Step, Move, Main
<1>9. ASSUME NEW c \in CPU, EndQuiesce(c) \/ EndResumeCount(c) \/ EndSignal(c)
      PROVE  QuiesceTypes'
  BY <1>9 DEF EndQuiesce, EndResumeCount, EndSignal, Step, Move, Main
<1>10. ASSUME NEW c \in CPU, EndWait(c) PROVE QuiesceTypes'
  BY <1>10 DEF EndWait, Step, Move, Main
<1>11. ASSUME NEW c \in CPU, EndUnmark(c) \/ EndUnsignal(c) \/ EndUnflush(c) \/
             EndUnlock(c)
      PROVE  QuiesceTypes'
  BY <1>11 DEF EndUnmark, EndUnsignal, EndUnflush, EndUnlock, Step, Mark, Move, Main
<1>12. ASSUME NEW c \in CPU,
              NmiCheckQuiesce(c) \/ NmiMark(c) \/ NmiWait(c) \/ NmiFlush(c) \/ NmiUnmark(c)
       PROVE  QuiesceTypes'
  BY <1>12 DEF NmiCheckQuiesce, NmiMark, NmiWait, NmiFlush, NmiUnmark, HandlerStep,
     HandlerMark, Handler
<1>13. ASSUME NEW c \in CPU, DeliverNmi(c) PROVE QuiesceTypes'
  BY <1>13 DEF DeliverNmi, Handler
<1>14. ASSUME NEW c \in CPU, NmiInject(c) PROVE QuiesceTypes'
  BY <1>14 DEF NmiInject, Handler
<1>15. ASSUME NEW c \in CPU, DeviceNmi(c) PROVE QuiesceTypes'
  <2>1. nmi_latched' \in [CPU -> BOOLEAN] /\ owed' \in [CPU -> Int]
        /\ merged' \in [CPU -> Nat]
    BY <1>15 DEF DeviceNmi
  <2>2. device_nmi' \in 0 .. MaxDeviceNmi
    BY <1>15, MaxDeviceNmiAssumption DEF DeviceNmi
  <2> QED
    BY <1>15, <2>1, <2>2 DEF DeviceNmi
<1>16. ASSUME NEW c \in CPU, NmiCount(c) PROVE QuiesceTypes'
  <2>1. PICK q \in CPU : Quiescer(q) /\ qpc[q] \in {"q_send", "q_wait"}
    BY <1>16, WhoStops DEF NmiCount, HandlerStep, Handler
  <2>2. g.quiesce_counter + 1 \in 0 .. N - 1
    <3>1. q \in CPU /\ Waiting \cup {c} \in SUBSET (CPU \ {q}) /\ c \notin Waiting
      BY <1>16, <2>1, CountedOthers DEF NmiCount, HandlerStep, Handler, Waiting, Phases,
         QuiesceInductive
    <3>2. Cardinality(Waiting \cup {c}) = Cardinality(Waiting) + 1
      BY <3>1, <2>1, CountedOthers, OthersCard, FS_AddElement
    <3> QED
      BY <2>1, <3>1, <3>2, OthersCard DEF QuiesceInductive, Counters
  <2> QED
    BY <1>16, <2>2 DEF NmiCount, HandlerStep, Handler
<1>17. ASSUME NEW c \in CPU, NmiResumeCount(c) PROVE QuiesceTypes'
  <2>1. PICK q \in CPU : Quiescer(q) /\ qpc[q] = "e_wait"
    BY <1>17, WhoStops DEF NmiResumeCount, HandlerStep, Handler
  <2>2. g.quiesce_resume_counter + 1 \in 0 .. N - 1
    <3>1. Cardinality(Resuming) \in Nat /\ Resuming # {}
      BY <1>17, <2>1, CountedOthers, OthersCard
         DEF NmiResumeCount, HandlerStep, Handler, Resuming
    <3>2. Cardinality(Resuming) # 0
      BY <2>1, <3>1, CountedOthers, OthersCard
    <3> QED
      BY <2>1, <3>1, <3>2 DEF QuiesceInductive, Counters
  <2> QED
    BY <1>17, <2>2 DEF NmiResumeCount, HandlerStep, Handler
<1>18. CASE UNCHANGED vars
  BY <1>18 DEF vars, qvars, eptvars, nmivars
<1> QED
  BY <1>1, <1>2, <1>3, <1>4, <1>5, <1>6, <1>7, <1>8, <1>9, <1>10, <1>11, <1>12, <1>18, <1>16, <1>17,
     <1>15, <1>13, <1>14 DEF Next, GuestStep, HypervisorStep, NmiStep

LEMMA StepTypeOK == QuiesceInductive /\ [Next]_vars => EptInductive' /\ TypeOK'
<1> SUFFICES ASSUME QuiesceInductive, [Next]_vars PROVE EptInductive' /\ TypeOK'
  OBVIOUS
<1>1. EptInductive'
  BY StepEpt, StepInductive DEF QuiesceInductive
<1>2. QuiesceTypes'
  BY StepTypes
<1> QED
  BY <1>1, <1>2 DEF EptInductive, TypeOK, QuiesceTypes

-----------------------------------------------------------------------------
(* Stale TLBs, stopped CPUs *)

LEMMA StepStoppedHoldsNothing ==
  QuiesceInductive /\ [Next]_vars => StoppedHoldsNothing'
<1> SUFFICES ASSUME QuiesceInductive, [Next]_vars PROVE StoppedHoldsNothing'
  OBVIOUS
<1> USE DEF QuiesceInductive, TypeOK, EptTypeOK, StoppedHoldsNothing, eptvars
<1>1. ASSUME NEW c \in CPU, GuestStep(c) PROVE StoppedHoldsNothing'
  BY <1>1 DEF GuestStep, Printf, PrintfMove, Walk, Main, ReadLock, ReadStep, ReadWait,
     ReadSet, ReadTest, ReadUndo, ReadUnlock, ReadErrorReturn, Goto, qvars, Quiesce, Step,
     Move
<1>2. ASSUME NEW c \in CPU, PrintfLock(c) \/ PrintfUnlock(c) \/ Walk(c)
      PROVE  StoppedHoldsNothing'
  BY <1>2 DEF PrintfLock, PrintfUnlock, PrintfMove, Walk, Main, ReadLock, ReadStep, ReadWait,
     ReadSet, ReadTest, ReadUndo, ReadUnlock, ReadErrorReturn, Goto, qvars
<1>3. ASSUME NEW c \in CPU, QuiesceSpin(c) \/ QuiesceEptLock(c) PROVE StoppedHoldsNothing'
  <2>1. UNCHANGED <<npc, printing>>
    BY <1>3 DEF QuiesceSpin, Move, QuiesceEptLock, qvars
  <2>2. \A d \in CPU : pc'[d] = "r_held" => pc[d] = "r_held"
    BY <1>3, WriterStays DEF QuiesceSpin, WriteLock, Goto, QuiesceEptLock
  <2> QED
    BY <2>1, <2>2
<1>4. ASSUME NEW c \in CPU, HypervisorStep(c), UNCHANGED <<npc, printing, pc>>
      PROVE  StoppedHoldsNothing'
  BY <1>4
<1>5. ASSUME NEW c \in CPU, HypervisorStep(c)
      PROVE  \/ PrintfLock(c) \/ PrintfUnlock(c) \/ Walk(c)
             \/ QuiesceSpin(c) \/ QuiesceEptLock(c)
             \/ UNCHANGED <<npc, printing, pc>>
  BY <1>5 DEF HypervisorStep, QuiesceLineLock, QuiesceMark, QuiesceCount, QuiesceSet,
     QuiesceSend, QuiesceWait, QuiesceLineUnlock, QuiesceReturn, AppChangeEpt, AppFlush,
     AppReturn, EndQuiesce, EndResumeCount, EndSignal, EndWait, EndUnmark, EndUnsignal,
     EndUnflush, EndUnlock, Step, Mark, Move
<1>6. ASSUME NEW c \in CPU, NmiCount(c) PROVE StoppedHoldsNothing'
  <2>1. npc[c] = "n_count" /\ npc' = [npc EXCEPT ![c] = "n_wait"]
        /\ UNCHANGED <<pc, printing>>
    BY <1>6 DEF NmiCount, HandlerStep, Handler
  <2>2. PICK q \in CPU : q # c /\ qpc[q] \in {"q_send", "q_wait"}
    BY <2>1, WhoStops
  <2>3. pc[c] # "r_held"
    BY <2>2, InductiveExcludes DEF LockPlaces, EptExclusion
  <2>4. printing[c] # "hold"
    BY <2>2 DEF OneLine, HasLineLock
  <2> QED
    BY <2>1, <2>3, <2>4
<1>7. ASSUME NEW c \in CPU, DeviceNmi(c) \/ NmiStep(c), ~NmiCount(c)
      PROVE  StoppedHoldsNothing'
  BY <1>7 DEF DeviceNmi, NmiStep, DeliverNmi, NmiCheckQuiesce, NmiMark, NmiWait,
     NmiFlush, NmiResumeCount, NmiUnmark, NmiInject, HandlerStep, HandlerMark, Handler
<1>8. CASE UNCHANGED vars
  BY <1>8 DEF vars, qvars
<1> QED
  BY <1>1, <1>2, <1>3, <1>4, <1>5, <1>6, <1>7, <1>8 DEF Next

\* A CPU flushes its TLB on the way out of its handler, so that none is stale
\* when the shootdown is taken back.
LEMMA StepStale == QuiesceInductive /\ [Next]_vars => (Shootdown /\ NoStaleTlbRuns)'
<1> SUFFICES ASSUME QuiesceInductive, [Next]_vars PROVE (Shootdown /\ NoStaleTlbRuns)'
  OBVIOUS
<1> USE DEF QuiesceInductive, TypeOK, Globals, Shootdown, NoStaleTlbRuns
<1>1. ASSUME NEW c \in CPU, GuestStep(c) PROVE (Shootdown /\ NoStaleTlbRuns)'
  BY <1>1 DEF GuestStep, Printf, PrintfMove, Walk, Main, qvars, Quiesce, Step, Move
<1>2. ASSUME NEW c \in CPU,
             \/ PrintfLock(c) \/ PrintfUnlock(c) \/ Walk(c)
             \/ QuiesceSpin(c) \/ QuiesceEptLock(c) \/ QuiesceLineLock(c) \/ QuiesceMark(c)
             \/ QuiesceCount(c) \/ QuiesceSet(c) \/ QuiesceSend(c) \/ QuiesceWait(c)
             \/ QuiesceLineUnlock(c) \/ QuiesceReturn(c)
      PROVE  (Shootdown /\ NoStaleTlbRuns)'
  BY <1>2 DEF PrintfLock, PrintfUnlock, PrintfMove, Walk, qvars, QuiesceSpin,
     QuiesceEptLock, QuiesceLineLock, QuiesceMark, QuiesceCount, QuiesceSet, QuiesceSend,
     QuiesceWait, QuiesceLineUnlock, QuiesceReturn, Step, Mark, Move
<1>3. ASSUME NEW c \in CPU, AppChangeEpt(c) PROVE (Shootdown /\ NoStaleTlbRuns)'
  <2>1. /\ qpc[c] = "app" /\ qpc' = [qpc EXCEPT ![c] = "app_flush"]
        /\ UNCHANGED <<npc, g>>
        /\ stale' = CPU
    BY <1>3 DEF AppChangeEpt, Move
  <2>2. \A d \in CPU : d # c => npc[d] = "n_wait"
    BY <2>1 DEF Phases, Quiescer, HandlerPcAt
  <2> QED
    BY <2>1, <2>2
<1>4. ASSUME NEW c \in CPU, AppFlush(c) \/ AppReturn(c) PROVE (Shootdown /\ NoStaleTlbRuns)'
  BY <1>4 DEF AppFlush, AppReturn, Step, Move
<1>5. ASSUME NEW c \in CPU,
             \/ EndQuiesce(c) \/ EndResumeCount(c) \/ EndSignal(c) \/ EndWait(c)
             \/ EndUnmark(c) \/ EndUnsignal(c) \/ EndUnlock(c)
      PROVE  (Shootdown /\ NoStaleTlbRuns)'
  BY <1>5 DEF EndQuiesce, EndResumeCount, EndSignal, EndWait, EndUnmark, EndUnsignal,
     EndUnlock, Step, Mark, Move
<1>6. ASSUME NEW c \in CPU, EndUnflush(c) PROVE (Shootdown /\ NoStaleTlbRuns)'
  <2>1. /\ qpc[c] = "e_unflush" /\ qpc' = [qpc EXCEPT ![c] = "e_unlock"]
        /\ UNCHANGED <<npc, stale>>
    BY <1>6 DEF EndUnflush, Step, Move
  <2>2. \A d \in CPU : qpc[d] # "app_flush" /\ npc[d] \notin {"n_wait", "n_flush"}
    BY <2>1 DEF OneQuiescer, Phases, Quiescer, HandlerPcAt, FreePc
  <2>3. stale = {}
    BY <2>2
  <2> QED
    BY <2>1, <2>3
<1>7. ASSUME NEW c \in CPU, NmiFlush(c) PROVE (Shootdown /\ NoStaleTlbRuns)'
  <2>1. /\ npc[c] = "n_flush" /\ npc' = [npc EXCEPT ![c] = "n_resumecount"]
        /\ UNCHANGED <<qpc, g>>
        /\ stale' = IF g.flush_all_tlb_signal = 1 THEN stale \ {c} ELSE stale
    BY <1>7 DEF NmiFlush, Handler
  <2>2. \A d \in CPU : qpc[d] # "app_flush"
    BY <2>1 DEF OneQuiescer, Phases, Quiescer, HandlerPcAt, FreePc, StoppingPc
  <2> QED
    BY <2>1, <2>2
<1>8. ASSUME NEW c \in CPU, NmiCount(c) \/ NmiResumeCount(c)
      PROVE  (Shootdown /\ NoStaleTlbRuns)'
  BY <1>8 DEF NmiCount, NmiResumeCount, HandlerStep, Handler
<1>9. ASSUME NEW c \in CPU,
             \/ DeviceNmi(c) \/ DeliverNmi(c) \/ NmiCheckQuiesce(c) \/ NmiMark(c)
             \/ NmiWait(c) \/ NmiUnmark(c) \/ NmiInject(c)
      PROVE  (Shootdown /\ NoStaleTlbRuns)'
  BY <1>9 DEF DeviceNmi, DeliverNmi, NmiCheckQuiesce, NmiMark, NmiWait, NmiUnmark,
     NmiInject, HandlerStep, HandlerMark, Handler
<1>10. CASE UNCHANGED vars
  BY <1>10 DEF vars, qvars
<1> QED
  BY <1>1, <1>2, <1>3, <1>4, <1>5, <1>6, <1>7, <1>8, <1>9, <1>10
     DEF Next, HypervisorStep, NmiStep

-----------------------------------------------------------------------------
(* Devices' NMIs *)

\* A quiesce NMI that is sent settles one that a handler has begun to stop for,
\* or is itself one too many.
LEMMA SendSums ==
  ASSUME NEW m \in Int, NEW l \in Int, NEW h \in Int
  PROVE  /\ m + l + h + 1 = m + l + 1 + h + 0
         /\ m + l + h + 0 = m + l + 1 + h + (-1)
OBVIOUS

LEMMA StepAccounts == QuiesceInductive /\ [Next]_vars => Accounts'
<1> SUFFICES ASSUME QuiesceInductive, [Next]_vars PROVE Accounts'
  OBVIOUS
<1> QuiesceTypes
  BY DEF QuiesceInductive, TypeOK, QuiesceTypes
<1> Accounts
  BY DEF QuiesceInductive
<1> USE DEF QuiesceTypes, Accounts, Credit, StoppingPc
<1>1. ASSUME NEW c \in CPU,
             \/ Printf(c) \/ PrintfLock(c) \/ PrintfUnlock(c) \/ Walk(c) \/ QuiesceEptLock(c)
      PROVE  Accounts'
  BY <1>1 DEF Printf, PrintfLock, PrintfUnlock, PrintfMove, Walk, QuiesceEptLock, qvars,
     nmivars
<1>2. ASSUME NEW c \in CPU,
             \/ Quiesce(c) \/ QuiesceSpin(c) \/ QuiesceLineLock(c) \/ QuiesceMark(c)
             \/ QuiesceCount(c) \/ QuiesceLineUnlock(c) \/ QuiesceReturn(c)
             \/ AppChangeEpt(c) \/ AppFlush(c) \/ AppReturn(c)
             \/ EndQuiesce(c) \/ EndResumeCount(c) \/ EndSignal(c) \/ EndWait(c)
             \/ EndUnmark(c) \/ EndUnsignal(c) \/ EndUnflush(c) \/ EndUnlock(c)
      PROVE  Accounts'
  BY <1>2 DEF Quiesce, QuiesceSpin, QuiesceLineLock, QuiesceMark, QuiesceCount,
     QuiesceLineUnlock, QuiesceReturn, AppChangeEpt, AppFlush, AppReturn, EndQuiesce,
     EndResumeCount, EndSignal, EndWait, EndUnmark, EndUnsignal, EndUnflush, EndUnlock,
     Step, Mark, Move, nmivars
<1>3. ASSUME NEW c \in CPU, QuiesceSet(c) PROVE Accounts'
  <2>1. /\ Quiescer(c) /\ qpc[c] = "q_set"
        /\ qpc' = [qpc EXCEPT ![c] = "q_send"]
        /\ UNCHANGED <<npc, nmi_latched, owed, merged>>
    BY <1>3 DEF QuiesceSet, Step, Move, Quiescer, nmivars
  <2>2. \A d \in CPU : npc[d] \notin StoppingPc
    BY <2>1 DEF QuiesceInductive, Phases, HandlerPcAt, FreePc
  <2> QED
    BY <2>1, <2>2
<1>4. ASSUME NEW c \in CPU, QuiesceSend(c) PROVE Accounts'
  <2>1. /\ Quiescer(c) /\ qpc[c] = "q_send"
        /\ qpc' = [qpc EXCEPT ![c] = "q_wait"]
        /\ npc' = npc
        /\ nmi_latched' = [d \in CPU |-> d # c \/ nmi_latched[d]]
        /\ owed' = owed
        /\ merged' = [d \in CPU |-> IF d # c /\ nmi_latched[d]
                                    THEN merged[d] + 1 ELSE merged[d]]
    BY <1>4 DEF QuiesceSend, Move, Quiescer
  <2>2. \A d \in CPU : d # c => qpc[d] \notin {"q_send", "q_wait"}
    BY <2>1 DEF QuiesceInductive, OneQuiescer, Quiescer
  <2>3. npc[c] \notin StoppingPc
    BY <2>1 DEF QuiesceInductive, Phases
  <2>4. ASSUME NEW d \in CPU, d # c
        PROVE  /\ Credit(d) = IF npc[d] \in StoppingPc THEN 1 ELSE 0
               /\ Credit(d)' = IF npc[d] \in StoppingPc THEN 0 ELSE -1
               /\ owed[d]' = owed[d]
               /\ merged[d]' = (IF nmi_latched[d] THEN merged[d] + 1 ELSE merged[d])
               /\ nmi_latched[d]'
    BY <2>1, <2>2, <2>4
  <2>5. /\ Credit(c) = 0 /\ Credit(c)' = 0
        /\ owed[c]' = owed[c] /\ nmi_latched[c]' = nmi_latched[c]
        /\ merged[c]' = merged[c]
    BY <2>1, <2>2, <2>3
  <2> DEFINE Sum(d) == merged[d] + (IF nmi_latched[d] THEN 1 ELSE 0)
                       + (IF npc[d] \in {"n_check", "n_inject"} THEN 1 ELSE 0) + Credit(d)
  <2>6. ASSUME NEW d \in CPU, d # c PROVE owed[d]' = Sum(d)'
    <3>1. owed[d] = Sum(d) /\ owed[d] \in Int /\ merged[d] \in Nat
      OBVIOUS
    <3>2. npc[d]' = npc[d]
      BY <2>1
    <3>3. /\ Credit(d) = IF npc[d] \in StoppingPc THEN 1 ELSE 0
          /\ Credit(d)' = IF npc[d] \in StoppingPc THEN 0 ELSE -1
          /\ owed[d]' = owed[d] /\ nmi_latched[d]'
          /\ merged[d]' = (IF nmi_latched[d] THEN merged[d] + 1 ELSE merged[d])
      BY <2>4, <2>6
    <3> DEFINE latched == IF nmi_latched[d] THEN 1 ELSE 0
               handling == IF npc[d] \in {"n_check", "n_inject"} THEN 1 ELSE 0
    <3>4. /\ Sum(d) = merged[d] + latched + handling + Credit(d)
          /\ Sum(d)' = merged[d]' + 1 + handling + Credit(d)'
      BY <3>2, <3>3
    <3>5. latched \in Int /\ handling \in Int /\ merged[d] \in Int
      BY <3>1
    <3> HIDE DEF Credit, Accounts, QuiesceTypes, StoppingPc, Sum, handling
    <3>6. merged[d]' = merged[d] + latched
      <4>1. CASE nmi_latched[d]
        BY <3>3, <4>1
      <4>2. CASE ~nmi_latched[d]
        BY <3>3, <3>5, <4>2
      <4> QED
        BY <4>1, <4>2
    <3> HIDE DEF latched
    <3>7. CASE npc[d] \in StoppingPc
      <4>1. Credit(d) = 1 /\ Credit(d)' = 0
        BY <3>3, <3>7
      <4>2. owed[d] = merged[d] + latched + handling + 1
        BY <3>1, <3>4, <4>1
      <4>3. Sum(d)' = merged[d] + latched + 1 + handling + 0
        BY <3>4, <3>6, <4>1
      <4> QED
        BY <3>3, <3>5, <4>2, <4>3, SendSums, Zenon
    <3>8. CASE npc[d] \notin StoppingPc
      <4>1. Credit(d) = 0 /\ Credit(d)' = -1
        BY <3>3, <3>8
      <4>2. owed[d] = merged[d] + latched + handling + 0
        BY <3>1, <3>4, <4>1
      <4>3. Sum(d)' = merged[d] + latched + 1 + handling + (-1)
        BY <3>4, <3>6, <4>1
      <4> QED
        BY <3>3, <3>5, <4>2, <4>3, SendSums, Zenon
    <3> QED
      BY <3>7, <3>8
  <2>7. owed[c]' = Sum(c)'
    BY <2>1, <2>5
  <2> QED
    BY <2>6, <2>7
<1>5. ASSUME NEW c \in CPU, QuiesceWait(c) PROVE Accounts'
  <2>1. /\ Quiescer(c) /\ qpc[c] = "q_wait"
        /\ g.quiesce_counter >= N - 1
        /\ qpc' = [qpc EXCEPT ![c] = "q_punlock"]
        /\ UNCHANGED <<npc, nmi_latched, owed, merged>>
    BY <1>5 DEF QuiesceWait, Step, Move, Quiescer, nmivars
  <2>2. Waiting = CPU \ {c}
    BY <2>1, CountedOthers, OthersCard DEF QuiesceInductive, Counters
  <2>3. \A d \in CPU : d # c => npc[d] = "n_wait"
    BY <2>2 DEF Waiting
  <2>4. \A d \in CPU : d # c => qpc[d] \notin {"q_send", "q_wait"}
    BY <2>1 DEF QuiesceInductive, OneQuiescer, Quiescer
  <2> QED
    BY <2>1, <2>3, <2>4
<1>6. ASSUME NEW c \in CPU, DeviceNmi(c) \/ DeliverNmi(c) \/ NmiInject(c) PROVE Accounts'
  BY <1>6 DEF DeviceNmi, DeliverNmi, NmiInject, Handler
<1>7. ASSUME NEW c \in CPU, NmiCheckQuiesce(c) PROVE Accounts'
  <2>1. CASE g.quiesce = 1 /\ quiesced[c] = 0
    <3>1. /\ npc[c] = "n_check" /\ npc' = [npc EXCEPT ![c] = "n_mark"]
          /\ UNCHANGED <<qpc, nmi_latched, owed, merged>>
      BY <1>7, <2>1 DEF NmiCheckQuiesce, HandlerStep, Handler
    <3>2. PICK q \in CPU : q # c /\ qpc[q] \in {"q_send", "q_wait"}
      BY <2>1, <3>1 DEF QuiesceInductive, TypeOK, Globals, OneQuiescer, Phases, HandlerPcAt
    <3>3. \A d \in CPU : d # q => qpc[d] \notin {"q_send", "q_wait"}
      BY <3>2 DEF QuiesceInductive, OneQuiescer, Quiescer
    <3> QED
      BY <3>1, <3>2, <3>3
  <2>2. CASE ~(g.quiesce = 1 /\ quiesced[c] = 0)
    BY <1>7, <2>2 DEF NmiCheckQuiesce, HandlerStep, Handler
  <2> QED
    BY <2>1, <2>2
<1>8. ASSUME NEW c \in CPU,
             NmiMark(c) \/ NmiCount(c) \/ NmiFlush(c) \/ NmiResumeCount(c) \/ NmiUnmark(c)
      PROVE  Accounts'
  BY <1>8 DEF NmiMark, NmiCount, NmiFlush, NmiResumeCount, NmiUnmark, HandlerStep,
     HandlerMark, Handler
<1>9. ASSUME NEW c \in CPU, NmiWait(c) PROVE Accounts'
  <2>1. /\ g.quiesce_resume_signal = 1
        /\ npc[c] = "n_wait" /\ npc' = [npc EXCEPT ![c] = "n_flush"]
        /\ UNCHANGED <<qpc, nmi_latched, owed, merged>>
    BY <1>9 DEF NmiWait, HandlerStep, Handler
  <2>2. \A d \in CPU : qpc[d] \notin {"q_send", "q_wait"}
    BY <2>1 DEF QuiesceInductive, Phases, Quiescer
  <2> QED
    BY <2>1, <2>2
<1>10. CASE UNCHANGED vars
  BY <1>10 DEF vars, qvars, nmivars
<1> QED
  BY <1>1, <1>2, <1>3, <1>4, <1>5, <1>6, <1>7, <1>8, <1>9, <1>10
     DEF Next, GuestStep, HypervisorStep, NmiStep

LEMMA StepMarks == QuiesceInductive /\ [Next]_vars => Marks'
<1> SUFFICES ASSUME QuiesceInductive, [Next]_vars PROVE Marks'
  OBVIOUS
<1> QuiesceTypes /\ Marks
  BY DEF QuiesceInductive, TypeOK, QuiesceTypes
<1> USE DEF QuiesceTypes, Marks, UnmarkedPc
<1>1. ASSUME NEW c \in CPU,
             \/ Printf(c) \/ PrintfLock(c) \/ PrintfUnlock(c) \/ Walk(c) \/ QuiesceEptLock(c)
             \/ DeviceNmi(c)
      PROVE  Marks'
  BY <1>1 DEF Printf, PrintfLock, PrintfUnlock, PrintfMove, Walk, QuiesceEptLock, qvars,
     DeviceNmi
<1>2. ASSUME NEW c \in CPU,
             \/ Quiesce(c) \/ QuiesceSpin(c) \/ QuiesceLineLock(c)
             \/ QuiesceCount(c) \/ QuiesceSet(c) \/ QuiesceSend(c) \/ QuiesceWait(c)
             \/ QuiesceLineUnlock(c) \/ QuiesceReturn(c)
      PROVE  Marks'
  BY <1>2 DEF Quiesce, QuiesceSpin, QuiesceLineLock, QuiesceCount, QuiesceSet, QuiesceSend,
     QuiesceWait, QuiesceLineUnlock, QuiesceReturn, Step, Move
<1>3. ASSUME NEW c \in CPU,
             \/ AppChangeEpt(c) \/ AppFlush(c) \/ AppReturn(c)
             \/ EndQuiesce(c) \/ EndResumeCount(c) \/ EndSignal(c) \/ EndWait(c)
             \/ EndUnsignal(c) \/ EndUnflush(c) \/ EndUnlock(c)
      PROVE  Marks'
  BY <1>3 DEF AppChangeEpt, AppFlush, AppReturn, EndQuiesce, EndResumeCount, EndSignal,
     EndWait, EndUnsignal, EndUnflush, EndUnlock, Step, Move
<1>4. ASSUME NEW c \in CPU, QuiesceMark(c) \/ EndUnmark(c) PROVE Marks'
  BY <1>4 DEF QuiesceMark, EndUnmark, Mark, Move
<1>5. ASSUME NEW c \in CPU, NmiMark(c) \/ NmiUnmark(c) PROVE Marks'
  BY <1>5 DEF NmiMark, NmiUnmark, HandlerMark, Handler
<1>6. ASSUME NEW c \in CPU,
             \/ DeliverNmi(c) \/ NmiCheckQuiesce(c) \/ NmiCount(c) \/ NmiWait(c)
             \/ NmiFlush(c) \/ NmiResumeCount(c) \/ NmiInject(c)
      PROVE  Marks'
  BY <1>6 DEF DeliverNmi, NmiCheckQuiesce, NmiCount, NmiWait, NmiFlush, NmiResumeCount,
     NmiInject, HandlerStep, Handler
<1>7. CASE UNCHANGED vars
  BY <1>7 DEF vars, qvars
<1> QED
  BY <1>1, <1>2, <1>3, <1>4, <1>5, <1>6, <1>7 DEF Next, GuestStep, HypervisorStep, NmiStep

LEMMA StepAsked == QuiesceInductive /\ [Next]_vars => Asked'
<1> SUFFICES ASSUME QuiesceInductive, [Next]_vars PROVE Asked'
  OBVIOUS
<1> QuiesceTypes /\ Asked
  BY DEF QuiesceInductive, TypeOK, QuiesceTypes
<1> USE DEF QuiesceTypes, Asked, StoppingPc
<1>1. ASSUME NEW c \in CPU,
             \/ Printf(c) \/ PrintfLock(c) \/ PrintfUnlock(c) \/ Walk(c) \/ QuiesceEptLock(c)
      PROVE  Asked'
  BY <1>1 DEF Printf, PrintfLock, PrintfUnlock, PrintfMove, Walk, QuiesceEptLock, qvars,
     nmivars
<1>2. ASSUME NEW c \in CPU,
             \/ Quiesce(c) \/ QuiesceSpin(c) \/ QuiesceLineLock(c) \/ QuiesceMark(c)
             \/ QuiesceCount(c) \/ QuiesceSet(c) \/ QuiesceWait(c)
             \/ QuiesceLineUnlock(c) \/ QuiesceReturn(c)
             \/ AppChangeEpt(c) \/ AppFlush(c) \/ AppReturn(c)
             \/ EndQuiesce(c) \/ EndResumeCount(c) \/ EndSignal(c) \/ EndWait(c)
             \/ EndUnmark(c) \/ EndUnsignal(c) \/ EndUnflush(c) \/ EndUnlock(c)
      PROVE  Asked'
  BY <1>2 DEF Quiesce, QuiesceSpin, QuiesceLineLock, QuiesceMark, QuiesceCount, QuiesceSet,
     QuiesceWait, QuiesceLineUnlock, QuiesceReturn, AppChangeEpt, AppFlush, AppReturn,
     EndQuiesce, EndResumeCount, EndSignal, EndWait, EndUnmark, EndUnsignal, EndUnflush,
     EndUnlock, Step, Mark, Move, nmivars
<1>3. ASSUME NEW c \in CPU, QuiesceSend(c) PROVE Asked'
  <2>1. qpc[c] = "q_send" /\ qpc' = [qpc EXCEPT ![c] = "q_wait"]
    BY <1>3 DEF QuiesceSend, Move
  <2>2. \A d \in CPU : d # c => nmi_latched'[d]
    BY <1>3 DEF QuiesceSend
  <2>3. \A d \in CPU : d # c => qpc'[d] # "q_wait"
    BY <2>1 DEF QuiesceInductive, OneQuiescer, Quiescer
  <2> QED
    BY <2>2, <2>3
<1>4. ASSUME NEW c \in CPU, DeviceNmi(c) PROVE Asked'
  BY <1>4 DEF DeviceNmi
<1>5. ASSUME NEW c \in CPU, DeliverNmi(c) PROVE Asked'
  BY <1>5 DEF DeliverNmi, Handler
<1>6. ASSUME NEW c \in CPU, NmiCheckQuiesce(c) PROVE Asked'
  <2>1. /\ npc[c] = "n_check"
        /\ npc' = [npc EXCEPT ![c] = IF g.quiesce = 1 /\ quiesced[c] = 0
                                     THEN "n_mark" ELSE "n_inject"]
        /\ UNCHANGED <<qpc, nmi_latched>>
    BY <1>6 DEF NmiCheckQuiesce, HandlerStep, Handler
  <2>2. ASSUME NEW q \in CPU, qpc[q] = "q_wait", c # q PROVE npc'[c] = "n_mark"
    <3>1. g.quiesce = 1
      BY <2>2 DEF QuiesceInductive, Phases, Quiescer
    <3>2. qpc[c] \in UnmarkedPc
      BY <2>2 DEF QuiesceInductive, OneQuiescer, Quiescer, UnmarkedPc, MainPc
    <3>3. quiesced[c] = 0
      BY <2>1, <3>2 DEF QuiesceInductive, Marks
    <3> QED
      BY <2>1, <3>1, <3>3
  <2> QED
    BY <2>1, <2>2
<1>7. ASSUME NEW c \in CPU,
             \/ NmiMark(c) \/ NmiCount(c) \/ NmiFlush(c) \/ NmiResumeCount(c)
             \/ NmiUnmark(c) \/ NmiInject(c)
      PROVE  Asked'
  BY <1>7 DEF NmiMark, NmiCount, NmiFlush, NmiResumeCount, NmiUnmark, NmiInject,
     HandlerStep, HandlerMark, Handler
<1>8. ASSUME NEW c \in CPU, NmiWait(c) PROVE Asked'
  <2>1. g.quiesce_resume_signal = 1 /\ qpc' = qpc
    BY <1>8 DEF NmiWait, HandlerStep, Handler
  <2>2. \A q \in CPU : qpc[q] # "q_wait"
    BY <2>1 DEF QuiesceInductive, Phases, Quiescer
  <2> QED
    BY <2>1, <2>2
<1>9. CASE UNCHANGED vars
  BY <1>9 DEF vars, qvars, nmivars
<1> QED
  BY <1>1, <1>2, <1>3, <1>4, <1>5, <1>6, <1>7, <1>8, <1>9
     DEF Next, GuestStep, HypervisorStep, NmiStep

-----------------------------------------------------------------------------
(* The theorems *)

LEMMA StepQuiesce == QuiesceInductive /\ [Next]_vars => QuiesceInductive'
BY StepTypeOK, StepOneQuiescer, StepLockPlaces, StepOneLine, StepPhases, StepCounters,
   StepStoppedHoldsNothing, StepStale, StepAccounts, StepMarks, StepAsked, Zenon DEF QuiesceInductive

\* Every reachable state of quiescing satisfies the inductive invariant,
\* whatever the number of CPUs and of devices' NMIs.
THEOREM QuiesceInvariant == Spec => []QuiesceInductive
BY InitQuiesce, StepQuiesce, PTL DEF Spec

\* The state keeps its types; in particular neither counter passes the number
\* of other CPUs.
THEOREM QuiesceTypeCorrect == Spec => []TypeOK
<1>1. QuiesceInductive => TypeOK
  BY DEF QuiesceInductive
<1> QED
  BY <1>1, QuiesceInvariant, PTL

\* While the hypapp runs between quiesce and endquiesce, every other CPU waits
\* in its NMI handler.
THEOREM Alone == Spec => []RunsAlone
<1>1. QuiesceInductive => RunsAlone
  BY DEF QuiesceInductive, Phases, RunsAlone, Exclusive, Quiescer, HandlerPcAt
<1> QED
  BY <1>1, QuiesceInvariant, PTL

\* A CPU is never stopped inside a software walk of the EPT or a printf line.
THEOREM HoldsNothing == Spec => []StoppedHoldsNothing
<1>1. QuiesceInductive => StoppedHoldsNothing
  BY DEF QuiesceInductive
<1> QED
  BY <1>1, QuiesceInvariant, PTL

\* No CPU runs on with translations from before a change of the EPT.
THEOREM NoStaleTlb == Spec => []NoStaleTlbRuns
<1>1. QuiesceInductive => NoStaleTlbRuns
  BY DEF QuiesceInductive
<1> QED
  BY <1>1, QuiesceInvariant, PTL

\* The NMIs of devices that are not passed on are the ones latched or being
\* handled and those the processor merged, and none is made up.
THEOREM Accounted == Spec => []NmiAccounted
<1>1. ASSUME QuiesceInductive, NEW d \in CPU, g.lock_quiesce = 1 PROVE Credit(d) = 0
  <2>1. npc[d] \notin StoppingPc
    BY <1>1 DEF QuiesceInductive, Phases, FreePc, StoppingPc
  <2>2. \A c \in CPU : qpc[c] # "q_wait"
    BY <1>1 DEF QuiesceInductive, OneQuiescer, Quiescer
  <2> QED
    BY <2>1, <2>2 DEF Credit
<1>2. ASSUME QuiesceInductive, NEW d \in CPU
      PROVE  \/ Credit(d) = 0
             \/ Credit(d) = 1
             \/ Credit(d) = -1 /\ (nmi_latched[d] \/ npc[d] = "n_check")
  <2>1. CASE npc[d] \in StoppingPc
    <3>1. CASE \E c \in CPU : qpc[c] = "q_send"
      BY <2>1, <3>1, Zenon DEF Credit
    <3>2. CASE ~\E c \in CPU : qpc[c] = "q_send"
      BY <2>1, <3>2, Zenon DEF Credit
    <3> QED
      BY <3>1, <3>2
  <2>2. CASE npc[d] \notin StoppingPc /\ \E c \in CPU : c # d /\ qpc[c] = "q_wait"
    <3>1. nmi_latched[d] \/ npc[d] = "n_check"
      BY <1>2, <2>2 DEF QuiesceInductive, Asked
    <3> QED
      BY <2>2, <3>1 DEF Credit
  <2>3. CASE npc[d] \notin StoppingPc /\ ~\E c \in CPU : c # d /\ qpc[c] = "q_wait"
    BY <2>3, Zenon DEF Credit
  <2> QED
    BY <2>1, <2>2, <2>3
<1>3. QuiesceInductive => NmiAccounted
  <2> SUFFICES ASSUME QuiesceInductive, NEW d \in CPU
               PROVE  /\ owed[d] >= 0
                      /\ g.lock_quiesce = 1 =>
                           owed[d] = merged[d] + (IF nmi_latched[d] THEN 1 ELSE 0)
                                   + (IF npc[d] \in {"n_check", "n_inject"} THEN 1 ELSE 0)
    BY DEF NmiAccounted
  <2>1. merged[d] \in Nat /\ nmi_latched[d] \in BOOLEAN
    BY DEF QuiesceInductive, TypeOK
  <2>2. owed[d] = merged[d] + (IF nmi_latched[d] THEN 1 ELSE 0)
                + (IF npc[d] \in {"n_check", "n_inject"} THEN 1 ELSE 0) + Credit(d)
    BY DEF QuiesceInductive, Accounts
  <2>3. owed[d] >= 0
    BY <1>2, <2>1, <2>2
  <2> QED
    BY <1>1, <2>1, <2>2, <2>3
<1> QED
  BY <1>3, QuiesceInvariant, PTL
=============================================================================
