---------------------------- MODULE EptLockProofs ----------------------------
(***************************************************************************)
(* The EPT lock is correct for any number of CPUs: EptInductive is an      *)
(* inductive invariant, exclusion and the absence of halts follow from it, *)
(* and the lock implements the abstract reader-writer lock.                *)
(***************************************************************************)
EXTENDS EptLock, TLAPS

USE DEF Owner, Raised, Reading

LEMMA InitInductive == EptInit => EptInductive
<1> SUFFICES ASSUME EptInit PROVE EptInductive
  OBVIOUS
<1>1. EptTypeOK
  <2>1. vmx_eptlock_reading \in [CPU -> BOOLEAN]
    BY Zenon DEF EptInit
  <2>2. pc \in [CPU -> {"idle", "halted"} \cup WriterPc \cup ReaderPc]
    BY DEF EptInit
  <2>3. i \in [CPU -> 0 .. N]
    BY NAssumption DEF EptInit
  <2> QED
    BY <2>1, <2>2, <2>3 DEF EptInit, EptTypeOK
<1>2. ~\E c \in CPU : Raised(c)
  BY DEF EptInit
<1> QED
  BY <1>1, <1>2 DEF EptInit, EptInductive

LEMMA StepInductive == EptInductive /\ [EptNext]_eptvars => EptInductive'
<1> SUFFICES ASSUME EptInductive, [EptNext]_eptvars PROVE EptInductive'
  OBVIOUS
<1> USE NAssumption DEF EptInductive, EptTypeOK, WriterPc, ReaderPc, CPU
<1>1. ASSUME NEW c \in CPU, WriteLock(c) PROVE EptInductive'
  BY <1>1 DEF WriteLock, Goto
<1>2. ASSUME NEW c \in CPU, WriteSpin(c) PROVE EptInductive'
  BY <1>2 DEF WriteSpin, Goto
<1>3. ASSUME NEW c \in CPU, WriteFlag(c) PROVE EptInductive'
  <2>1. ~g_eptlock_write_pending
    BY <1>3 DEF WriteFlag
  <2>2. /\ pc' = [pc EXCEPT ![c] = "w_scan"]
        /\ i' = [i EXCEPT ![c] = 0]
        /\ g_eptlock_write_pending' = TRUE
        /\ UNCHANGED <<g_eptlock_write_lock, vmx_eptlock_reading>>
    BY <1>3, <2>1 DEF WriteFlag
  <2>3. EptTypeOK' /\ pc[c] = "w_flag"
    BY <1>3, <2>2 DEF WriteFlag
  <2>4. \E d \in CPU : Raised(d)'
    BY <2>2
  <2>5. \A w, j \in CPU : Raised(w)' /\ j < i'[w] => pc'[j] # "r_held"
    BY <2>2, <2>3
  <2> QED
    BY <2>2, <2>3, <2>4, <2>5
<1>4. ASSUME NEW c \in CPU, WriteScan(c) PROVE EptInductive'
  BY <1>4 DEF WriteScan
<1>5. ASSUME NEW c \in CPU, WriteUnlock(c) PROVE EptInductive'
  BY <1>5 DEF WriteUnlock
<1>6. ASSUME NEW c \in CPU, WriteRelease(c) PROVE EptInductive'
  BY <1>6 DEF WriteRelease, Goto
<1>7. ASSUME NEW c \in CPU, ReadLock(c) PROVE EptInductive'
  BY <1>7 DEF ReadLock
<1>8. ASSUME NEW c \in CPU, ReadWait(c) PROVE EptInductive'
  BY <1>8 DEF ReadWait, Goto
<1>9. ASSUME NEW c \in CPU, ReadSet(c) PROVE EptInductive'
  BY <1>9 DEF ReadSet, Goto
<1>10. ASSUME NEW c \in CPU, ReadTest(c) PROVE EptInductive'
  BY <1>10 DEF ReadTest
<1>11. ASSUME NEW c \in CPU, ReadUndo(c) PROVE EptInductive'
  BY <1>11 DEF ReadUndo, Goto
<1>12. ASSUME NEW c \in CPU, ReadUnlock(c) PROVE EptInductive'
  BY <1>12 DEF ReadUnlock
<1>13. ASSUME NEW c \in CPU, ReadErrorReturn(c) PROVE EptInductive'
  BY <1>13 DEF ReadErrorReturn, Goto
<1>14. CASE UNCHANGED eptvars
  BY <1>14 DEF eptvars
<1> QED
  BY <1>1, <1>2, <1>3, <1>4, <1>5, <1>6, <1>7, <1>8, <1>9, <1>10, <1>11, <1>12,
     <1>13, <1>14 DEF EptNext, WriteStep, ReadStep

\* Every reachable state of the lock satisfies the inductive invariant.
THEOREM Inductive == EptSpec => []EptInductive
BY InitInductive, StepInductive, PTL DEF EptSpec

\* The lock's variables keep their types.
THEOREM TypeCorrect == EptSpec => []EptTypeOK
<1>1. EptInductive => EptTypeOK
  BY DEF EptInductive
<1> QED
  BY <1>1, Inductive, PTL

LEMMA InductiveExcludes == EptInductive => EptExclusion
BY NAssumption DEF EptInductive, EptTypeOK, EptExclusion, CPU

\* A software walk of the EPT never overlaps a writer, and writers never
\* overlap, whatever the number of CPUs and wherever error returns happen.
THEOREM Exclusion == EptSpec => []EptExclusion
BY Inductive, InductiveExcludes, PTL

\* No assertion of the lock fires on a CPU none of whose walks takes the error
\* return that forgets the lock.
THEOREM NeverHalts == EptSpec => []EptNeverHalts
<1>1. EptInductive => EptNeverHalts
  BY DEF EptInductive, EptNeverHalts
<1> QED
  BY <1>1, Inductive, PTL

LEMMA InitImplements == EptInit => RW!Init
BY DEF EptInit, RW!Init

LEMMA StepImplements == EptInductive /\ [EptNext]_eptvars => [RW!Next]_(RW!vars)
<1> SUFFICES ASSUME EptInductive, [EptNext]_eptvars
             PROVE RW!Next \/ UNCHANGED RW!vars
  OBVIOUS
<1> USE NAssumption DEF EptInductive, EptTypeOK, CPU
<1>1. ASSUME NEW c \in CPU, WriteScan(c) PROVE RW!Next \/ UNCHANGED RW!vars
  <2> DEFINE readers == {d \in CPU : pc[d] = "r_held"}
             writers == {d \in CPU : pc[d] = "w_held"}
  <2>1. CASE i[c] + 1 # N
    <3>1. readers' = readers /\ writers' = writers
      BY <1>1, <2>1 DEF WriteScan
    <3> QED
      BY <3>1 DEF RW!vars
  <2>2. CASE i[c] + 1 = N
    <3>1. pc' = [pc EXCEPT ![c] = "w_held"]
      BY <1>1, <2>2 DEF WriteScan
    <3>2. writers = {}
      BY <1>1 DEF WriteScan
    <3>3. pc[N - 1] # "r_held"
      <4>1. i[c] = N - 1 /\ N - 1 \in CPU
        BY <1>1, <2>2 DEF WriteScan
      <4>2. ~vmx_eptlock_reading[N - 1]
        BY <1>1, <4>1 DEF WriteScan
      <4> HIDE DEF CPU, EptTypeOK
      <4> QED
        BY <4>1, <4>2
    <3>4. readers = {}
      BY <1>1, <2>2, <3>3 DEF WriteScan
    <3>5. writers' = {c} /\ readers' = readers
      BY <1>1, <3>1, <3>2 DEF WriteScan
    <3>6. RW!AcquireWrite(c)
      BY <3>2, <3>4, <3>5 DEF RW!AcquireWrite
    <3> QED
      BY <3>6 DEF RW!Next
  <2> QED
    BY <2>1, <2>2
<1>2. ASSUME NEW c \in CPU, WriteUnlock(c) PROVE RW!Next \/ UNCHANGED RW!vars
  BY <1>2 DEF WriteUnlock, RW!Next, RW!ReleaseWrite
<1>3. ASSUME NEW c \in CPU, ReadTest(c) PROVE RW!Next \/ UNCHANGED RW!vars
  BY <1>3 DEF ReadTest, RW!Next, RW!AcquireRead, RW!vars
<1>4. ASSUME NEW c \in CPU, ReadUnlock(c) \/ ReadErrorReturn(c) PROVE RW!Next
  BY <1>4 DEF ReadUnlock, ReadErrorReturn, Goto, RW!Next, RW!ReleaseRead
<1>5. ASSUME NEW c \in CPU,
             WriteLock(c) \/ WriteSpin(c) \/ WriteFlag(c) \/ WriteRelease(c)
      PROVE  UNCHANGED RW!vars
  BY <1>5 DEF WriteLock, WriteSpin, WriteFlag, WriteRelease, Goto, RW!vars
<1>6. ASSUME NEW c \in CPU,
             ReadLock(c) \/ ReadWait(c) \/ ReadSet(c) \/ ReadUndo(c)
      PROVE  UNCHANGED RW!vars
  BY <1>6 DEF ReadLock, ReadWait, ReadSet, ReadUndo, Goto, RW!vars
<1>7. CASE UNCHANGED eptvars
  BY <1>7 DEF eptvars, RW!vars
<1> QED
  BY <1>1, <1>2, <1>3, <1>4, <1>5, <1>6, <1>7 DEF EptNext, WriteStep, ReadStep

\* The lock's code implements the abstract reader-writer lock.
THEOREM Implements == EptSpec => ImplementsRwLock
BY Inductive, InitImplements, StepImplements, PTL
   DEF EptSpec, ImplementsRwLock, RW!Spec
=============================================================================
