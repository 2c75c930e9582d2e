------------------------------- MODULE EptLock -------------------------------
(***************************************************************************)
(* The lock that keeps software walks of the EPT apart from changes to it  *)
(* (xmhf-memprot/arch/x86/vmx/memp-x86vmx-eptlock.c).                      *)
(*                                                                         *)
(* One action is one access to shared memory: the code separates them by   *)
(* mb(), which is an mfence, so the accesses are sequentially consistent.  *)
(* A CPU is a position pc[c] in the functions of that file.                *)
(***************************************************************************)
EXTENDS Naturals

CONSTANTS
  N,        \* g_midtable_numentries, the number of CPUs
  Failing   \* CPUs on which access_memory_gv may meet an address that maps
            \* to physical page 0 and leave by its error return

ASSUME NAssumption == N \in Nat \ {0}

CPU == 0 .. N - 1

ASSUME FailingAssumption == Failing \subseteq CPU

VARIABLES
  g_eptlock_write_lock,     \* the spin lock word: 1 is free, 0 is taken
  g_eptlock_write_pending,
  vmx_eptlock_reading,      \* per VCPU
  pc,                       \* per CPU, where it is in the lock's code
  i                         \* per CPU, the loop variable of write_lock

eptvars == <<g_eptlock_write_lock, g_eptlock_write_pending,
             vmx_eptlock_reading, pc, i>>

WriterPc == {"w_spin", "w_flag", "w_scan", "w_held", "w_release"}
ReaderPc == {"r_wait", "r_set", "r_test", "r_undo", "r_held"}

EptInit ==
  /\ g_eptlock_write_lock = 1
  /\ g_eptlock_write_pending = FALSE
  /\ vmx_eptlock_reading = [c \in CPU |-> FALSE]
  /\ pc = [c \in CPU |-> "idle"]
  /\ i = [c \in CPU |-> 0]

Goto(c, from, to) == pc[c] = from /\ pc' = [pc EXCEPT ![c] = to]

-----------------------------------------------------------------------------
(* memprot_x86vmx_eptlock_write_lock *)

WriteLock(c) ==
  /\ Goto(c, "idle", "w_spin")
  /\ UNCHANGED <<g_eptlock_write_lock, g_eptlock_write_pending,
                 vmx_eptlock_reading, i>>

WriteSpin(c) ==
  /\ Goto(c, "w_spin", "w_flag")
  /\ g_eptlock_write_lock = 1
  /\ g_eptlock_write_lock' = 0
  /\ UNCHANGED <<g_eptlock_write_pending, vmx_eptlock_reading, i>>

\* Mutant: the writer enters as soon as it has raised the flag, without
\* waiting for the readers that are already inside.
WriteFlagNoScan(c) ==
  /\ Goto(c, "w_flag", "w_held")
  /\ g_eptlock_write_pending' = TRUE
  /\ UNCHANGED <<g_eptlock_write_lock, vmx_eptlock_reading, i>>

\* HALT_ON_ERRORCOND(!pending), then stop new readers.
WriteFlag(c) ==
  /\ pc[c] = "w_flag"
  /\ IF g_eptlock_write_pending
       THEN pc' = [pc EXCEPT ![c] = "halted"] /\ UNCHANGED g_eptlock_write_pending
       ELSE pc' = [pc EXCEPT ![c] = "w_scan"] /\ g_eptlock_write_pending' = TRUE
  /\ i' = [i EXCEPT ![c] = 0]
  /\ UNCHANGED <<g_eptlock_write_lock, vmx_eptlock_reading>>

\* Mutant: the loop runs to i <= g_midtable_numentries.
WriteScanPast(c) ==
  /\ pc[c] = "w_scan"
  /\ i[c] = N \/ ~vmx_eptlock_reading[i[c]]
  /\ i' = [i EXCEPT ![c] = i[c] + 1]
  /\ pc' = [pc EXCEPT ![c] = IF i[c] = N THEN "w_held" ELSE "w_scan"]
  /\ UNCHANGED <<g_eptlock_write_lock, g_eptlock_write_pending,
                 vmx_eptlock_reading>>

\* One turn of the loop that waits for the readers, in g_midtable order.
WriteScan(c) ==
  /\ pc[c] = "w_scan"
  /\ i[c] \in CPU
  /\ ~vmx_eptlock_reading[i[c]]
  /\ i' = [i EXCEPT ![c] = i[c] + 1]
  /\ pc' = [pc EXCEPT ![c] = IF i[c] + 1 = N THEN "w_held" ELSE "w_scan"]
  /\ UNCHANGED <<g_eptlock_write_lock, g_eptlock_write_pending,
                 vmx_eptlock_reading>>

(* memprot_x86vmx_eptlock_write_unlock *)

\* Mutant: the flag stays up when the writer leaves.
WriteUnlockKeepFlag(c) ==
  /\ Goto(c, "w_held", "w_release")
  /\ UNCHANGED <<g_eptlock_write_lock, g_eptlock_write_pending,
                 vmx_eptlock_reading, i>>

WriteUnlock(c) ==
  /\ pc[c] = "w_held"
  /\ g_eptlock_write_pending' = FALSE
  /\ pc' = [pc EXCEPT ![c] = IF g_eptlock_write_pending THEN "w_release"
                                                        ELSE "halted"]
  /\ UNCHANGED <<g_eptlock_write_lock, vmx_eptlock_reading, i>>

WriteRelease(c) ==
  /\ Goto(c, "w_release", "idle")
  /\ g_eptlock_write_lock' = 1
  /\ UNCHANGED <<g_eptlock_write_pending, vmx_eptlock_reading, i>>

-----------------------------------------------------------------------------
(* memprot_x86vmx_eptlock_read_lock *)

ReadLock(c) ==
  /\ pc[c] = "idle"
  /\ pc' = [pc EXCEPT ![c] = IF vmx_eptlock_reading[c] THEN "halted"
                                                       ELSE "r_wait"]
  /\ UNCHANGED <<g_eptlock_write_lock, g_eptlock_write_pending,
                 vmx_eptlock_reading, i>>

ReadWait(c) ==
  /\ Goto(c, "r_wait", "r_set")
  /\ ~g_eptlock_write_pending
  /\ UNCHANGED <<g_eptlock_write_lock, g_eptlock_write_pending,
                 vmx_eptlock_reading, i>>

ReadSet(c) ==
  /\ Goto(c, "r_set", "r_test")
  /\ vmx_eptlock_reading' = [vmx_eptlock_reading EXCEPT ![c] = TRUE]
  /\ UNCHANGED <<g_eptlock_write_lock, g_eptlock_write_pending, i>>

\* Mutant: the reader does not look at the flag a second time.
ReadTestOnce(c) ==
  /\ Goto(c, "r_test", "r_held")
  /\ UNCHANGED <<g_eptlock_write_lock, g_eptlock_write_pending,
                 vmx_eptlock_reading, i>>

ReadTest(c) ==
  /\ pc[c] = "r_test"
  /\ pc' = [pc EXCEPT ![c] = IF g_eptlock_write_pending THEN "r_undo"
                                                        ELSE "r_held"]
  /\ UNCHANGED <<g_eptlock_write_lock, g_eptlock_write_pending,
                 vmx_eptlock_reading, i>>

\* Mutant: the reader retries with its own flag still up.
ReadUndoKeep(c) ==
  /\ Goto(c, "r_undo", "r_wait")
  /\ UNCHANGED <<g_eptlock_write_lock, g_eptlock_write_pending,
                 vmx_eptlock_reading, i>>

ReadUndo(c) ==
  /\ Goto(c, "r_undo", "r_wait")
  /\ vmx_eptlock_reading' = [vmx_eptlock_reading EXCEPT ![c] = FALSE]
  /\ UNCHANGED <<g_eptlock_write_lock, g_eptlock_write_pending, i>>

(* memprot_x86vmx_eptlock_read_unlock *)

ReadUnlock(c) ==
  /\ pc[c] = "r_held"
  /\ vmx_eptlock_reading' = [vmx_eptlock_reading EXCEPT ![c] = FALSE]
  /\ pc' = [pc EXCEPT ![c] = IF vmx_eptlock_reading[c] THEN "idle"
                                                       ELSE "halted"]
  /\ UNCHANGED <<g_eptlock_write_lock, g_eptlock_write_pending, i>>

\* access_memory_gv: "if (hva == NULL) return -1" inside the locked region,
\* with no read_unlock.
ReadErrorReturn(c) ==
  /\ c \in Failing
  /\ Goto(c, "r_held", "idle")
  /\ UNCHANGED <<g_eptlock_write_lock, g_eptlock_write_pending,
                 vmx_eptlock_reading, i>>

-----------------------------------------------------------------------------

\* The steps of a call that has begun.
WriteStep(c) == \/ WriteSpin(c)
                \/ WriteFlag(c)
                \/ WriteScan(c)
                \/ WriteUnlock(c)
                \/ WriteRelease(c)

ReadStep(c) == \/ ReadWait(c)
               \/ ReadSet(c)
               \/ ReadTest(c)
               \/ ReadUndo(c)
               \/ ReadUnlock(c)
               \/ ReadErrorReturn(c)

EptNext == \E c \in CPU : \/ WriteLock(c)
                          \/ WriteStep(c)
                          \/ ReadLock(c)
                          \/ ReadStep(c)

EptSpec == EptInit /\ [][EptNext]_eptvars

\* A CPU that has entered the lock's code keeps executing: nothing can take
\* the CPU away from the hypervisor.  Starting a walk or a change is free.
EptFairSpec == EptSpec /\ \A c \in CPU : WF_eptvars(WriteStep(c) \/ ReadStep(c))

-----------------------------------------------------------------------------

\* Type correctness; in particular the scan of write_lock looks at entries of
\* g_midtable only.
EptTypeOK ==
  /\ g_eptlock_write_lock \in {0, 1}
  /\ g_eptlock_write_pending \in BOOLEAN
  /\ vmx_eptlock_reading \in [CPU -> BOOLEAN]
  /\ pc \in [CPU -> {"idle", "halted"} \cup WriterPc \cup ReaderPc]
  /\ i \in [CPU -> 0 .. N]

\* A CPU that walks the EPT between read_lock and read_unlock never overlaps
\* a CPU that holds the write lock, and there is one such writer at most:
\* the "Mutual exclusion" of memp-x86vmx-eptlock.c, which the early second
\* look at the flag and the scan of all CPUs establish together.
EptExclusion ==
  \A c, d \in CPU : pc[c] = "w_held" /\ c # d => pc[d] \notin {"w_held", "r_held"}

\* None of the HALT_ON_ERRORCONDs of the lock fires on a CPU whose walks all
\* give the lock back, whatever the other CPUs do: the flag is down when a
\* writer has the spin lock, up when it leaves, and a CPU's own reading flag
\* matches what the CPU does.
EptNeverHalts == \A c \in CPU \ Failing : pc[c] # "halted"

\* Once a writer has raised the flag it gets the lock: new readers stay out
\* and the ones inside leave (the "Progress" of the lock's analysis).
WriterProgress == \A c \in CPU : pc[c] = "w_scan" ~> pc[c] = "w_held"

Owner(c) == pc[c] \in {"w_flag", "w_scan", "w_held", "w_release"}
Raised(c) == pc[c] \in {"w_scan", "w_held"}
Reading(c) == pc[c] \in {"r_test", "r_undo", "r_held"}

\* The error return of access_memory_gv is the only thing that can keep a
\* writer out: one that has raised the flag gets the lock unless a CPU that may
\* take that return no longer walks and still shows its reading flag.
WriterGetsLock ==
  \A c \in CPU : pc[c] = "w_scan"
                 ~> \/ pc[c] = "w_held"
                    \/ \E d \in Failing : vmx_eptlock_reading[d] /\ ~Reading(d)

\* Why the lock works, as an invariant that every single step preserves: the
\* spin lock has one owner; the flag is up exactly while the owner scans or
\* writes; a reader that may be inside shows its own flag, save that one whose
\* error return forgot it keeps showing it; and the writer has seen every CPU
\* before i[w] outside, where the second look at the flag keeps it.
EptInductive ==
  /\ EptTypeOK
  /\ \A c \in CPU : Owner(c) => g_eptlock_write_lock = 0
  /\ \A c, d \in CPU : Owner(c) /\ Owner(d) => c = d
  /\ g_eptlock_write_pending <=> \E c \in CPU : Raised(c)
  /\ \A c \in CPU : Reading(c) => vmx_eptlock_reading[c]
  /\ \A c \in CPU : vmx_eptlock_reading[c] => Reading(c) \/ c \in Failing
  /\ \A w, j \in CPU : Raised(w) /\ j < i[w] => pc[j] # "r_held"
  /\ \A w \in CPU : pc[w] = "w_held" => i[w] = N
  /\ \A c \in CPU : pc[c] = "halted" => c \in Failing

\* The lock implements RwLock: a step that lets a reader or a writer in or
\* out is allowed there, every other step changes nothing there.
RW == INSTANCE RwLock WITH readers <- {c \in CPU : pc[c] = "r_held"},
                           writers <- {c \in CPU : pc[c] = "w_held"}

\* Every behaviour of the lock's code is a behaviour of the abstract
\* reader-writer lock.
ImplementsRwLock == RW!Spec
=============================================================================
