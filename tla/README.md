# XMHF in TLA+

A model-checked specification, with its safety properties proved, of the
concurrent and stateful core of XMHF (xmhf64), a hypervisor framework: how its CPUs start, stop each
other, share the extended page tables (EPT), pass NMIs to their guests, start
the guest's CPUs, run a guest that is itself a hypervisor, and how the hypapp
TrustVisor isolates pieces of application code. Paths below are relative to
`src/xmhf/src/xmhf-core/xmhf-runtime/` unless they begin with `src/`.

## The system

| Part | Code | Here |
|---|---|---|
| EPT read-write lock | `xmhf-memprot/arch/x86/vmx/memp-x86vmx-eptlock.c` | `EptLock`, `RwLock`, `EptLockProofs` |
| CPU quiescing, TLB shootdown (VMX) | `xmhf-smpguest/arch/x86/vmx/smpg-x86vmx.c`, `xmhf-memprot/memp-interface.c` | `Quiesce`, `QuiesceProofs` |
| NMIs for the guest (VMX) | `smpg-x86vmx.c`, `xmhf-eventhub/arch/x86/vmx/peh-x86vmx-main.c` | `GuestNmi`, `VirtualNmi`, `GuestNmiProofs` |
| Start-up, shutdown, guest INIT and SIPI | `bplt-x86-smp.c`, `xmhf-startup/runtime.c`, `smpg-x86.c`, `smpg-x86vmx.c` | `SmpBoot`, `SmpBootProofs` |
| Nested virtualisation | `xmhf-nested/arch/x86/vmx/`, `include/stl/xmhf-lru.h` | `Nested`, `Lru`, `NestedProofs`; `NestedNmi`, `NestedNmiProofs` |
| TrustVisor | `src/hypapps/trustvisor` | `TrustVisor`, `TrustVisorProofs`; its NMI blocking also in `GuestNmi` |
| Event hub dispatch (VMX) | `peh-x86vmx-main.c` | NMI, NMI-window, #DB, INIT, LAPIC, hypercall and EPT violation exits |
| Guest memory access, instruction emulation | `memp-x86vmx-guestmem.c`, `x86vmx-emulation.c` | only their locking |

Every CPU runs the same hypervisor. A VM exit enters the intercept handler of
the event hub; a hypercall makes it *quiesce* the other CPUs with NMIs, call
the hypapp, and release them. An NMI that is not for quiescing belongs to the
guest and is kept until the guest can take it. A handler that reads guest
memory walks the EPT in software under the read side of the EPT lock;
quiescing takes the write side first, so that no CPU is stopped inside a walk.
Before a stopped CPU resumes it flushes what the hypapp has asked for, which
in nested virtualisation includes the EPT02s it has built from the EPT.
`PROJECT.json` lists all parts, the hazards found in the code, and for each
definition the lines it models.

## Modules

**EptLock** models the four lock operations instruction by instruction where
another CPU can observe it: the spin lock, the pending flag, the scan of
`vmx_eptlock_reading`, the reader's flag and its second look. `mb()` is
`mfence`, so interleaving is the right memory model. `Failing` is the set of
CPUs whose walk may leave through the early return of `access_memory_gv`,
which skips the unlock. **RwLock** is what the lock promises: sets of readers
and writers. `ImplementsRwLock` maps the lock onto it by position.

**Quiesce** extends `EptLock`: each CPU has a main thread (`qpc`), an NMI
handler that interrupts it anywhere (`npc`) and a position in `printf`
(`printing`), whose line lock quiescing also takes. The shared variables of
`smpg-x86vmx-data.c` are the fields of `g`, without their `g_vmx_` prefix.
The short critical sections around a single counter are one step. `stale`,
`owed` and `merged` are history: CPUs whose TLB may hold changed entries, NMIs
that devices raised less those passed on, and NMIs that came when one was
latched already, of which the processor keeps one. The hypapp may change EPT entries and ask for a shootdown,
print, or do nothing.

**GuestNmi** follows one CPU through VM exit, `mhv_nmi_disable`, `getVMCS`,
the handler, `putVMCS`, `mhv_nmi_enable` and VM entry. The hardware VMCS and
its copy `vcpu->vmcs` are two records of the three fields that matter. NMIs
arrive at any time; an NMI that interrupts the hypervisor runs its handler in
one step, since the processor blocks further NMIs until it returns.
**VirtualNmi** is the processor's NMI behaviour as a guest expects it.
`LapicExit` assumes that a PAL, the code that runs while the hypapp blocks
NMIs, does not touch the LAPIC page.

**SmpBoot** runs all CPUs from `smpinitialize_commonstart` through the hypapp
barrier into the guest, models the guest's INIT and SIPI through the
single-stepped LAPIC page or the x2APIC register, the INIT exit, and the
shutdown barrier. Loops over `g_midtable` are one step per entry and read each
variable in a step of its own. `expected` is history: the vector of the SIPI
that was accepted. `Reset` allows INITs that the chipset sends on a reset. The
guest is assumed to start CPUs from the BSP and to name existing APs (with an
x2APIC the code intercepts the APs' ICR writes too). A single-CPU machine,
where nothing is intercepted, is left out.

**Lru** is the cache set of `xmhf-lru.h` as operators on two functions: the
age of each line and its key.

**Nested** follows one CPU whose guest, L1, is a hypervisor with a guest L2:
VMXON, VMXOFF, VMPTRLD, VMCLEAR, INVEPT, VM entry, EPT violations of L2, and
exits to L1. L2 runs on an EPT02 that combines L1's EPT12 with XMHF's EPT01;
EPT02s are in an `Lru` cache. At any step another CPU may stop this one, change
EPT01 and have it flush. The flush runs in the NMI handler; where the main
thread uses the cache it has raised `vmx_nested_ept02_flush_disable`, and the
flush is only noted, to be carried out by `unblock_ept02_flush`. An action is
what the main thread does between two points where such an NMI makes a
difference. `old01`, `old12`, `oldaddr` and `hand` are history: lines, VMCS02s
and an entry already read that come from before a change of EPT01 or an INVEPT.
L1 has no more VMCSs than there are slots (one more halts with "Too many active
VMCS's"). A quiescing CPU asks for an INVEPT of changed entries only
(`MEMP_FLUSHTLB_ENTRY`), as the hypapps do; the change of the EPT pointer that
TrustVisor makes on its own CPU is `EptpFlush`. An assertion about XMHF's own
state that fails takes the CPU to "halted", one about what L1 or the hypapp does
to "refused": an injected event or interrupt setting that is not supported
(`VmentryRefused`), an EPT12 entry that is execute-only or that the processor
finds misconfigured, a hypapp callback that fails (`HaltOrRefuse`, `L2Refused`).

**NestedNmi** is about NMIs on such a CPU. At each entry L1 may ask for NMI
exiting, virtual NMIs and NMI-window exiting, enter an L2 that blocks NMIs and
inject one; XMHF counts the NMIs for L1 and L2 in one counter. To have an NMI
exit at once it overrides the blocking in VMCS02 and saves the true value. What
a handler does after `mhv_nmi_disable` is one action (`GuestNmi` has the steps
inside it), but NMIs also arrive between the exit and that call ("exit1",
"window1", "exit2", "window2") and before the entry ("post1", "post2").
`EptMiss` is an EPT02 miss: an NMI whose delivery it cut short (`idt`) is
injected again. History: `l2_blocks` is the blocking L2 should see, `delayed`
that the blocking was overridden as an NMI was to be injected (XMHF warns of it
in one of the two places), and `crowded` that two NMIs were kept when an L2 was
entered that blocks NMIs.

**TrustVisor** models registration, sharing, call, return and unregistration
of PALs, pieces of a process's code and data that run on an EPT of their own.
A handler is one action because the event hub quiesces the other CPUs around
hypercalls and, in the default configuration, around EPT violations
(`enable_quiesce_in_guest_mem_pio_traps`; a build that turns it off, such as
the one in `src/docs/pc-intel-x86_64/miao.md`, is not covered). TLBs are
explicit: `tlb` is what each CPU may have cached of each EPT, a CPU may load
whatever its EPT allows, and only the INVEPT of `flushmappings_alltlb` empties
it. `secret` marks pages in which a PAL left private data, `overlap` pages that
were lent while another PAL had them; both are history. A section is one page
at the same address everywhere, the entry point is in the first section, and a
SHARE names one page; `pt.c:272` looks at guest addresses of a PAL where `LendOK`
looks at its pages, which is the same at that scale. Hypercalls come from the regular
guest. `scode_unregister` does not look at the lock of the PAL: unregistering
one that a CPU is in frees the page tables that CPU runs on. The model takes
this step and stops ("freed"), as what follows is undefined. Marshalling is a
step that may fail and halt.

## Runs

| Run | Instance | Shows |
|---|---|---|
| `ept_lock` | 3 CPUs, one with the early return | exclusion, the inductive invariant, refinement of `RwLock`; assertions fire on no other CPU; a writer gets the lock unless an early return was taken |
| `ept_leak` | 2 CPUs, early return | **violated** `WriterProgress` |
| `quiesce` | 3 CPUs, 1 device NMI | the hypapp runs alone, stopped CPUs hold no lock, no stale TLB runs |
| `quiesce_progress` | 2 CPUs, 2 device NMIs | quiescing ends unless the printf lock is contended for ever, stopped CPUs resume, merged NMIs are the only ones lost |
| `guest_nmi` | with and without LAPIC interception | VMCS and copy keep each other's updates; refinement of `VirtualNmi` until an assertion fires, which happens in the case of the finding only; only IRET unblocks; NMIs reach a guest that keeps accepting them |
| `guest_nmi_halt` | LAPIC intercepted | **violated** `NeverHalts` |
| `smp_boot` | 3 CPUs, one or two starts per AP, resets | barriers complete, a SIPI starts its AP from the accepted vector, hypapps before guests, interception, shutdown; no AP forgotten in the default build |
| `smp_boot_race` | 2 CPUs, two starts per AP | **violated** `NoApForgotten` |
| `nested` | 2 VMCSs, 2 EPT12s, 2 lines, 2 slots | a change of EPT01 reaches L2 whenever the flush comes; each guest runs on its EPT; VMCS tables stay consistent; a CPU halts only over what L1 or the hypapp does |
| `nested_lru` | 1 VMCS, 2 EPT12s, 2 lines, 1 slot | **violated** `InveptHonoured` |
| `nested_nmi` | every setting L1 may choose at an entry | windows armed, L2's blocking kept, NMIs delivered, at most two kept, the cases in which an assertion or an entry fails |
| `trustvisor` | 2 CPUs, 3 pages, 2 entries of 2 sections | private pages out of reach of EPTs and TLBs; each CPU in the world the bookkeeping says, until its PAL is unregistered elsewhere |

Four violations are findings:

1. `access_memory_gv` returns without giving the read lock back
   (`x86vmx-emulation.c:172`); the next EPT writer waits for ever.
2. Two NMIs just after the exit for a LAPIC access leave two NMIs pending; the
   handler then blocks NMIs for the single step, and a third NMI fails the
   assertion at `smpg-x86vmx.c:1212`.
3. The INIT exit lowers `extra_init_count` before `sipireceived`
   (`peh-x86vmx-main.c:1520`); a BSP that scans in between gives up LAPIC
   interception although the AP will wait for another SIPI. Only builds that
   define `__EXTRA_AP_INIT_COUNT__` are concerned.
4. `LRU_SET_FIND_EVICT` never compares the key of the oldest line
   (`xmhf-lru.h:147`), so an EPT12 can get a second line while its first is
   still valid; `LRU_SET_INVALIDATE` then finds one of the two, and L2 later
   runs on mappings from before an INVEPT.

The models show other things, which the properties except or allow:

- With three lines or more (`src/docs/pc-intel-x86_64/lxy.md` configures 8) two
  lines of a set can be of age `LRU_SIZE` at once after an invalidation, where
  the comment at
  `include/stl/xmhf-lru.h:63` says that ages never repeat; `SetOK` in the proofs
  excepts this age.
- A device's NMI that meets a quiesce NMI in the processor is not passed on
  (`merged` in `NmiAccounted`).
- A CPU halts over settings of L1 that XMHF does not support ("refused").
- `KnownHalts` lists how assertions and entries fail as NMIs pass between the
  levels. *limit*: two NMIs are kept as L1 enters an L2 that blocks NMIs, and a
  third fails `nested-x86vmx-handler2.c:417` (or its counterpart for L1).
  *reinject*: an NMI between an exit of L2 and `mhv_nmi_disable` overrides the
  blocking that line 637 asserts. *entry2*: VMCS02 has virtual NMIs even if L1
  does not ask for them, so an NMI injected into a blocking L2, for one after an
  EPT02 miss, fails the entry. *unsupported*: L1 injects an NMI without NMI
  exiting.
- If the blocking is overridden as an NMI is to be injected, L1 may see L2's
  blocking as it is not (the exception `delayed` in `L2BlockingKept`).
- An NMI whose delivery to L2 meets a violation of EPT01 that the hypapp deals
  with is not injected again (`Resume202`).
- A page that is SHARED_CODE of one PAL can be lent to a second PAL, and when
  one of them returns it, the regular guest gets all rights while the other
  still has the page, against the invariant that the comment at
  `src/hypapps/trustvisor/src/pt.c:371` states; `PrivateKept` excepts such
  pages (without the exception TLC refutes it in four steps).
- A PAL can be unregistered while another CPU runs it ("freed", the exception
  in `WorldMatches`).
- A call into a PAL that runs on another CPU spins on its lock with that CPU
  stopped ("spin"); a PAL that returns with IF set or CR0.EM clear loops in
  `hpt_scode_switch_regular`; pages of a registration that fails late stay
  lent, as a FIXME there says.

**Bounds.** Three CPUs give a writer or quiescing CPU two others that can
interfere with each other.
`MaxDeviceNmi` bounds device NMIs: one can merge with a quiesce NMI, two can
arrive in one round. `MaxVisited = 3` exceeds the limit of two kept NMIs.
Two vectors tell a stale one from a new one. Two VMCSs, EPT12s and lines make
L2 change its EPT, its VMCS and its line, have lines evicted, and have one EPT12
in two VMCSs; VMCSs and EPT12s are interchangeable (symmetry). `NestedNmi` has
no bound but the code's own. In `trustvisor` the types CODE, SHARED_CODE and
DATA stand for the three kinds of rights the regular guest keeps or loses with
a section (SHARED is added by SHARE; GUEST_PAGE_TABLES takes none), two
sections reach TV_MAX_SECTIONS, and three pages let two PALs have pages and
one be left; CPUs and pages are interchangeable. States in which TrustVisor
has stopped for good are identified (`View`), as they differ in nothing a
property looks at that was not checked before the stop. For safety the proofs
remove all of these bounds; for liveness they stand.

Deadlock checking is off where the system may stop: when a leaked read lock
blocks every writer (`ept_lock`, `ept_leak`), when an assertion or a failed
entry has halted the CPU (`guest_nmi`, `nested_nmi`), when TrustVisor halts,
spins or is shut down (`trustvisor`), and after shutdown (`SmpBoot`).

**Fairness.** A CPU in hypervisor code cannot be descheduled, so its steps are
weakly fair; so is the delivery of latched NMIs. Guests and devices owe
nothing. Three assumptions are stronger. The hypapp returns and prints finitely
often (strong fairness of its body in `Quiesce`). In `GuestNmi` a latched NMI
is delivered although the guest keeps exiting (strong fairness). In `NestedNmi`
an entry is not put off for ever by further NMIs or EPT02 misses (strong
fairness of the entries). The spin locks are unfair test-and-set locks, and
nothing more is assumed of them: `QuiesceCompletes` therefore excepts
behaviours in which the others take the printf lock for ever.

## Proofs

Every safety property of a passing run is also a theorem that TLAPS checks, for
every value of the constants that satisfies the named assumptions of the
modules. Each proof has the same shape: an inductive invariant, a conjunction of
named parts; one lemma per part that a step preserves it, with one step per
action or group of actions; a theorem that it holds always; and one theorem per
property, which follows from it. TLC checked each invariant on small instances
before it was proved.

| Module | For every | Theorems |
|---|---|---|
| `EptLockProofs` | `N` >= 1, `Failing` | `Inductive`, `TypeCorrect`, `Exclusion`, `NeverHalts`, `Implements` |
| `QuiesceProofs` | `N` >= 1, `Failing`, `MaxDeviceNmi` | `QuiesceInvariant`, `QuiesceTypeCorrect`, `Alone`, `HoldsNothing`, `NoStaleTlb`, `Accounted` |
| `GuestNmiProofs` | `Lapics`, `MaxVisited` >= 1 | `NmiInvariant`, `NmiTypeCorrect`, `LapicHaltsOnly`, `Arming`, `IretUnblocks`, `NmiRefinement` |
| `SmpBootProofs` | `N` >= 2, `Vector`, `ExtraInits`, `Reset` | `SmpInvariant`, `SmpTypeCorrect`, `AppMainFirst`, `AcceptedVector`, `Interception`, `NoneForgotten`, `ShutdownBarrier` |
| `NestedProofs` | `NLines` >= 1, `NSlots` >= 1, `Vmcs12`, `Ept12` | `NestedInvariant`, `NestedTypeCorrect`, `VmcsActiveOnce`, `OwnEpt`, `ChangeReachesL2`, `AssertionsHold` |
| `NestedNmiProofs` | whatever L1 asks for | `NestedNmiInvariant`, `NestedNmiTypeCorrect`, `KnownHaltsOnly`, `NestedArming`, `BlockingOfL2` |
| `TrustVisorProofs` | CPUs, processes, pages, entries, sections | `Invariant`, `TypeCorrect`, `Private`, `World` |

**EPT lock.** Exclusion alone is not inductive. `EptInductive` adds what the
comment of `memp-x86vmx-eptlock.c` argues in words: the spin lock has one owner, the
pending flag is up exactly while the owner scans or writes, a reader that may
be inside shows its flag, and no CPU the scan has passed is inside. The last
conjunct survives because a reader that raises its flag late sees the pending
flag at its second look. `StepInductive` has one step per action.

**Quiescing.** `QuiesceProofs` builds on `EptLockProofs`: a step of quiescing is a
step of the lock or leaves it alone, so `EptInductive` is inherited. That the
hypapp runs alone says little about the states before and after.
`QuiesceInductive` is organised by the position of the one CPU that has the
quiesce lock. `Phases` gives, for each such position, where the NMI handlers of
the others may be (all of them wait, say, from the end of the counting loop to
the resume signal). `Counters` says what the two counters count: handlers that
wait, and handlers that have yet to resume. That the loop `quiesce_counter <
N - 1` ends only when all others wait is a fact about cardinalities.
`StoppedHoldsNothing` needs `LockPlaces`, which ties the positions in the two
locks to those in quiescing. `Accounts` states `NmiAccounted` at every step: the
NMIs of devices not passed on are those merged, latched or being handled, give
or take the quiesce NMI while one is under way (`Credit`).

**NMIs for the guest.** The window bit is right when the guest runs
(`WindowArmed`) because it is right, in the VMCS that will be used, at every
step (`Armed`): outside the critical section the NMI handler updates the
hardware VMCS, inside it the main thread its copy, and the two are equal when
the handler starts (`Section`). `Why` keeps what is known of an exit until it is
handled. `NmiRefinement` maps each step to one of `VirtualNmi` or to none;
`IretUnblocks` is an action property, proved from the same invariant.

**Start-up.** The barriers hold because each counter is the cardinality of the set
of CPUs behind a point (`Counters`), so that its reaching `N` means all of them.
`Accepted` ties the flag of an AP to the vector of the SIPI accepted for it, and
`Scanned` says how far the scan has come: in the default build a flag that the
scan has seen raised stays up, as no INIT exit lowers it.

**Nested virtualisation.** `NestedInductive` has two ideas. Mappings from before a
change of EPT01 are in invalid lines, where no lookup finds them without
emptying the line, or a flush is still pending: the CPU is stopped, or the flush
is noted in `vmx_nested_ept02_flush_visited` or in the local copy of
`unblock_ept02_flush` (`Fresh`, `Noted`). And the line L2 runs on has age 1
(`OnLine`), so that the lookup at its exit finds it again. Both rest on lemmas on
`Lru` alone: lines that a lookup may hit have different keys and ages (`SetOK`),
hence there is always a line to evict (`SomeLineOldest`, by the pigeonhole
principle), lookups keep this so (`LookupOK`), and the line used last is found
again (`FoundAgain`) unless it is the only one. `AssertionsHold` therefore has
two hypotheses, together `Enough`: the cache has more than one line (with one,
the exit of L2 fails its assertion), and L1 has no more VMCSs than there are
slots. It is about "halted" only; what is "refused" may happen. The other theorems need neither. `InveptHonoured`, which the finding
above refutes, has of course no theorem.

**Nested NMIs.** `State01` and `State02` say of the VMCS in use when its window is
armed, when its blocking is overridden and how many NMIs may be kept; `Blocking`
relates the blocking of L2, in VMCS02 or saved, to what it should be, and
`Injection` says when an NMI to inject may meet blocking. The counter may be at
two where one is the limit only if it was so when L2 was entered (`crowded`): an
NMI between the exit of L1 and `mhv_nmi_disable` is kept without its window exit.
`KnownHalts` is a part of the invariant: each failure is shown not to happen, or
to happen in its known case, from the others.

**TrustVisor.** The assumptions are the ones named in `TrustVisor`: at least one
entry, at most `TV_MAX_SECTIONS` sections in a registration, section types among those
of `scode.h`, and that the "none" values are outside their sets.
`PrivateKept` speaks of TLBs only and is not inductive: an empty TLB may be
filled by the next step. `Inductive` adds why it cannot: the sections of an
entry have distinct pages and the PAL's EPT gives exactly the rights of their
types (`RightsMatch`); private data is in sections that only the PAL can use
(`SecretsKept`); and for a private section neither another EPT nor a TLB has
any right (`PrivateAlone`). Every handler does one of three things to rights,
each with a lemma: it lends sections and flushes (`LendStep`: a page that is
lent had rights in the regular EPT, so it is private to nobody else), returns
sections, with or without a flush (`ReturnStep`: the pages of what stays are
untouched because pages are distinct, and nothing private is among what goes),
or gives nobody new rights (`QuietStep`). The lemma for each handler shows
which of these it does and that types are kept; `ReleaseStep` needs that the
sections shared last are of type SHARED and hence hold no private data, which
is why `scode_release_all_shared_pages` needs no zeroing. `World` has an
induction of its own on top of `Inductive`; it holds in stopped states too,
where `StopsOnly` shows that a PAL is gone under its CPU only when "freed" (or
when `hpt_scode_destroy_all` has taken the machine down).

Checked by TLC only:

- liveness, which is beyond the prover: `WriterGetsLock`, `QuiesceCompletes`,
  `StoppedResumes`, `NmiReachesGuest`, `BootCompletes`, `SipiStartsAp` and
  `NmiDelivered`;
- the four violated properties, for which TLC shows a behaviour.

## Not modelled

The map covers a small share of the repository's lines: most of them are
third-party libraries, cryptography, drivers and register set-up.

- **SVM variants** of quiescing, SIPI emulation and the event hub. Their resume
  protocol differs from the VMX one in its order and has no EPT lock, line lock
  or shootdown, so it would need a module of its own beside `Quiesce`.
- **CPUID, MSR, CR, I/O and task-switch exits**, **MTRR emulation** and EPT
  set-up: each changes single fields of one CPU's state, or computes memory
  types over ranges, without concurrency.
- **In nested virtualisation**: VMREAD and VMWRITE, the VMCS12 fields other
  than those for EPT and NMIs, VPIDs, VMCS shadowing, and the checks of
  operands that fail an instruction without a change of state.
- **In TrustVisor**: the software TPM and NV hypercalls, PALs of nested guests,
  marshalling of parameters, and the two-stage page-table walks (`hptw.c`,
  recursive computation over page-table memory; here a page's effective
  rights).
- **DMA protection**: register access, and page tables built once by one CPU.
- **TLSF allocator**: third-party and sequential; its size classes need heaps
  far larger than TLC explores.
- **TPM drivers, boot loader, secure loader**: sequential code around hardware
  registers and command buffers.
- **Lockdown**: port, disk and LED I/O around a few flags.
- **Cryptography and the C library** (but for the line lock of `printf`): pure
  computation.
