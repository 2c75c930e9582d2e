------------------------------- MODULE Nested -------------------------------
(***************************************************************************)
(* Nested virtualisation on one CPU (xmhf-nested/arch/x86/vmx): the guest  *)
(* hypervisor L1 enters and leaves VMX operation, loads and clears VMCS12s *)
(* and runs its guest L2 on EPT02s that are built from its EPT12 and       *)
(* XMHF's EPT01 and kept in a cache.                                       *)
(*                                                                         *)
(* Another CPU may change EPT01 and have this one flush, at any point of   *)
(* the code: flush_ept02 runs in the NMI handler.  Where the main thread   *)
(* uses the cache it blocks flushes, notes those that arrive and carries   *)
(* them out at the end.  One action is what the main thread does between   *)
(* two points where such an NMI makes a difference.                        *)
(***************************************************************************)
EXTENDS Lru, Integers

CONSTANTS
  NSlots,     \* VMX_NESTED_MAX_ACTIVE_VMCS
  Vmcs12,     \* addresses of the VMCSs of L1
  Ept12,      \* addresses of the EPTs of L1
  NoVmcs,     \* CUR_VMCS_PTR_INVALID
  NoEpt       \* GUEST_EPT_ROOT_INVALID

ASSUME NSlotsAssumption == NSlots \in Nat \ {0}
ASSUME NoneAssumption == NoVmcs \notin Vmcs12 /\ NoEpt \notin Ept12

Slot == 0 .. NSlots - 1
NoSlot == -1    \* INVALID_VMCS12_INDEX
VMCS01 == -1    \* among the VMCSs the processor may have loaded
NoLine == -1    \* no cache line
EPT01 == -1     \* among the EPTs an EPT pointer may name

VARIABLES
  at,                  \* where the CPU is
  next,                \* where it goes on after unblock_ept02_flush
  mode,                \* vmx_nested_operation_mode
  cur,                 \* vmx_nested_cur_vmcs12
  vmcs12_ptr,          \* per slot of cpu_active_vmcs12 ...
  launched,            \* ... slots whose VMCS12 is launched
  guest_ept_root,
  guest_ept_cache_line,
  loaded,              \* the VMCS the processor has loaded
  hw_launched,         \* slots whose VMCS02 the processor holds as launched
  eptp,                \* per VMCS, the EPT pointer in it
  valid, key,          \* ept02_cache
  filled,              \* lines whose EPT02, or TLB entries for it, hold mappings
  old01,               \* lines with mappings from before a change of EPT01
  old12,               \* lines with mappings from before an INVEPT for their key
  oldaddr,             \* VMCS02s with addresses from before a change of EPT01
  hand,                \* the EPT01 entry that walk_ept02 has read, if any
  stopped,             \* in the NMI handler, stopped by another CPU
  disable,             \* vmx_nested_ept02_flush_disable
  visited,             \* vmx_nested_ept02_flush_visited
  flags                \* the local variable of unblock_ept02_flush

slotvars == <<vmcs12_ptr, launched, hw_launched>>
eptvars == <<guest_ept_root, guest_ept_cache_line, eptp>>
cachevars == <<valid, key, filled, old01, old12, oldaddr>>
flushvars == <<disable, visited, flags>>
vars == <<at, next, mode, cur, slotvars, eptvars, loaded, cachevars,
          flushvars, hand, stopped>>

Flags == {"entry", "eptp"}   \* MEMP_FLUSHTLB_ENTRY, MEMP_FLUSHTLB_EPTP
Where == {"l1", "l2", "enter", "en_translate", "en_mode", "walk", "insert", "forward",
          "fw_translate", "fw_mode", "invept", "un_off", "un_test", "un_read",
          "un_clear", "un_on", "un_effect",
          "halted",     \* an assertion about XMHF's own state has failed
          "refused"}    \* halted over what L1, L2 or the hypapp did

Init ==
  /\ at = "l1" /\ next = "l1"
  /\ mode = "disabled"
  /\ cur = NoSlot
  /\ vmcs12_ptr = [s \in Slot |-> NoVmcs]
  /\ launched = {} /\ hw_launched = {}
  /\ guest_ept_root = [s \in Slot |-> NoEpt]
  /\ guest_ept_cache_line = [s \in Slot |-> NoLine]
  /\ loaded = VMCS01
  /\ eptp = [v \in Slot \cup {VMCS01} |-> EPT01]
  /\ valid = LRU_SET_INIT
  /\ key = [l \in Line |-> NoEpt]
  /\ filled = {} /\ old01 = {} /\ old12 = {} /\ oldaddr = {}
  /\ hand = "none" /\ stopped = FALSE
  /\ disable = FALSE /\ visited = {} /\ flags = {}

\* HALT_ON_ERRORCOND(ok), go on at "to" otherwise.
HaltUnless(ok, to) == at' = IF ok THEN to ELSE "halted"

\* The same, where the code that goes on may yet halt over what L1 did.
HaltOrRefuse(ok, to) == HaltUnless(ok, to) \/ HaltUnless(ok, "refused")

-----------------------------------------------------------------------------
(* The EPT02 cache *)

\* get_ept02(ept12): look the key up among lines of these ages.  On a miss
\* ept02_ctx_reset empties the EPT02 and its TLB entries.
get_ept02(ages, k) ==
  LET found == FoundLine(ages, key, k)
      hit == Hits(ages, key, k) # {}
      emptied == IF hit THEN {} ELSE {found}
  IN  /\ valid' = Aged(ages, key, k)
      /\ key' = [key EXCEPT ![found] = k]
      /\ filled' = filled \ emptied
      /\ old01' = old01 \ emptied
      /\ old12' = old12 \ emptied

\* Mutant: the EPT pointer in the VMCS is left alone.
rewalk_ept01_no_write(ages, lines) ==
  LET root == guest_ept_root[cur] IN
  /\ IF root = NoEpt
       THEN /\ guest_ept_cache_line' = lines
            /\ valid' = ages
            /\ UNCHANGED <<key, filled, old01, old12>>
       ELSE /\ get_ept02(ages, root)
            /\ guest_ept_cache_line' = [lines EXCEPT ![cur] = FoundLine(ages, key, root)]
  /\ oldaddr' = oldaddr \ {loaded}
  /\ UNCHANGED eptp

\* rewalk_ept01: point the loaded VMCS at the EPT the guest is to run on, and
\* translate its other addresses again.
rewalk_ept01(ages, lines) ==
  LET root == guest_ept_root[cur] IN
  /\ IF root = NoEpt
       THEN /\ guest_ept_cache_line' = lines
            /\ eptp' = [eptp EXCEPT ![loaded] = EPT01]
            /\ valid' = ages
            /\ UNCHANGED <<key, filled, old01, old12>>
       ELSE /\ get_ept02(ages, root)
            /\ guest_ept_cache_line' = [lines EXCEPT ![cur] = FoundLine(ages, key, root)]
            /\ eptp' = [eptp EXCEPT ![loaded] = FoundLine(ages, key, root)]
  /\ oldaddr' = oldaddr \ {loaded}

\* flush_ept02_effect(f)
flush_ept02_effect(f) ==
  LET ages == IF "entry" \in f THEN LRU_SET_INIT ELSE valid
      lines == IF "entry" \in f THEN [s \in Slot |-> NoLine] ELSE guest_ept_cache_line
  IN  /\ IF mode = "nonroot"
           THEN rewalk_ept01(ages, lines)
           ELSE /\ valid' = ages
                /\ guest_ept_cache_line' = lines
                /\ UNCHANGED <<eptp, key, filled, old01, old12, oldaddr>>
      /\ UNCHANGED guest_ept_root

\* flush_ept02(f): note the flush while flushes are blocked.
flush_ept02(f) ==
  IF disable
    THEN /\ visited' = visited \cup f
         /\ UNCHANGED <<eptvars, cachevars>>
    ELSE flush_ept02_effect(f) /\ UNCHANGED visited

\* Another CPU quiesces this one, wherever it is, and changes EPT01.  The
\* protocol that does it is module Quiesce.
Ept01Changes ==
  /\ stopped' = TRUE
  /\ old01' = filled
  /\ oldaddr' = Slot
  /\ hand' = IF hand = "new" THEN "old" ELSE hand
  /\ UNCHANGED <<at, next, mode, cur, slotvars, eptvars, loaded,
                 valid, key, filled, old12, flushvars>>

\* Before it leaves the NMI handler, this CPU flushes its mappings.
QuiesceFlush ==
  /\ flush_ept02({"entry"})
  /\ stopped' = FALSE
  /\ UNCHANGED <<at, next, mode, cur, slotvars, loaded, hand, disable, flags>>

\* A hypapp call switches the EPT of this CPU, no entry of it.
EptpFlush ==
  /\ at \in {"l1", "l2"}
  /\ flush_ept02({"eptp"})
  /\ UNCHANGED <<at, next, mode, cur, slotvars, loaded, hand, disable, flags>>

-----------------------------------------------------------------------------
(* block_ept02_flush and unblock_ept02_flush *)

\* block_ept02_flush, then go on at "to".
Block(to) ==
  /\ HaltUnless(~disable, to)
  /\ disable' = TRUE
  /\ UNCHANGED <<visited, flags>>

\* Enter unblock_ept02_flush, to go on at "to" after it.
Unblock(to) == at' = "un_off" /\ next' = to

\* Assert that flushes are blocked, stop blocking.
UnblockOff ==
  /\ at = "un_off"
  /\ HaltUnless(disable, "un_test")
  /\ disable' = FALSE
  /\ UNCHANGED <<next, mode, cur, slotvars, eptvars, hand, loaded, cachevars, visited, flags>>

\* Mutant: a single test of what was noted, no loop.
UnblockTestBlind ==
  /\ at = "un_test"
  /\ at' = next
  /\ UNCHANGED <<next, mode, cur, slotvars, eptvars, hand, loaded, cachevars, flushvars>>

\* while (vmx_nested_ept02_flush_visited)
UnblockTest ==
  /\ at = "un_test"
  /\ at' = IF visited = {} THEN next ELSE "un_read"
  /\ UNCHANGED <<next, mode, cur, slotvars, eptvars, hand, loaded, cachevars, flushvars>>

UnblockRead ==
  /\ at = "un_read" /\ at' = "un_clear"
  /\ flags' = visited
  /\ UNCHANGED <<next, mode, cur, slotvars, eptvars, hand, loaded, cachevars, disable, visited>>

UnblockClear ==
  /\ at = "un_clear" /\ at' = "un_on"
  /\ visited' = {}
  /\ UNCHANGED <<next, mode, cur, slotvars, eptvars, hand, loaded, cachevars, disable, flags>>

UnblockOn ==
  /\ at = "un_on" /\ at' = "un_effect"
  /\ disable' = TRUE
  /\ UNCHANGED <<next, mode, cur, slotvars, eptvars, hand, loaded, cachevars, visited, flags>>

\* flush_ept02_effect(flags).  Then blocking stops again, as at the start.
UnblockEffect ==
  /\ at = "un_effect" /\ at' = "un_off"
  /\ flush_ept02_effect(flags)
  /\ flags' = {}
  /\ UNCHANGED <<next, mode, cur, slotvars, hand, loaded, disable, visited>>

unblock_ept02_flush ==
  \/ UnblockOff \/ UnblockTest \/ UnblockRead
  \/ UnblockClear \/ UnblockOn \/ UnblockEffect

-----------------------------------------------------------------------------
(* VMX instructions of L1 *)

\* handle_vmxon, with the checks passed: the slots are emptied, no more.
Vmxon ==
  /\ at = "l1" /\ mode = "disabled"
  /\ mode' = "root" /\ cur' = NoSlot
  /\ vmcs12_ptr' = [s \in Slot |-> NoVmcs]
  /\ UNCHANGED <<at, next, launched, hw_launched, eptvars, hand, loaded, cachevars, flushvars>>

\* handle_vmxoff: the slots keep what they have.
Vmxoff ==
  /\ at = "l1" /\ mode = "root"
  /\ mode' = "disabled" /\ cur' = NoSlot
  /\ UNCHANGED <<at, next, slotvars, eptvars, hand, loaded, cachevars, flushvars>>

\* Mutant: VMCLEAR of the VMCS02 left out.
new_active_vmcs12_no_clear(s, v) ==
  /\ vmcs12_ptr' = [vmcs12_ptr EXCEPT ![s] = v]
  /\ launched' = launched \ {s}
  /\ guest_ept_root' = [guest_ept_root EXCEPT ![s] = NoEpt]
  /\ guest_ept_cache_line' = [guest_ept_cache_line EXCEPT ![s] = NoLine]
  /\ UNCHANGED <<hw_launched, eptp>>

\* new_active_vmcs12: the VMCS02 of the slot is cleared.
new_active_vmcs12(s, v) ==
  /\ vmcs12_ptr' = [vmcs12_ptr EXCEPT ![s] = v]
  /\ launched' = launched \ {s}
  /\ hw_launched' = hw_launched \ {s}
  /\ guest_ept_root' = [guest_ept_root EXCEPT ![s] = NoEpt]
  /\ guest_ept_cache_line' = [guest_ept_cache_line EXCEPT ![s] = NoLine]
  /\ UNCHANGED eptp

\* The slots with this address in them: find_active_vmcs12, or the free ones.
SlotsWith(v) == {s \in Slot : vmcs12_ptr[s] = v}

\* handle_vmptrld: the slot of v, else a new one, becomes current.
Vmptrld(v) ==
  /\ at = "l1" /\ mode = "root"
  /\ IF SlotsWith(v) # {}
       THEN /\ cur' = Min(SlotsWith(v))
            /\ UNCHANGED <<at, slotvars, eptvars>>
       ELSE IF SlotsWith(NoVmcs) # {}
         THEN /\ cur' = Min(SlotsWith(NoVmcs))
              /\ new_active_vmcs12(Min(SlotsWith(NoVmcs)), v)
              /\ UNCHANGED at
         ELSE /\ at' = "halted"    \* "Too many active VMCS's"
              /\ UNCHANGED <<cur, slotvars, eptvars>>
  /\ UNCHANGED <<next, mode, hand, loaded, cachevars, flushvars>>

\* Mutant: the current VMCS12 stays current.
VmclearKeepCurrent(v) ==
  /\ at = "l1" /\ mode = "root"
  /\ SlotsWith(v) # {}
  /\ vmcs12_ptr' = [vmcs12_ptr EXCEPT ![Min(SlotsWith(v))] = NoVmcs]
  /\ hw_launched' = hw_launched \ {Min(SlotsWith(v))}
  /\ UNCHANGED <<at, next, mode, cur, launched, eptvars, hand, loaded, cachevars, flushvars>>

\* handle_vmclear of a VMCS12 that is active.
Vmclear(v) ==
  /\ at = "l1" /\ mode = "root"
  /\ SlotsWith(v) # {}
  /\ LET s == Min(SlotsWith(v)) IN
       /\ vmcs12_ptr' = [vmcs12_ptr EXCEPT ![s] = NoVmcs]
       /\ hw_launched' = hw_launched \ {s}
       /\ cur' = IF cur = s THEN NoSlot ELSE cur
  /\ UNCHANGED <<at, next, mode, launched, eptvars, hand, loaded, cachevars, flushvars>>

\* handle_invept: flushes are blocked around the change to the cache.
Invept ==
  /\ at = "l1" /\ mode = "root"
  /\ Block("invept")
  /\ UNCHANGED <<next, mode, cur, slotvars, eptvars, hand, loaded, cachevars>>

\* invept_single_context(k).  old12: what L1 has asked to be forgotten.
invept_single_context(k) ==
  /\ old12' = old12 \cup {l \in filled : key[l] = k}
  /\ valid' = LRU_SET_INVALIDATE(valid, key, k)

\* invept_global
invept_global ==
  /\ old12' = filled
  /\ valid' = LRU_SET_INIT

\* The last case: an invalid type or EPT pointer, INVEPT fails.
InveptBody ==
  /\ at = "invept"
  /\ Unblock("l1")
  /\ \/ invept_global
     \/ \E k \in Ept12 : invept_single_context(k)
     \/ UNCHANGED <<old12, valid>>
  /\ UNCHANGED <<mode, cur, slotvars, eptvars, hand, loaded,
                 key, filled, old01, oldaddr, flushvars>>

-----------------------------------------------------------------------------
(* Entering L2: handle_vmlaunch_vmresume and handle_vmentry *)

\* The instruction is the one the launch state calls for (the other fails).
\* The hypapp is asked; flushes are blocked, VMCS02 is loaded.
VmentryBlock ==
  /\ at = "l1" /\ mode = "root" /\ cur # NoSlot
  /\ \/ Block("en_translate") /\ loaded' = cur
     \/ at' = "refused" /\ UNCHANGED <<loaded, flushvars>>
  /\ UNCHANGED <<next, mode, cur, slotvars, eptvars, hand, cachevars>>

\* vmcs12_to_vmcs02 as far as EPT goes: k is the EPT that L1 has put into
\* VMCS12, NoEpt if it has EPT off.
TranslateEpt(k) ==
  /\ guest_ept_root' = [guest_ept_root EXCEPT ![cur] = k]
  /\ IF k = NoEpt
       THEN /\ eptp' = [eptp EXCEPT ![loaded] = EPT01]
            /\ UNCHANGED <<guest_ept_cache_line, valid, key, filled, old01, old12>>
       ELSE /\ get_ept02(valid, k)
            /\ eptp' = [eptp EXCEPT ![loaded] = FoundLine(valid, key, k)]
            /\ guest_ept_cache_line' =
                 [guest_ept_cache_line EXCEPT ![cur] = FoundLine(valid, key, k)]
  /\ oldaddr' = oldaddr \ {loaded}

VmentryTranslate ==
  /\ at = "en_translate" /\ at' = "en_mode"
  /\ \E k \in Ept12 \cup {NoEpt} : TranslateEpt(k)
  /\ UNCHANGED <<next, mode, cur, slotvars, hand, loaded, flushvars>>

\* The translation finds an invalid field, before or after the EPT pointer.
VmentryFail ==
  /\ at = "en_translate"
  /\ \/ UNCHANGED <<eptvars, cachevars>>
     \/ \E k \in Ept12 \cup {NoEpt} : TranslateEpt(k)
  /\ loaded' = VMCS01
  /\ Unblock("l1")
  /\ UNCHANGED <<mode, cur, slotvars, hand, flushvars>>

\* The translation halts over a setting of L1 that XMHF does not support, such
\* as an NMI to inject without NMI exiting.
VmentryRefused ==
  /\ at = "en_translate" /\ at' = "refused"
  /\ UNCHANGED <<next, mode, cur, slotvars, eptvars, hand, loaded, cachevars, flushvars>>

\* The mode becomes non-root, then flushes are unblocked.
VmentryMode ==
  /\ at = "en_mode"
  /\ IF mode = "root" THEN Unblock("enter") ELSE at' = "halted" /\ UNCHANGED next
  /\ mode' = "nonroot"
  /\ UNCHANGED <<cur, slotvars, eptvars, hand, loaded, cachevars, flushvars>>

\* VMRESUME if the VMCS12 is launched, else VMLAUNCH.  The processor refuses
\* the one that does not fit the state of the VMCS02, and the CPU halts.
Vmentry ==
  /\ at = "enter"
  /\ HaltUnless(cur \in launched <=> cur \in hw_launched, "l2")
  /\ launched' = launched \cup {cur}
  /\ hw_launched' = hw_launched \cup {cur}
  /\ UNCHANGED <<next, mode, cur, vmcs12_ptr, eptvars, hand, loaded, cachevars, flushvars>>

-----------------------------------------------------------------------------
(* Exits of L2: handle_vmexit *)

\* handle_vmexit20_ept_violation.
EptViolation ==
  /\ at = "l2"
  /\ Block("walk")
  /\ UNCHANGED <<next, mode, cur, slotvars, eptvars, hand, loaded, cachevars>>

\* The line is asserted to be the one of the EPT12, and valid.
LineFits ==
  LET l == guest_ept_cache_line[cur] IN
  l # NoLine /\ key[l] = guest_ept_root[cur] /\ valid[l] # 0

\* walk_ept02 has read an entry of EPT12 and one of EPT01.  It halts over an
\* entry of EPT12 that allows execution and no reading.
WalkRead ==
  /\ at = "walk" /\ guest_ept_root[cur] # NoEpt
  /\ \/ HaltUnless(LineFits, "insert") /\ hand' = "new"
     \/ LineFits /\ at' = "refused" /\ UNCHANGED hand
  /\ UNCHANGED <<next, mode, cur, slotvars, eptvars, loaded, cachevars, flushvars>>

\* Either is not there: L1 gets an EPT violation or misconfiguration, or the
\* hypapp is called (for a guest without EPT too), which may switch the EPT and
\* is asserted to succeed.
WalkViolation ==
  /\ at = "walk"
  /\ IF guest_ept_root[cur] = NoEpt \/ LineFits
       THEN \/ Unblock("l2") /\ visited' \in {visited, visited \cup {"eptp"}}
            \/ guest_ept_root[cur] # NoEpt /\ Unblock("forward") /\ UNCHANGED visited
            \/ at' = "refused" /\ UNCHANGED <<next, visited>>
       ELSE at' = "halted" /\ UNCHANGED <<next, visited>>
  /\ UNCHANGED <<mode, cur, slotvars, eptvars, hand, loaded, cachevars, disable, flags>>

\* The combined mapping goes into EPT02.  If that is full it is emptied first.
WalkInsert ==
  LET l == guest_ept_cache_line[cur] IN
  /\ at = "insert"
  /\ filled' = filled \cup {l}
  /\ \E emptied \in {{}, {l} \cap filled} :
       /\ old01' = (old01 \ emptied) \cup (IF hand = "old" THEN {l} ELSE {})
       /\ old12' = old12 \ emptied
  /\ hand' = "none"
  /\ Unblock("l2")
  /\ UNCHANGED <<mode, cur, slotvars, eptvars, loaded, valid, key, oldaddr, flushvars>>

\* Any other exit that L1 is to see.
Exit201 ==
  /\ at = "l2" /\ at' = "forward"
  /\ UNCHANGED <<next, mode, cur, slotvars, eptvars, hand, loaded, cachevars, flushvars>>

\* A hypercall or CPUID of L2 that the hypapp does not serve, or EPT12 has had
\* a memory type copied into EPT02 that the processor does not accept.
L2Refused ==
  /\ at = "l2" /\ at' = "refused"
  /\ UNCHANGED <<next, mode, cur, slotvars, eptvars, hand, loaded, cachevars, flushvars>>

\* The hypapp is told, and asserted to succeed; then handle_vmexit20_forward.
ForwardBlock ==
  /\ at = "forward"
  /\ \/ Block("fw_translate")
     \/ at' = "refused" /\ UNCHANGED flushvars
  /\ UNCHANGED <<next, mode, cur, slotvars, eptvars, hand, loaded, cachevars>>

\* vmcs02_to_vmcs12 looks the EPT02 up again.  It asserts that this is a hit
\* and that the EPT pointer in the VMCS02 is the one it finds.  Then the CPU
\* halts if the exit is an entry of L2 that the processor has refused.
ForwardTranslate ==
  LET root == guest_ept_root[cur] IN
  /\ at = "fw_translate"
  /\ IF root = NoEpt
       THEN HaltOrRefuse(eptp[loaded] = EPT01, "fw_mode") /\ UNCHANGED cachevars
       ELSE /\ HaltOrRefuse(/\ Hits(valid, key, root) # {}
                            /\ eptp[loaded] = FoundLine(valid, key, root), "fw_mode")
            /\ get_ept02(valid, root)
            /\ UNCHANGED oldaddr
  /\ UNCHANGED <<next, mode, cur, slotvars, eptvars, hand, loaded, flushvars>>

\* VMCS01 is loaded, the mode becomes root, then flushes are unblocked.
ForwardMode ==
  /\ at = "fw_mode"
  /\ loaded' = VMCS01
  /\ IF mode = "nonroot" THEN Unblock("l1") ELSE at' = "halted" /\ UNCHANGED next
  /\ mode' = "root"
  /\ UNCHANGED <<cur, slotvars, eptvars, hand, cachevars, flushvars>>

-----------------------------------------------------------------------------
MainThread ==
  \/ Vmxon \/ Vmxoff \/ Invept \/ InveptBody
  \/ \E v \in Vmcs12 : Vmptrld(v) \/ Vmclear(v)
  \/ VmentryBlock \/ VmentryTranslate \/ VmentryFail \/ VmentryRefused
  \/ VmentryMode \/ Vmentry
  \/ EptViolation \/ WalkRead \/ WalkViolation \/ WalkInsert
  \/ Exit201 \/ L2Refused \/ ForwardBlock \/ ForwardTranslate \/ ForwardMode
  \/ EptpFlush
  \/ unblock_ept02_flush

Next ==
  \/ ~stopped /\ at # "halted" /\ Ept01Changes
  \/ stopped /\ QuiesceFlush
  \/ ~stopped /\ MainThread /\ UNCHANGED stopped

Spec == Init /\ [][Next]_vars

-----------------------------------------------------------------------------
(* Properties *)

L2Runs == at = "l2" /\ ~stopped

\* Every variable has its type.
TypeOK ==
  /\ at \in Where
  /\ next \in {"l1", "l2", "enter", "forward"}
  /\ mode \in {"disabled", "root", "nonroot"}
  /\ cur \in Slot \cup {NoSlot}
  /\ vmcs12_ptr \in [Slot -> Vmcs12 \cup {NoVmcs}]
  /\ launched \subseteq Slot /\ hw_launched \subseteq Slot
  /\ guest_ept_root \in [Slot -> Ept12 \cup {NoEpt}]
  /\ guest_ept_cache_line \in [Slot -> Line \cup {NoLine}]
  /\ loaded \in Slot \cup {VMCS01}
  /\ eptp \in [Slot \cup {VMCS01} -> Line \cup {EPT01}]
  /\ valid \in [Line -> 0 .. NLines]
  /\ key \in [Line -> Ept12 \cup {NoEpt}]
  /\ filled \subseteq Line /\ old01 \subseteq Line /\ old12 \subseteq Line
  /\ oldaddr \subseteq Slot
  /\ hand \in {"none", "new", "old"}
  /\ stopped \in BOOLEAN /\ disable \in BOOLEAN
  /\ visited \subseteq Flags /\ flags \subseteq Flags

\* No change of EPT01 is lost on its way to L2: whenever L2 runs, the VMCS02
\* and the EPT02 it runs on hold nothing from before the last change, whichever
\* step of an entry, exit or cache operation the flush arrived at
\* (flush_ept02, unblock_ept02_flush, rewalk_ept01).
Ept01ChangeReachesL2 ==
  L2Runs => cur \notin oldaddr /\ eptp[cur] \notin old01

\* XMHF's assertions about its own state hold on the nested path: flushes are
\* blocked and unblocked in pairs, the mode is as expected, an exit finds the
\* EPT02 the L2 ran on, a walk finds the line of its EPT12, and VMLAUNCH or
\* VMRESUME fits the VMCS02.  L1 has no more VMCSs than there are slots.  So a
\* CPU halts only ("refused") over what L1 or the hypapp does: a setting in
\* VMCS12 or an entry of EPT12 that is not supported or that the processor
\* refuses, a hypapp callback that fails.
OnlyRefusalsHalt == at # "halted"

\* A guest runs on its own EPT: L1 on EPT01 (a late flush does not put an EPT02
\* into VMCS01), L2 on a valid EPT02 of the EPT12 it was entered with.
RunsOnItsEpt ==
  /\ eptp[VMCS01] = EPT01
  /\ L2Runs =>
       /\ loaded = cur
       /\ IF guest_ept_root[cur] = NoEpt
            THEN eptp[cur] = EPT01
            ELSE LineFits /\ eptp[cur] = guest_ept_cache_line[cur]

\* A VMCS12 is in one slot, and the current one is in a slot, across VMCLEAR,
\* VMPTRLD, VMXOFF and VMXON.
ActiveOnce ==
  mode # "disabled" =>
    /\ \A s, t \in Slot : vmcs12_ptr[s] = vmcs12_ptr[t] /\ vmcs12_ptr[s] # NoVmcs => s = t
    /\ cur # NoSlot => vmcs12_ptr[cur] # NoVmcs

\* After INVEPT, L2 does not run on what the EPT02 held before: "INVEPT will be
\* executed in ept02_ctx_reset() when this EPT02 is used the next time"
\* (nested-x86vmx-ept12.c, invept_single_context).
InveptHonoured == L2Runs => eptp[cur] \notin old12
=============================================================================
