--------------------------- MODULE NestedNmiProofs ---------------------------
(***************************************************************************)
(* NMIs pass between the three levels as they should whatever L1 asks for, *)
(* however often L1 and L2 enter each other and wherever NMIs arrive.  The *)
(* count of kept NMIs respects the limit of the guest that runs unless L1  *)
(* has entered an L2 that blocks NMIs while two were kept; XMHF's override *)
(* of the blocking of L2 is on exactly while an NMI is to go to L1.        *)
(***************************************************************************)
EXTENDS NestedNmi, TLAPS

-----------------------------------------------------------------------------
(* The inductive invariant *)

Level1 == where \in {"run1", "exit1", "window1", "post1"}
Level2 == where \in {"run2", "exit2", "window2", "post2"}

\* VMCS01 while L1 runs, has exited or is about to run.
State01 ==
  /\ Level1 =>
       /\ vmcs01.window <=> guest_nmi_pending > 0
       /\ (vmcs01.block \/ vmcs01.entry # "none") /\ ~crowded => guest_nmi_pending <= 1
       /\ ~(vmcs01.entry # "none" /\ vmcs01.block)
       /\ ~guest_vmcs_block_nmi_overridden
  /\ where = "window1" => vmcs01.window /\ ~vmcs01.block
  /\ where # "post1" => vmcs01.entry = "none"

\* VMCS02 while L2 runs, has exited or is about to run: when the blocking is
\* overridden, when there is a window, and how many NMIs are kept.
State02 ==
  /\ Level2 =>
       /\ guest_virtual_nmis => guest_nmi_exiting /\ ~guest_block_nmi
       /\ guest_vmcs_block_nmi_overridden
            <=> guest_nmi_exiting /\ guest_nmi_pending > 0 /\ ~guest_block_nmi
       /\ vmcs02.window
            <=> \/ guest_nmi_pending > 0 /\ (guest_nmi_exiting => ~guest_block_nmi)
                \/ guest_nmi_exiting /\ guest_nmi_window_exiting
       /\ guest_nmi_exiting /\ guest_block_nmi /\ ~crowded => guest_nmi_pending <= 1
       /\ ~guest_nmi_exiting /\ (vmcs02.block \/ vmcs02.entry # "none") /\ ~crowded
            => guest_nmi_pending <= 1
  /\ where = "window2" => vmcs02.window

\* NMIs on their way into L2.
Injection ==
  /\ where \in {"run2", "exit2", "window2"} => vmcs02.entry = "none"
  /\ where = "post2" /\ vmcs02.entry # "none" /\ guest_virtual_nmis
       => ~vmcs02.block \/ (vmcs12.injects /\ vmcs12.block)
  /\ idt # "none" => /\ where = "exit2"
                     /\ vmcs02.block \/ guest_vmcs_block_nmi_overridden

\* The blocking of L2, as L1 and as XMHF keep it.
Blocking ==
  /\ Level2 => vmcs12.exit = "none"
  /\ (guest_virtual_nmis \/ ~guest_nmi_exiting) /\ ~delayed
       => /\ Level1 /\ vmcs12.exit # "none" => (vmcs12.block <=> l2_blocks)
          /\ Level2 /\ guest_vmcs_block_nmi_overridden
               => ~vmcs02.block /\ vmcs02.entry = "none"
          /\ Level2 /\ vmcs02.entry = "none" => (L2Block <=> l2_blocks)

\* TypeOK, variable by variable.
NmiTypes ==
  /\ where \in {"run1", "exit1", "window1", "post1", "run2", "exit2", "window2", "post2"}
  /\ halt \in {"no", "limit", "window", "entry1", "unsupported", "override", "entry2",
               "reinject"}
  /\ vmcs01 \in Vmcs
  /\ vmcs02 \in Vmcs
  /\ vmcs12 \in [block : BOOLEAN, exit : {"none", "nmi", "window", "other"},
                 injects : BOOLEAN]
  /\ idt \in {"none", "l0", "l1"}
  /\ guest_nmi_exiting \in BOOLEAN
  /\ guest_virtual_nmis \in BOOLEAN
  /\ guest_nmi_window_exiting \in BOOLEAN
  /\ guest_block_nmi \in BOOLEAN
  /\ guest_vmcs_block_nmi_overridden \in BOOLEAN
  /\ guest_vmcs_block_nmi \in BOOLEAN
  /\ guest_nmi_pending \in 0 .. 2
  /\ l2_blocks \in BOOLEAN
  /\ delayed \in BOOLEAN
  /\ crowded \in BOOLEAN

NestedInductive ==
  /\ NmiTypes
  /\ State01
  /\ State02
  /\ Injection
  /\ Blocking
  /\ KnownHalts

-----------------------------------------------------------------------------
(* What the parts of the handlers do *)

LEMMA TypeParts == TypeOK <=> NmiTypes
<1>1. TypeOK => NmiTypes
  BY Zenon DEF TypeOK, NmiTypes
<1>2. NmiTypes => TypeOK
  BY Zenon DEF TypeOK, NmiTypes
<1> QED
  BY <1>1, <1>2

\* Everything but halt.
statevars == <<where, vmcs01, vmcs02, vmcs12, idt, guest_nmi_exiting, guest_virtual_nmis,
               guest_nmi_window_exiting, guest_block_nmi, guest_vmcs_block_nmi_overridden,
               guest_vmcs_block_nmi, guest_nmi_pending, l2_blocks, delayed, crowded>>

LEMMA HaltKeeps ==
  ASSUME NEW why, Halt(why)
  PROVE  UNCHANGED statevars
BY DEF Halt, statevars, infovars, settingvars, overridevars, historyvars

LEMMA UpdateEffect ==
  ASSUME NEW v \in Vmcs, NEW e \in BOOLEAN, NEW w \in BOOLEAN, NEW b \in BOOLEAN,
         NmiTypes, update_nested_nmi(v, e, w, b)
  PROVE  LET override == e /\ guest_nmi_pending' > 0 /\ ~b
         IN  /\ vmcs02' \in Vmcs
             /\ vmcs02'.entry = v.entry
             /\ vmcs02'.window <=> IF e THEN override \/ w ELSE guest_nmi_pending' > 0
             /\ vmcs02'.block <=> IF override THEN FALSE
                                  ELSE IF guest_vmcs_block_nmi_overridden
                                    THEN guest_vmcs_block_nmi ELSE v.block
             /\ guest_vmcs_block_nmi_overridden' \in BOOLEAN
             /\ guest_vmcs_block_nmi_overridden' <=> override
             /\ guest_vmcs_block_nmi' \in BOOLEAN
             /\ guest_vmcs_block_nmi' <=> IF override /\ ~guest_vmcs_block_nmi_overridden
                                            THEN v.block ELSE guest_vmcs_block_nmi
<1> DEFINE override == e /\ guest_nmi_pending' > 0 /\ ~b
           window == IF e THEN override \/ w ELSE guest_nmi_pending' > 0
           block == IF override THEN FALSE
                    ELSE IF guest_vmcs_block_nmi_overridden THEN guest_vmcs_block_nmi
                    ELSE v.block
<1>1. override \in BOOLEAN /\ window \in BOOLEAN /\ block \in BOOLEAN /\ v.block \in BOOLEAN
  <2>1. v.block \in BOOLEAN
    BY DEF Vmcs
  <2>2. guest_vmcs_block_nmi \in BOOLEAN
    BY DEF NmiTypes
  <2>3. override \in BOOLEAN
    OBVIOUS
  <2>4. window \in BOOLEAN
    <3>1. (override \/ w) \in BOOLEAN
      OBVIOUS
    <3>2. (guest_nmi_pending' > 0) \in BOOLEAN
      OBVIOUS
    <3> QED
      BY <3>1, <3>2, Zenon
  <2>5. block \in BOOLEAN
    <3> HIDE DEF override
    <3> QED
      BY <2>1, <2>2, Zenon
  <2> QED
    BY <2>1, <2>3, <2>4, <2>5
<1>2. /\ vmcs02' = [v EXCEPT !.window = window, !.block = block]
      /\ guest_vmcs_block_nmi_overridden' = override
      /\ guest_vmcs_block_nmi' = IF override /\ ~guest_vmcs_block_nmi_overridden
                                   THEN v.block ELSE guest_vmcs_block_nmi
  BY Zenon DEF update_nested_nmi, Overrides
<1> HIDE DEF window, block
<1>3. vmcs02' \in Vmcs /\ vmcs02'.entry = v.entry
  BY <1>1, <1>2 DEF Vmcs
<1>4. vmcs02'.window = window /\ vmcs02'.block = block
  BY <1>1, <1>2 DEF Vmcs
<1> QED
  BY <1>1, <1>2, <1>3, <1>4 DEF window, block, NmiTypes

LEMMA ForwardEffect ==
  ASSUME NEW exit \in {"nmi", "window", "other"}, NmiTypes, forward(exit)
  PROVE  /\ vmcs12' \in [block : BOOLEAN, exit : {"none", "nmi", "window", "other"},
                         injects : BOOLEAN]
         /\ vmcs12'.exit = exit
         /\ vmcs12'.block <=> IF guest_nmi_exiting /\ ~guest_virtual_nmis
                                THEN guest_block_nmi ELSE L2Block
         /\ guest_nmi_pending' = IF exit = "nmi" THEN guest_nmi_pending - 1
                                                 ELSE guest_nmi_pending
         /\ vmcs01' \in Vmcs
         /\ vmcs01'.entry = vmcs01.entry
         /\ vmcs01'.window <=> guest_nmi_pending' > 0
         /\ vmcs01'.block <=> \/ exit = "nmi"
                              \/ IF guest_nmi_exiting THEN guest_block_nmi ELSE L2Block
         /\ guest_vmcs_block_nmi_overridden' = FALSE
         /\ crowded' \in BOOLEAN
         /\ crowded' <=> crowded /\ exit # "nmi"
         /\ where' = "post1" /\ idt' = "none"
         /\ UNCHANGED <<halt, vmcs02, guest_nmi_exiting, guest_virtual_nmis,
                        guest_nmi_window_exiting, guest_block_nmi, guest_vmcs_block_nmi,
                        l2_blocks, delayed>>
<1> DEFINE block12 == IF guest_nmi_exiting /\ ~guest_virtual_nmis THEN guest_block_nmi
                                                                   ELSE L2Block
           block01 == \/ exit = "nmi"
                      \/ IF guest_nmi_exiting THEN guest_block_nmi ELSE L2Block
           window01 == guest_nmi_pending' > 0
<1>1. L2Block \in BOOLEAN
  BY DEF L2Block, NmiTypes, Vmcs
<1>2. /\ vmcs12' = [block |-> block12, exit |-> exit, injects |-> FALSE]
      /\ vmcs01' = [vmcs01 EXCEPT !.block = block01, !.window = window01]
  BY DEF forward
<1>3. /\ guest_nmi_pending' = IF exit = "nmi" THEN guest_nmi_pending - 1
                                              ELSE guest_nmi_pending
      /\ guest_vmcs_block_nmi_overridden' = FALSE
      /\ where' = "post1" /\ idt' = "none"
      /\ UNCHANGED <<halt, vmcs02, guest_nmi_exiting, guest_virtual_nmis,
                     guest_nmi_window_exiting, guest_block_nmi, guest_vmcs_block_nmi,
                     l2_blocks, delayed>>
  BY DEF forward, settingvars
<1>4. block12 \in BOOLEAN /\ block01 \in BOOLEAN /\ window01 \in BOOLEAN
  BY <1>1 DEF NmiTypes
<1>5. crowded' \in BOOLEAN /\ (crowded' <=> crowded /\ exit # "nmi")
  BY Zenon DEF forward
<1> HIDE DEF block12, block01, window01
<1>6. /\ vmcs12' \in [block : BOOLEAN, exit : {"none", "nmi", "window", "other"},
                      injects : BOOLEAN]
      /\ vmcs12'.exit = exit
      /\ vmcs12'.block = block12
  BY <1>2, <1>4
<1>7. /\ vmcs01' \in Vmcs
      /\ vmcs01'.entry = vmcs01.entry
      /\ vmcs01'.window = window01
      /\ vmcs01'.block = block01
  BY <1>2, <1>4 DEF NmiTypes, Vmcs
<1> QED
  BY <1>3, <1>4, <1>5, <1>6, <1>7 DEF block12, block01, window01

-----------------------------------------------------------------------------
(* The actions, where they do not halt *)

Keeps == NmiTypes /\ State01 /\ State02 /\ Injection /\ Blocking

\* An NMI comes for L1.
LEMMA Nmi1Keeps ==
  ASSUME NestedInductive, Nmi1, halt' = halt
  PROVE  Keeps'
<1> USE DEF NestedInductive, NmiTypes
<1> DEFINE limit == IF vmcs01.block \/ vmcs01.entry # "none" THEN 1 ELSE 2
<1>1. /\ Level1
      /\ where' = IF where = "run1" THEN "post1" ELSE where
      /\ guest_nmi_pending <= limit
      /\ guest_nmi_pending' = Kept(limit)
      /\ vmcs01' = [vmcs01 EXCEPT !.window = guest_nmi_pending' > 0]
      /\ UNCHANGED <<vmcs02, vmcs12, idt, guest_nmi_exiting, guest_virtual_nmis,
                     guest_nmi_window_exiting, guest_block_nmi,
                     guest_vmcs_block_nmi_overridden, guest_vmcs_block_nmi, l2_blocks,
                     delayed, crowded>>
  BY DEF Nmi1, At, Halt, Level1, infovars, settingvars, overridevars, historyvars
<1>2. guest_nmi_pending' \in 1 .. limit
  BY <1>1 DEF Kept
<1>3. /\ vmcs01' \in Vmcs /\ vmcs01'.window
      /\ vmcs01'.block = vmcs01.block /\ vmcs01'.entry = vmcs01.entry
  <2>1. vmcs01' = [vmcs01 EXCEPT !.window = TRUE]
    <3>1. (guest_nmi_pending' > 0) = TRUE
      BY <1>2
    <3> QED
      BY <1>1, <3>1, Zenon
  <2> QED
    BY <2>1 DEF Vmcs
<1>4. NmiTypes'
  BY <1>1, <1>2, <1>3 DEF Level1
<1>5. State01'
  BY <1>1, <1>2, <1>3 DEF State01, Level1
<1>6. State02' /\ Injection' /\ Blocking'
  BY <1>1 DEF State02, Injection, Blocking, Level1, Level2, L2Block
<1> QED
  BY <1>4, <1>5, <1>6 DEF Keeps

\* L1 runs, exits and is entered.
LEMMA L1Keeps ==
  ASSUME NestedInductive, Exit1 \/ Window1 \/ Resume1 \/ Enter1 \/ Iret1, halt' = halt
  PROVE  Keeps'
<1> USE DEF NestedInductive, NmiTypes
<1>1. Level1 /\ where' \in {"run1", "exit1", "window1", "post1"}
  BY DEF Exit1, Window1, Resume1, Enter1, Iret1, At, Halt, Level1
<1>2. UNCHANGED <<vmcs02, vmcs12, idt, guest_nmi_exiting, guest_virtual_nmis,
                  guest_nmi_window_exiting, guest_block_nmi,
                  guest_vmcs_block_nmi_overridden, guest_vmcs_block_nmi, l2_blocks, delayed>>
  BY DEF Exit1, Window1, Resume1, Enter1, Iret1, At, Halt, infovars, settingvars,
         overridevars, historyvars
<1>3. State02' /\ Injection' /\ Blocking'
  BY <1>1, <1>2 DEF State02, Injection, Blocking, Level1, Level2, L2Block
<1>4. CASE Exit1 \/ Resume1 \/ Iret1
  <2>1. UNCHANGED <<guest_nmi_pending, crowded>>
    BY <1>4 DEF Exit1, Resume1, Iret1, historyvars
  <2>2. /\ vmcs01' \in Vmcs
        /\ vmcs01'.window = vmcs01.window /\ vmcs01'.entry = vmcs01.entry
        /\ vmcs01'.block => vmcs01.block
        /\ vmcs01.entry = "none"
        /\ where' = "window1" => vmcs01.window /\ ~vmcs01'.block
    BY <1>4 DEF Exit1, Resume1, Iret1, At, WindowOpen, Vmcs, State01
  <2>3. State01'
    BY <1>1, <1>2, <2>1, <2>2 DEF State01, Level1
  <2> QED
    BY <1>1, <1>2, <1>3, <2>1, <2>2, <2>3 DEF Keeps
<1>5. CASE Window1
  <2>1. /\ where = "window1" /\ where' = "post1"
        /\ guest_nmi_pending > 0 /\ guest_nmi_pending' = guest_nmi_pending - 1
        /\ vmcs01' = [vmcs01 EXCEPT !.entry = "l0", !.window = guest_nmi_pending' > 0]
        /\ crowded' = FALSE
    BY <1>5 DEF Window1, At, Halt
  <2>2. /\ vmcs01' \in Vmcs /\ vmcs01'.entry = "l0" /\ vmcs01'.block = vmcs01.block
        /\ vmcs01'.window <=> guest_nmi_pending' > 0
    <3> DEFINE window == guest_nmi_pending' > 0
    <3>1. window \in BOOLEAN
      OBVIOUS
    <3>2. vmcs01' = [vmcs01 EXCEPT !.entry = "l0", !.window = window]
      BY <2>1
    <3> HIDE DEF window
    <3>3. /\ vmcs01' \in Vmcs /\ vmcs01'.entry = "l0" /\ vmcs01'.block = vmcs01.block
          /\ vmcs01'.window = window
      BY <3>1, <3>2 DEF Vmcs
    <3> QED
      BY <3>3 DEF window
  <2>3. State01'
    BY <1>2, <2>1, <2>2 DEF State01, Level1
  <2>4. guest_nmi_pending' \in 0 .. 2 /\ crowded' \in BOOLEAN
    <3>1. guest_nmi_pending > 0 /\ guest_nmi_pending' = guest_nmi_pending - 1
      BY <2>1
    <3>2. crowded' \in BOOLEAN
      BY <2>1, Zenon
    <3> QED
      BY <3>1, <3>2
  <2>5. NmiTypes'
    BY <1>1, <1>2, <2>2, <2>4
  <2> QED
    BY <1>3, <2>3, <2>5 DEF Keeps
<1>6. CASE Enter1
  <2>1. /\ where' = "run1" /\ UNCHANGED <<guest_nmi_pending, crowded>>
        /\ vmcs01' = [vmcs01 EXCEPT !.block = @ \/ vmcs01.entry # "none", !.entry = "none"]
    BY <1>6 DEF Enter1, At, Halt, historyvars
  <2>2. /\ vmcs01' \in Vmcs /\ vmcs01'.entry = "none" /\ vmcs01'.window = vmcs01.window
        /\ vmcs01'.block <=> vmcs01.block \/ vmcs01.entry # "none"
    BY <2>1 DEF Vmcs
  <2>3. State01'
    BY <1>1, <1>2, <2>1, <2>2 DEF State01, Level1
  <2> QED
    BY <1>1, <1>2, <1>3, <2>1, <2>2, <2>3, SMTT(30) DEF Keeps
<1> QED
  BY <1>4, <1>5, <1>6

\* L1 enters L2.
LEMMA VmentryKeeps ==
  ASSUME NestedInductive, halt' = halt,
         NEW exiting \in BOOLEAN, NEW virtual \in BOOLEAN, NEW window \in BOOLEAN,
         NEW block \in BOOLEAN, NEW injects \in BOOLEAN,
         Vmentry(exiting, virtual, window, block, injects)
  PROVE  Keeps'
<1> USE DEF NestedInductive, NmiTypes
<1> DEFINE entry == IF injects THEN "l1" ELSE "none"
           v == [block |-> block, window |-> window, entry |-> entry]
           override == exiting /\ guest_nmi_pending' > 0 /\ ~guest_block_nmi'
<1>1. /\ where = "exit1" /\ where' = "post2"
      /\ ValidControls(exiting, virtual, window)
      /\ injects => exiting
      /\ ~guest_vmcs_block_nmi_overridden
      /\ vmcs12' = [block |-> block, exit |-> "none", injects |-> injects]
      /\ guest_nmi_exiting' = exiting
      /\ guest_virtual_nmis' = virtual
      /\ guest_nmi_window_exiting' = window
      /\ guest_block_nmi' = IF exiting THEN ~virtual /\ block ELSE guest_block_nmi
      /\ guest_nmi_pending' = guest_nmi_pending
      /\ update_nested_nmi(v, exiting, window, guest_block_nmi')
      /\ l2_blocks' = block
      /\ crowded' = (guest_nmi_pending = 2 /\ block /\ ~virtual)
      /\ UNCHANGED <<vmcs01, idt>>
  BY DEF Vmentry, Unsupported, At, Halt
<1>2. delayed' \in BOOLEAN /\ (delayed' <=> injects /\ override)
  <2>1. delayed' = (injects /\ Overrides(exiting, guest_block_nmi'))
    BY <1>1, Zenon DEF Vmentry, Unsupported, Halt
  <2> QED
    BY <2>1 DEF Overrides
<1>3. crowded' \in BOOLEAN /\ (crowded' <=> guest_nmi_pending = 2 /\ block /\ ~virtual)
  BY <1>1
<1>4. guest_block_nmi' \in BOOLEAN /\ (exiting => (guest_block_nmi' <=> ~virtual /\ block))
  BY <1>1
<1>5. v \in Vmcs /\ v.block = block /\ v.entry = entry
  BY DEF Vmcs
<1> HIDE DEF v
<1>6. /\ vmcs02' \in Vmcs
      /\ vmcs02'.entry = entry
      /\ vmcs02'.window <=> IF exiting THEN override \/ window ELSE guest_nmi_pending' > 0
      /\ vmcs02'.block <=> IF override THEN FALSE ELSE block
      /\ guest_vmcs_block_nmi_overridden' \in BOOLEAN
      /\ guest_vmcs_block_nmi_overridden' <=> override
      /\ guest_vmcs_block_nmi' \in BOOLEAN
      /\ override => (guest_vmcs_block_nmi' <=> block)
  <2>1. NmiTypes /\ update_nested_nmi(v, exiting, window, guest_block_nmi')
    BY <1>1
  <2> HIDE DEF NestedInductive, NmiTypes
  <2>2. /\ vmcs02' \in Vmcs
        /\ vmcs02'.entry = v.entry
        /\ vmcs02'.window <=> IF exiting THEN override \/ window ELSE guest_nmi_pending' > 0
        /\ vmcs02'.block <=> IF override THEN FALSE
                             ELSE IF guest_vmcs_block_nmi_overridden
                               THEN guest_vmcs_block_nmi ELSE v.block
        /\ guest_vmcs_block_nmi_overridden' \in BOOLEAN
        /\ guest_vmcs_block_nmi_overridden' <=> override
        /\ guest_vmcs_block_nmi' \in BOOLEAN
        /\ guest_vmcs_block_nmi' <=> IF override /\ ~guest_vmcs_block_nmi_overridden
                                       THEN v.block ELSE guest_vmcs_block_nmi
    BY <1>4, <1>5, <2>1, UpdateEffect, Zenon
  <2>3. ~guest_vmcs_block_nmi_overridden
    BY <1>1
  <2> HIDE DEF override
  <2> QED
    BY <1>5, <2>2, <2>3
<1>7. /\ vmcs12' \in [block : BOOLEAN, exit : {"none", "nmi", "window", "other"},
                      injects : BOOLEAN]
      /\ vmcs12'.block = block /\ vmcs12'.exit = "none" /\ vmcs12'.injects = injects
  BY <1>1
<1>8. NmiTypes'
  BY <1>1, <1>2, <1>3, <1>4, <1>6, <1>7
<1>9. State01'
  BY <1>1 DEF State01, Level1
<1>10. State02'
  BY <1>1, <1>3, <1>4, <1>6 DEF State02, Level2, ValidControls
<1>11. Injection'
  BY <1>1, <1>6, <1>7 DEF Injection
<1>12. Blocking'
  <2>1. L2Block' <=> block
    BY <1>6 DEF L2Block
  <2> QED
    BY <1>1, <1>2, <1>6, <1>7, <2>1 DEF Blocking, Level1, Level2
<1> QED
  BY <1>8, <1>9, <1>10, <1>11, <1>12 DEF Keeps

LEMMA VmentryFailKeeps ==
  ASSUME NestedInductive, NEW exiting \in BOOLEAN, NEW virtual \in BOOLEAN,
         NEW window \in BOOLEAN, VmentryFail(exiting, virtual, window)
  PROVE  Keeps'
<1> USE DEF NestedInductive, NmiTypes
<1>1. /\ where = "exit1" /\ where' = "post1"
      /\ vmcs12' = [vmcs12 EXCEPT !.exit = "none"]
      /\ guest_nmi_exiting' = exiting
      /\ guest_virtual_nmis' = virtual
      /\ guest_nmi_window_exiting' = window
      /\ guest_block_nmi' \in BOOLEAN
      /\ UNCHANGED <<halt, vmcs01, vmcs02, idt, guest_vmcs_block_nmi_overridden,
                     guest_vmcs_block_nmi, guest_nmi_pending, l2_blocks, delayed, crowded>>
  BY DEF VmentryFail, At, overridevars, historyvars
<1>2. /\ vmcs12' \in [block : BOOLEAN, exit : {"none", "nmi", "window", "other"},
                      injects : BOOLEAN]
      /\ vmcs12'.exit = "none"
  BY <1>1
<1>3. NmiTypes'
  BY <1>1, <1>2
<1>4. State01' /\ State02' /\ Injection' /\ Blocking'
  BY <1>1, <1>2 DEF State01, State02, Injection, Blocking, Level1, Level2
<1> QED
  BY <1>3, <1>4 DEF Keeps

\* An NMI comes for L1 or L2 while L2 runs.
LEMMA Nmi2Keeps ==
  ASSUME NestedInductive, Nmi2, halt' = halt
  PROVE  Keeps'
<1> USE DEF NestedInductive, NmiTypes
<1> DEFINE override == guest_nmi_exiting /\ guest_nmi_pending' > 0 /\ ~guest_block_nmi
<1>1. /\ Level2
      /\ where' = IF where = "run2" THEN "post2" ELSE where
      /\ guest_nmi_pending <= nmi_pending_limit
      /\ guest_nmi_pending' = Kept(nmi_pending_limit)
      /\ update_nested_nmi(vmcs02, guest_nmi_exiting, guest_nmi_window_exiting,
                           guest_block_nmi)
      /\ UNCHANGED <<vmcs01, vmcs12, idt, guest_nmi_exiting, guest_virtual_nmis,
                     guest_nmi_window_exiting, guest_block_nmi, l2_blocks, crowded>>
  <2>1. Level2
    BY DEF Nmi2, At, Level2
  <2>2. ~(guest_nmi_pending > nmi_pending_limit)
    BY DEF Nmi2, At, Halt
  <2>3. guest_nmi_pending <= nmi_pending_limit
    BY <2>2 DEF nmi_pending_limit
  <2>4. /\ where' = IF where = "run2" THEN "post2" ELSE where
        /\ guest_nmi_pending' = Kept(nmi_pending_limit)
        /\ update_nested_nmi(vmcs02, guest_nmi_exiting, guest_nmi_window_exiting,
                             guest_block_nmi)
        /\ UNCHANGED <<vmcs01, vmcs12, idt, settingvars, guest_block_nmi, l2_blocks, crowded>>
    BY <2>2 DEF Nmi2
  <2> QED
    BY <2>1, <2>3, <2>4 DEF settingvars
<1>2. nmi_pending_limit \in {1, 2}
  BY DEF nmi_pending_limit
<1>3. guest_nmi_pending' \in 1 .. nmi_pending_limit
  BY <1>1, <1>2 DEF Kept
<1>4. override <=> guest_nmi_exiting /\ ~guest_block_nmi
  BY <1>2, <1>3
<1>5. delayed' \in BOOLEAN /\ (delayed' <=> delayed \/ (override /\ vmcs02.entry # "none"))
  <2>1. delayed' = (delayed \/ (/\ Overrides(guest_nmi_exiting, guest_block_nmi)
                                /\ vmcs02.entry # "none"))
    BY <1>1, Zenon DEF Nmi2, Halt, At
  <2> QED
    BY <2>1 DEF Overrides
<1>6. /\ vmcs02' \in Vmcs
      /\ vmcs02'.entry = vmcs02.entry
      /\ vmcs02'.window <=> IF guest_nmi_exiting THEN override \/ guest_nmi_window_exiting
                                                 ELSE guest_nmi_pending' > 0
      /\ vmcs02'.block <=> IF override THEN FALSE
                           ELSE IF guest_vmcs_block_nmi_overridden
                             THEN guest_vmcs_block_nmi ELSE vmcs02.block
      /\ guest_vmcs_block_nmi_overridden' \in BOOLEAN
      /\ guest_vmcs_block_nmi_overridden' <=> override
      /\ guest_vmcs_block_nmi' \in BOOLEAN
      /\ guest_vmcs_block_nmi' <=> IF override /\ ~guest_vmcs_block_nmi_overridden
                                     THEN vmcs02.block ELSE guest_vmcs_block_nmi
  BY <1>1, UpdateEffect
<1>7. guest_vmcs_block_nmi_overridden => override
  BY <1>1, <1>4 DEF State02
<1>8. L2Block' <=> L2Block
  BY <1>6, <1>7 DEF L2Block
<1>9. NmiTypes'
  BY <1>1, <1>2, <1>3, <1>5, <1>6
<1>10. State01'
  BY <1>1 DEF State01, Level1, Level2
<1>11. State02'
  <2>1. guest_nmi_exiting /\ guest_block_nmi => guest_nmi_pending' <= 1
    BY <1>2, <1>3 DEF nmi_pending_limit
  <2>2. ~guest_nmi_exiting /\ (vmcs02'.block \/ vmcs02'.entry # "none")
          => guest_nmi_pending' <= 1
    BY <1>2, <1>3, <1>6 DEF nmi_pending_limit
  <2>3. guest_nmi_pending' > 0
    BY <1>2, <1>3
  <2> HIDE DEF override
  <2> QED
    BY <1>1, <1>4, <1>6, <2>1, <2>2, <2>3 DEF State02, Level2
<1>12. Injection'
  BY <1>1, <1>6, <1>7 DEF Injection, Level2
<1>13. Blocking'
  <2> HIDE DEF override
  <2> QED
    BY <1>1, <1>5, <1>6, <1>7, <1>8 DEF Blocking, Level1, Level2
<1> QED
  BY <1>9, <1>10, <1>11, <1>12, <1>13 DEF Keeps

\* L2 is entered, runs, and exits; an exit that L1 does not see.
LEMMA L2Keeps ==
  ASSUME NestedInductive, Enter2 \/ Iret2 \/ Exit2 \/ EptMiss \/ Resume202, halt' = halt
  PROVE  Keeps'
<1> USE DEF NestedInductive, NmiTypes
<1>1. Level2 /\ where' \in {"run2", "exit2", "window2", "post2"}
  BY DEF Enter2, Iret2, Exit2, EptMiss, Resume202, At, Halt, Level2
<1>2. UNCHANGED <<vmcs01, vmcs12, guest_nmi_exiting, guest_virtual_nmis,
                  guest_nmi_window_exiting, guest_block_nmi,
                  guest_vmcs_block_nmi_overridden, guest_vmcs_block_nmi,
                  guest_nmi_pending, delayed, crowded>>
  BY DEF Enter2, Iret2, Exit2, EptMiss, Resume202, At, Halt, infovars, settingvars,
         overridevars, historyvars
<1>3. State01'
  BY <1>1, <1>2 DEF State01, Level1, Level2
<1>4. CASE Enter2
  <2>1. /\ where = "post2"
        /\ ~(vmcs02.entry # "none" /\ vmcs02.block)
        /\ vmcs02' = [vmcs02 EXCEPT !.block = @ \/ vmcs02.entry # "none", !.entry = "none"]
        /\ \/ where' = "run2" /\ UNCHANGED idt
           \/ where' = "exit2" /\ vmcs02.entry # "none" /\ idt' = vmcs02.entry
    BY <1>4 DEF Enter2, At, Halt
  <2>2. l2_blocks' \in BOOLEAN /\ (l2_blocks' <=> l2_blocks \/ vmcs02.entry # "none")
    BY <1>4 DEF Enter2, Halt, At
  <2>3. /\ vmcs02' \in Vmcs /\ vmcs02'.window = vmcs02.window /\ vmcs02'.entry = "none"
        /\ vmcs02'.block <=> vmcs02.block \/ vmcs02.entry # "none"
    BY <2>1 DEF Vmcs
  <2>4. idt' \in {"none", "l0", "l1"} /\ vmcs02.entry \in {"none", "l0", "l1"}
    BY <2>1 DEF Vmcs
  <2>5. NmiTypes'
    BY <1>1, <1>2, <2>2, <2>3, <2>4
  <2>6. State02'
    BY <1>1, <1>2, <2>1, <2>3 DEF State02, Level2
  <2>7. Injection'
    BY <1>2, <2>1, <2>3 DEF Injection
  <2>8. Blocking'
    BY <1>1, <1>2, <2>1, <2>2, <2>3 DEF Blocking, L2Block, Level1, Level2
  <2> QED
    BY <1>3, <2>5, <2>6, <2>7, <2>8 DEF Keeps
<1>5. CASE Iret2
  <2>1. /\ where = "run2" /\ where' = "run2" /\ vmcs02.block
        /\ vmcs02' = [vmcs02 EXCEPT !.block = FALSE]
        /\ l2_blocks' = FALSE /\ UNCHANGED idt
    BY <1>5 DEF Iret2, At
  <2>2. /\ vmcs02' \in Vmcs /\ vmcs02'.window = vmcs02.window
        /\ vmcs02'.entry = vmcs02.entry /\ ~vmcs02'.block
    BY <2>1 DEF Vmcs
  <2>3. NmiTypes'
    <3>1. l2_blocks' \in BOOLEAN
      BY <2>1, Zenon
    <3>2. UNCHANGED idt
      BY <2>1
    <3> QED
      BY <1>1, <1>2, <2>2, <3>1, <3>2
  <2>4. State02' /\ Injection'
    BY <1>1, <1>2, <2>1, <2>2 DEF State02, Injection, Level2
  <2>5. Blocking'
    BY <1>1, <1>2, <2>1, <2>2 DEF Blocking, Injection, L2Block, Level1, Level2
  <2> QED
    BY <1>3, <2>3, <2>4, <2>5 DEF Keeps
<1>6. CASE Exit2 \/ Resume202
  <2>1. /\ UNCHANGED <<vmcs02, l2_blocks>>
        /\ where = "run2" \/ where = "exit2"
        /\ where' = "window2" => vmcs02.window
        /\ idt' = "none" \/ (where = "run2" /\ UNCHANGED idt)
    BY <1>6 DEF Exit2, Resume202, At, WindowOpen, historyvars
  <2>2. idt' = "none"
    BY <2>1 DEF Injection
  <2>3. NmiTypes'
    BY <1>1, <1>2, <2>1, <2>2
  <2>4. State02' /\ Injection'
    BY <1>1, <1>2, <2>1, <2>2 DEF State02, Injection, Level2
  <2>5. Blocking'
    BY <1>1, <1>2, <2>1 DEF Blocking, L2Block, Level1, Level2
  <2> QED
    BY <1>3, <2>3, <2>4, <2>5 DEF Keeps
<1>7. CASE EptMiss
  <2> DEFINE takes_back == idt # "none" /\ guest_virtual_nmis
  <2>1. /\ where = "exit2" /\ where' = "post2" /\ idt' = "none"
        /\ takes_back => vmcs02.block
        /\ vmcs02' = [vmcs02 EXCEPT !.entry = idt, !.block = @ /\ ~takes_back]
    BY <1>7 DEF EptMiss, At, Halt
  <2>2. l2_blocks' \in BOOLEAN /\ (l2_blocks' <=> l2_blocks /\ idt = "none")
    BY <1>7 DEF EptMiss, Halt, At
  <2>3. /\ vmcs02' \in Vmcs /\ vmcs02'.window = vmcs02.window /\ vmcs02'.entry = idt
        /\ vmcs02'.block <=> vmcs02.block /\ ~takes_back
    <3>1. (vmcs02.block /\ ~takes_back) \in BOOLEAN
      OBVIOUS
    <3> QED
      BY <2>1, <3>1 DEF Vmcs
  <2>4. NmiTypes'
    BY <1>1, <1>2, <2>1, <2>2, <2>3
  <2>5. State02'
    BY <1>1, <1>2, <2>1, <2>3 DEF State02, Injection, Level2
  <2>6. Injection'
    BY <1>1, <1>2, <2>1, <2>3 DEF Injection
  <2>7. Blocking'
    BY <1>1, <1>2, <2>1, <2>2, <2>3 DEF Blocking, Injection, State02, L2Block, Level1, Level2
  <2> QED
    BY <1>3, <2>4, <2>5, <2>6, <2>7 DEF Keeps
<1> QED
  BY <1>4, <1>5, <1>6, <1>7

\* L1 is told of an exit of L2.
LEMMA ForwardKeeps ==
  ASSUME NestedInductive, NEW exit \in {"nmi", "window", "other"}, forward(exit),
         where \in {"exit2", "window2"}, exit = "nmi" => guest_nmi_pending > 0
  PROVE  Keeps'
<1> USE DEF NestedInductive, NmiTypes
<1> DEFINE block01 == IF guest_nmi_exiting THEN guest_block_nmi ELSE L2Block
<1>1. /\ vmcs12' \in [block : BOOLEAN, exit : {"none", "nmi", "window", "other"},
                      injects : BOOLEAN]
      /\ vmcs12'.block <=> IF guest_nmi_exiting /\ ~guest_virtual_nmis
                             THEN guest_block_nmi ELSE L2Block
      /\ guest_nmi_pending' = IF exit = "nmi" THEN guest_nmi_pending - 1
                                              ELSE guest_nmi_pending
      /\ vmcs01' \in Vmcs
      /\ vmcs01'.entry = vmcs01.entry
      /\ vmcs01'.window <=> guest_nmi_pending' > 0
      /\ vmcs01'.block <=> exit = "nmi" \/ block01
      /\ guest_vmcs_block_nmi_overridden' = FALSE
      /\ crowded' \in BOOLEAN
      /\ crowded' <=> crowded /\ exit # "nmi"
      /\ where' = "post1" /\ idt' = "none"
      /\ UNCHANGED <<halt, vmcs02, guest_nmi_exiting, guest_virtual_nmis,
                     guest_nmi_window_exiting, guest_block_nmi, guest_vmcs_block_nmi,
                     l2_blocks, delayed>>
  BY ForwardEffect
<1>2. guest_nmi_pending' \in 0 .. 2 /\ (exit = "nmi" => guest_nmi_pending' <= 1)
  BY <1>1
<1>3. vmcs01.entry = "none" /\ vmcs02.entry = "none" /\ Level2
  BY DEF State01, Injection, Level2
<1>4. NmiTypes'
  BY <1>1, <1>2
<1>5. State01'
  <2>1. block01 /\ ~crowded => guest_nmi_pending <= 1
    BY <1>3 DEF State02, L2Block
  <2> HIDE DEF block01
  <2> QED
    BY <1>1, <1>2, <1>3, <2>1 DEF State01, Level1
<1>6. State02' /\ Injection'
  BY <1>1 DEF State02, Injection, Level2
<1>7. Blocking'
  <2>1. (guest_virtual_nmis \/ ~guest_nmi_exiting) /\ ~delayed => (L2Block <=> l2_blocks)
    BY <1>3 DEF Blocking
  <2> QED
    BY <1>1, <2>1 DEF Blocking, Level1, Level2
<1> QED
  BY <1>4, <1>5, <1>6, <1>7 DEF Keeps

\* What becomes of an open window of L2: L1 gets a window exit or an NMI exit,
\* or L2 an NMI.
LEMMA Window2Keeps ==
  ASSUME NestedInductive, Window2, halt' = halt
  PROVE  Keeps'
<1> USE DEF NestedInductive, NmiTypes
<1>1. where = "window2" /\ Level2
  BY DEF Window2, At, Level2
<1>2. CASE guest_nmi_exiting /\ guest_nmi_window_exiting
  <2>1. forward("window")
    BY <1>2 DEF Window2
  <2> QED
    BY <1>1, <2>1, ForwardKeeps
<1>3. CASE guest_nmi_exiting /\ ~guest_nmi_window_exiting
  <2>1. forward("nmi") /\ guest_nmi_pending > 0
    BY <1>3 DEF Window2, At, Halt
  <2> QED
    BY <1>1, <2>1, ForwardKeeps
<1>4. CASE ~guest_nmi_exiting
  <2> DEFINE v == [vmcs02 EXCEPT !.entry = "l0"]
  <2>1. /\ where' = "post2"
        /\ guest_nmi_pending > 0 /\ guest_nmi_pending' = guest_nmi_pending - 1
        /\ update_nested_nmi(v, guest_nmi_exiting, guest_nmi_window_exiting, guest_block_nmi)
        /\ crowded' = FALSE
        /\ UNCHANGED <<vmcs01, vmcs12, idt, guest_nmi_exiting, guest_virtual_nmis,
                       guest_nmi_window_exiting, guest_block_nmi, l2_blocks, delayed>>
    BY <1>4 DEF Window2, At, Halt, settingvars
  <2>2. v \in Vmcs /\ v.entry = "l0" /\ v.block = vmcs02.block
    BY DEF Vmcs
  <2>3. ~guest_vmcs_block_nmi_overridden
    BY <1>1, <1>4 DEF State02
  <2> HIDE DEF v
  <2>4. /\ vmcs02' \in Vmcs /\ vmcs02'.entry = "l0"
        /\ vmcs02'.window <=> guest_nmi_pending' > 0
        /\ vmcs02'.block <=> vmcs02.block
        /\ guest_vmcs_block_nmi_overridden' \in BOOLEAN
        /\ ~guest_vmcs_block_nmi_overridden'
        /\ guest_vmcs_block_nmi' \in BOOLEAN
    BY <1>4, <2>1, <2>2, <2>3, UpdateEffect
  <2>5. guest_nmi_pending' \in 0 .. 1 /\ crowded' \in BOOLEAN /\ idt = "none"
    <3>1. crowded' \in BOOLEAN
      BY <2>1, Zenon
    <3>2. guest_nmi_pending' \in 0 .. 1
      BY <2>1
    <3> QED
      BY <1>1, <3>1, <3>2 DEF Injection
  <2>6. NmiTypes'
    BY <2>1, <2>4, <2>5
  <2>7. State01' /\ Injection'
    BY <1>1, <1>4, <2>1, <2>4, <2>5 DEF State01, State02, Injection, Level1, Level2
  <2>8. State02'
    BY <1>1, <1>4, <2>1, <2>4, <2>5 DEF State02, Level2
  <2>9. Blocking'
    BY <1>1, <2>1, <2>4 DEF Blocking, Level1, Level2
  <2> QED
    BY <2>6, <2>7, <2>8, <2>9 DEF Keeps
<1> QED
  BY <1>2, <1>3, <1>4

-----------------------------------------------------------------------------
(* Every step *)

LEMMA StepKept == NestedInductive /\ [Next]_vars => Keeps'
<1> SUFFICES ASSUME NestedInductive, [Next]_vars PROVE Keeps'
  OBVIOUS
<1>1. CASE UNCHANGED statevars /\ halt' \in {"no", "limit", "window", "entry1", "unsupported",
                                             "override", "entry2", "reinject"}
  <2>1. NmiTypes'
    BY <1>1 DEF NestedInductive, NmiTypes, statevars
  <2>2. State01' /\ State02'
    BY <1>1 DEF NestedInductive, State01, State02, Level1, Level2, statevars
  <2>3. Injection' /\ Blocking'
    BY <1>1 DEF NestedInductive, Injection, Blocking, Level1, Level2, L2Block, statevars
  <2> QED
    BY <2>1, <2>2, <2>3 DEF Keeps
<1>2. CASE \E why \in {"limit", "window", "entry1", "unsupported", "override", "entry2",
                       "reinject"} : Halt(why)
  <2>1. PICK why \in {"limit", "window", "entry1", "unsupported", "override", "entry2",
                      "reinject"} : Halt(why)
    BY <1>2
  <2>2. UNCHANGED statevars
    BY <2>1, HaltKeeps
  <2>3. halt' = why
    BY <2>1 DEF Halt
  <2> QED
    BY <1>1, <2>2, <2>3
<1>3. CASE UNCHANGED vars
  <2>1. UNCHANGED statevars /\ UNCHANGED halt
    BY <1>3 DEF vars, statevars, infovars, settingvars, overridevars, historyvars
  <2> QED
    BY <1>1, <2>1 DEF NestedInductive, NmiTypes
<1>4. CASE Nmi1
  BY <1>2, <1>4, Nmi1Keeps DEF Nmi1
<1>5. CASE Exit1 \/ Window1 \/ Resume1 \/ Enter1 \/ Iret1
  BY <1>2, <1>5, L1Keeps DEF Exit1, Window1, Resume1, Enter1, Iret1
<1>6. CASE \E exiting, virtual, window \in BOOLEAN :
             \/ VmentryFail(exiting, virtual, window)
             \/ \E block, injects \in BOOLEAN :
                  Vmentry(exiting, virtual, window, block, injects)
  <2>1. PICK exiting \in BOOLEAN, virtual \in BOOLEAN, window \in BOOLEAN :
               \/ VmentryFail(exiting, virtual, window)
               \/ \E block, injects \in BOOLEAN :
                    Vmentry(exiting, virtual, window, block, injects)
    BY <1>6
  <2>2. CASE VmentryFail(exiting, virtual, window)
    BY <2>2, VmentryFailKeeps
  <2>3. CASE \E block, injects \in BOOLEAN : Vmentry(exiting, virtual, window, block, injects)
    <3>1. PICK block \in BOOLEAN, injects \in BOOLEAN :
                 Vmentry(exiting, virtual, window, block, injects)
      BY <2>3
    <3>2. CASE halt' = halt
      BY <3>1, <3>2, VmentryKeeps
    <3>3. CASE halt' # halt
      BY <1>2, <3>1, <3>3 DEF Vmentry
    <3> QED
      BY <3>2, <3>3
  <2> QED
    BY <2>1, <2>2, <2>3
<1>7. CASE Nmi2
  BY <1>2, <1>7, Nmi2Keeps DEF Nmi2
<1>8. CASE Enter2 \/ Iret2 \/ Exit2 \/ EptMiss \/ Resume202
  BY <1>2, <1>8, L2Keeps DEF Enter2, Iret2, Exit2, EptMiss, Resume202
<1>9. CASE Exit201
  <2>1. forward("other") /\ where \in {"exit2", "window2"}
    BY <1>9 DEF Exit201, At
  <2> QED
    BY <2>1, ForwardKeeps
<1>10. CASE Window2
  <2>1. CASE halt' = halt
    BY <1>10, <2>1, Window2Keeps
  <2>2. CASE halt' # halt
    <3>1. ~forward("window") /\ ~forward("nmi")
      BY <2>2 DEF forward
    <3> QED
      BY <1>2, <1>10, <2>2, <3>1 DEF Window2
  <2> QED
    BY <2>1, <2>2
<1> QED
  BY <1>3, <1>4, <1>5, <1>6, <1>7, <1>8, <1>9, <1>10 DEF Next

\* Whichever assertion or VM entry fails, it is a case of KnownHalts.
LEMMA StepHalts == NestedInductive /\ [Next]_vars => KnownHalts'
<1> SUFFICES ASSUME NestedInductive, [Next]_vars PROVE KnownHalts'
  OBVIOUS
<1> USE DEF NestedInductive, NmiTypes
<1>1. CASE halt' = "no"
  BY <1>1 DEF KnownHalts
<1>2. CASE halt' # "no" /\ UNCHANGED vars
  BY <1>2 DEF KnownHalts, vars, infovars, settingvars, overridevars, historyvars
<1>3. ASSUME halt' # "no", Next
      PROVE  /\ halt' \in {"limit", "reinject", "entry2", "unsupported"}
             /\ halt' = "limit" => crowded
             /\ halt' = "reinject" => guest_vmcs_block_nmi_overridden
             /\ halt' = "entry2" => ~guest_virtual_nmis \/ (vmcs12.injects /\ vmcs12.block)
             /\ UNCHANGED statevars
  <2>1. CASE Nmi1
    <3>1. /\ Halt("limit") /\ Level1
          /\ guest_nmi_pending > IF vmcs01.block \/ vmcs01.entry # "none" THEN 1 ELSE 2
      BY <1>3, <2>1 DEF Nmi1, At, Level1
    <3>2. crowded
      BY <3>1 DEF State01
    <3> QED
      BY <3>1, <3>2, HaltKeeps DEF Halt
  <2>2. CASE Nmi2
    <3>1. Halt("limit") /\ Level2 /\ guest_nmi_pending > nmi_pending_limit
      BY <1>3, <2>2 DEF Nmi2, At, Level2
    <3>2. crowded
      <4>1. CASE guest_nmi_exiting
        BY <3>1, <4>1 DEF State02, nmi_pending_limit
      <4>2. CASE ~guest_nmi_exiting
        BY <3>1, <4>2 DEF State02, nmi_pending_limit
      <4> QED
        BY <4>1, <4>2
    <3> QED
      BY <3>1, <3>2, HaltKeeps DEF Halt
  <2>3. CASE Window1
    <3>1. guest_nmi_pending > 0
      BY <2>3 DEF Window1, At, State01, Level1
    <3> QED
      BY <1>3, <2>3, <3>1 DEF Window1, At
  <2>4. CASE Enter1
    <3>1. ~(vmcs01.entry # "none" /\ vmcs01.block)
      BY <2>4 DEF Enter1, At, State01, Level1
    <3> QED
      BY <1>3, <2>4, <3>1 DEF Enter1, At
  <2>5. CASE Exit1 \/ Resume1 \/ Iret1 \/ Iret2 \/ Exit2 \/ Resume202 \/ Exit201
    BY <1>3, <2>5 DEF Exit1, Resume1, Iret1, Iret2, Exit2, Resume202, Exit201, forward, At
  <2>6. CASE \E exiting, virtual, window \in BOOLEAN :
               \/ VmentryFail(exiting, virtual, window)
               \/ \E block, injects \in BOOLEAN :
                    Vmentry(exiting, virtual, window, block, injects)
    <3>1. PICK exiting \in BOOLEAN, virtual \in BOOLEAN, window \in BOOLEAN :
                 \/ VmentryFail(exiting, virtual, window)
                 \/ \E block, injects \in BOOLEAN :
                      Vmentry(exiting, virtual, window, block, injects)
      BY <2>6
    <3>2. ~VmentryFail(exiting, virtual, window)
      BY <1>3 DEF VmentryFail, At
    <3>3. PICK block \in BOOLEAN, injects \in BOOLEAN :
                 Vmentry(exiting, virtual, window, block, injects)
      BY <3>1, <3>2
    <3>4. ~guest_vmcs_block_nmi_overridden
      BY <3>3 DEF Vmentry, At, State01, Level1
    <3>5. Halt("unsupported")
      BY <1>3, <3>3, <3>4 DEF Vmentry, At
    <3> QED
      BY <3>5, HaltKeeps DEF Halt
  <2>7. CASE Enter2
    <3>1. /\ where = "post2" /\ vmcs02.entry # "none" /\ vmcs02.block
          /\ Halt("entry2")
      BY <1>3, <2>7 DEF Enter2, At
    <3>2. ~guest_virtual_nmis \/ (vmcs12.injects /\ vmcs12.block)
      BY <3>1 DEF Injection
    <3> QED
      BY <3>1, <3>2, HaltKeeps DEF Halt
  <2>8. CASE EptMiss
    <3>1. /\ idt # "none" /\ ~vmcs02.block
          /\ Halt("reinject")
      BY <1>3, <2>8 DEF EptMiss, At
    <3>2. guest_vmcs_block_nmi_overridden
      BY <3>1 DEF Injection
    <3> QED
      BY <3>1, <3>2, HaltKeeps DEF Halt
  <2>9. CASE Window2
    <3>1. where = "window2" /\ halt = "no"
      BY <2>9 DEF Window2, At
    <3>2. ~(guest_nmi_exiting /\ guest_nmi_window_exiting)
            => guest_nmi_pending > 0 /\ (guest_nmi_exiting => ~guest_block_nmi)
      BY <3>1 DEF State02, Level2
    <3>3. ~forward("window") /\ ~forward("nmi")
      BY <1>3, <3>1 DEF forward
    <3> QED
      BY <1>3, <2>9, <3>1, <3>2, <3>3 DEF Window2
  <2> QED
    BY <1>3, <2>1, <2>2, <2>3, <2>4, <2>5, <2>6, <2>7, <2>8, <2>9 DEF Next
<1>4. CASE halt' # "no" /\ Next
  BY <1>3, <1>4 DEF KnownHalts, statevars
<1> QED
  BY <1>1, <1>2, <1>4

LEMMA InitNested == Init => NestedInductive
<1> SUFFICES ASSUME Init PROVE NestedInductive
  OBVIOUS
<1>1. vmcs01 \in Vmcs /\ vmcs02 \in Vmcs
  BY DEF Init, Vmcs
<1>2. /\ where = "run1" /\ halt = "no" /\ idt = "none" /\ guest_nmi_pending = 0
      /\ vmcs01 = [block |-> FALSE, entry |-> "none", window |-> FALSE]
      /\ vmcs12 = [block |-> FALSE, exit |-> "none", injects |-> FALSE]
      /\ ~guest_vmcs_block_nmi_overridden
  BY DEF Init
<1>3. /\ {guest_nmi_exiting, guest_virtual_nmis, guest_nmi_window_exiting} \subseteq BOOLEAN
      /\ {guest_block_nmi, l2_blocks, delayed, crowded} \subseteq BOOLEAN
      /\ {guest_vmcs_block_nmi_overridden, guest_vmcs_block_nmi} \subseteq BOOLEAN
  BY Zenon DEF Init
<1>4. NmiTypes
  BY <1>1, <1>2, <1>3 DEF NmiTypes
<1> QED
  BY <1>2, <1>4 DEF NestedInductive, State01, State02, Injection, Blocking, KnownHalts,
     Level1, Level2

LEMMA StepNested == NestedInductive /\ [Next]_vars => NestedInductive'
BY StepKept, StepHalts DEF NestedInductive, Keeps

-----------------------------------------------------------------------------
(* The results *)

\* VMCS01, VMCS02, the saved blocking and the NMIs that are kept fit together in
\* every state, whatever L1 asks for at each entry and wherever NMIs arrive.
THEOREM NestedNmiInvariant == Spec => []NestedInductive
BY InitNested, StepNested, PTL DEF Spec

\* Types, with at most two NMIs kept for L1 and L2 together.
THEOREM NestedNmiTypeCorrect == Spec => []TypeOK
<1>1. NestedInductive => TypeOK
  BY TypeParts DEF NestedInductive
<1> QED
  BY <1>1, NestedNmiInvariant, PTL

\* The assertions and VM entries that fail as NMIs pass between the levels, each
\* with what must have come before it: the limit of inject_nmi and handle_nmi,
\* the blocking that handle_vmexit20_ept_violation takes back, the entry of L2
\* and the injections that vmcs12_to_vmcs02 does not support.
THEOREM KnownHaltsOnly == Spec => []KnownHalts
<1>1. NestedInductive => KnownHalts
  BY DEF NestedInductive
<1> QED
  BY <1>1, NestedNmiInvariant, PTL

\* The NMI windows of L1 and L2 are armed exactly when they have to be.
THEOREM NestedArming == Spec => []WindowsArmed
<1>1. NestedInductive => WindowsArmed
  <2> SUFFICES ASSUME NestedInductive PROVE WindowsArmed
    OBVIOUS
  <2>1. vmcs01.window \in BOOLEAN /\ vmcs02.window \in BOOLEAN
    BY DEF NestedInductive, NmiTypes, Vmcs
  <2>2. where = "run1" => vmcs01.window = (guest_nmi_pending > 0)
    BY <2>1 DEF NestedInductive, State01, Level1
  <2> DEFINE asked == \/ guest_nmi_pending > 0 /\ (guest_nmi_exiting => ~guest_block_nmi)
                      \/ guest_nmi_exiting /\ guest_nmi_window_exiting
  <2>3. where = "run2" => (vmcs02.window <=> asked)
    BY DEF NestedInductive, State02, Level2
  <2>4. asked \in BOOLEAN
    OBVIOUS
  <2> HIDE DEF asked
  <2>5. where = "run2" => vmcs02.window = asked
    BY <2>1, <2>3, <2>4
  <2> QED
    BY <2>2, <2>5 DEF WindowsArmed, asked
<1> QED
  BY <1>1, NestedNmiInvariant, PTL

\* L1 finds the blocking of L2 as L2 has left it, unless an override came as an NMI was
\* to be injected (the case XMHF warns of).
THEOREM BlockingOfL2 == Spec => []L2BlockingKept
<1>1. NestedInductive => L2BlockingKept
  <2> SUFFICES ASSUME NestedInductive PROVE L2BlockingKept
    OBVIOUS
  <2>1. vmcs12.block \in BOOLEAN /\ l2_blocks \in BOOLEAN
    BY DEF NestedInductive, NmiTypes
  <2> QED
    BY <2>1 DEF NestedInductive, NmiTypes, Blocking, Level1, Level2,
       L2BlockingKept
<1> QED
  BY <1>1, NestedNmiInvariant, PTL
=============================================================================
