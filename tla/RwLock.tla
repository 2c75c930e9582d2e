------------------------------- MODULE RwLock -------------------------------
(***************************************************************************)
(* What the EPT lock promises, with no word on how: at any time either     *)
(* some CPUs are walking the EPT in software, or one CPU holds the lock as *)
(* a writer, or nobody does.  EptLock is shown to implement this module.   *)
(***************************************************************************)

CONSTANT CPU

VARIABLES readers, writers

vars == <<readers, writers>>

Init == readers = {} /\ writers = {}

AcquireRead(c) ==
  /\ writers = {}
  /\ readers' = readers \cup {c}
  /\ UNCHANGED writers

ReleaseRead(c) ==
  /\ c \in readers
  /\ readers' = readers \ {c}
  /\ UNCHANGED writers

AcquireWrite(c) ==
  /\ readers = {}
  /\ writers = {}
  /\ writers' = {c}
  /\ UNCHANGED readers

ReleaseWrite(c) ==
  /\ writers = {c}
  /\ writers' = {}
  /\ UNCHANGED readers

Next == \E c \in CPU : \/ AcquireRead(c)
                       \/ ReleaseRead(c)
                       \/ AcquireWrite(c)
                       \/ ReleaseWrite(c)

Spec == Init /\ [][Next]_vars
=============================================================================
