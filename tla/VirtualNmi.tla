----------------------------- MODULE VirtualNmi -----------------------------
(***************************************************************************)
(* What a guest may expect of its NMIs, as on a bare processor: an NMI is  *)
(* taken only when NMIs are not blocked, taking one blocks them until      *)
(* IRET, and of the NMIs that arrive meanwhile at least one is kept.       *)
(***************************************************************************)
EXTENDS Naturals

VARIABLES waiting,   \* NMIs kept for the guest
          blocked    \* the guest is in its NMI handler

vars == <<waiting, blocked>>

Init == waiting = 0 /\ ~blocked

\* An NMI arrives; it may be merged with one that is already waiting.
Arrive ==
  /\ waiting' \in {waiting, waiting + 1} \cap 1 .. 2
  /\ UNCHANGED blocked

Take ==
  /\ waiting > 0
  /\ ~blocked
  /\ waiting' = waiting - 1
  /\ blocked' = TRUE

Iret ==
  /\ blocked
  /\ blocked' = FALSE
  /\ UNCHANGED waiting

Next == Arrive \/ Take \/ Iret

Spec == Init /\ [][Next]_vars
=============================================================================
