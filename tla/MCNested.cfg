SPECIFICATION Spec
CONSTANTS
  NLines = 2
  NSlots = 2
  Vmcs12 = {v1, v2}
  Ept12 = {e1, e2}
  NoVmcs = NoVmcs
  NoEpt = NoEpt
SYMMETRY Symmetry
INVARIANTS
  TypeOK
  Ept01ChangeReachesL2
  OnlyRefusalsHalt
  RunsOnItsEpt
  ActiveOnce
