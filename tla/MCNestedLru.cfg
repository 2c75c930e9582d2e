SPECIFICATION Spec
CONSTANTS
  NLines = 2
  NSlots = 1
  Vmcs12 = {v1}
  Ept12 = {e1, e2}
  NoVmcs = NoVmcs
  NoEpt = NoEpt
INVARIANT
  InveptHonoured
