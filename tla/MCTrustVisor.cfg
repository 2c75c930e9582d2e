CONSTANTS
  CPU = {c1, c2}
  Process = {g1}
  Page = {p1, p2, p3}
  Types = {"CODE", "SHARED_CODE", "DATA"}
  NSlots = 2
  TV_MAX_SECTIONS = 2
  MaxRegister = 2
  NoCpu = NoCpu
  NoProcess = NoProcess
  NoPage = NoPage
SPECIFICATION Spec
SYMMETRY Symmetry
VIEW View
INVARIANTS TypeOK PrivateKept WorldMatches
CHECK_DEADLOCK FALSE
