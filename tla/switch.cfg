CONSTANTS
  Threads = {t1, t2}
  t1 = t1
  Main = Main
  Sites = {a, b}
  Values = {v, w}
  Events = {e1, e2}
  StackSize = 12
  MaxFrames <- OneNests
  ImplWords = 1
  Routines <- All
  Null = Null
SYMMETRY Symmetry
SPECIFICATION SwitchSpec
CHECK_DEADLOCK FALSE
INVARIANTS
  SwitchTypeOK
  SavedIntact
PROPERTIES
  ResumesWhereItLeft
  EachIsTold
