CONSTANTS
  Threads = {t1}
  t1 = t1
  Main = Main
  Sites = {a, b}
  Values = {v, w}
  Events = {e1}
  StackSize = 12
  MaxFrames <- OneNests
  ImplWords = 1
  Routines = {"yield", "yield_events", "finish"}
  Null = Null
CHECK_DEADLOCK FALSE
SPECIFICATION SwitchSpec
PROPERTIES
  YieldEventsReturns
