SPECIFICATION Spec
CONSTANTS
  t1 = t1  t2 = t2  s1 = s1  s2 = s2
  NodeLoop = NodeLoop  WorkloadLoop = WorkloadLoop  Main = Main
  Loop = {NodeLoop, WorkloadLoop}
  Tunnel = {t1, t2}
  Caller = {t1, t2, Main}
  Slot = {s1, s2}
  NoCaller = NoCaller  NoSlot = NoSlot
CHECK_DEADLOCK FALSE
INVARIANTS ConnectedMeansRunning
