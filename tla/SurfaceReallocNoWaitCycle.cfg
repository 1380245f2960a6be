SPECIFICATION ReallocSpec
CONSTANTS
  t1 = t1 t2 = t2 t3 = t3 d1 = d1 d2 = d2 s1 = s1 s2 = s2
  Thread = {t1, t2}
  Display = {d1}
  Surface = {s1}
  None = None
  Calls = {"initialize", "create", "swap", "destroy"}
  InitRefCounted = {}
  MaxInit = 1
INVARIANT ReallocNoWaitCycle
