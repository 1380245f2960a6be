SPECIFICATION Spec
CONSTANTS
  t1 = t1 t2 = t2 t3 = t3 d1 = d1 d2 = d2 s1 = s1 s2 = s2
  Thread = {t1, t2, t3}
  Display = {d1}
  Surface = {s1, s2}
  None = None
  Calls = {"initialize", "create", "swap", "destroy", "terminate", "unload"}
  InitRefCounted = {d1}
  MaxInit = 2
SYMMETRY LifecycleSymmetry
INVARIANTS TypeOK SurfaceHeldAlive SurfaceCounts DisplayCounts DriverContextLive 
  TerminatedEmpty NothingLeaked NoWaitCycle
