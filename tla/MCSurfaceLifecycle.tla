------------------------- MODULE MCSurfaceLifecycle -------------------------
(* Model values for TLC: threads, displays and surface addresses are          *)
(* interchangeable.                                                          *)
EXTENDS SurfaceRealloc, TLC

CONSTANTS t1, t2, t3, d1, d2, s1, s2

LifecycleSymmetry == Permutations(Thread) \union Permutations(Surface)
=============================================================================
