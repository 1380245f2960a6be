---------------------- MODULE SurfaceLifecycle_proofs ----------------------
(***************************************************************************)
(* Proofs about SurfaceLifecycle, for any finite number of threads and any   *)
(* sets of displays and surfaces.  Each part of IInv has a lemma with one    *)
(* case for each action; the two parts that count references first show     *)
(* which actions leave the counted sets alone.                               *)
(***************************************************************************)
EXTENDS SurfaceLifecycle, FiniteSetTheorems, TLAPS

USE NoneAssumption, CallsAssumption, InitAssumption
USE DEF CallsAssumption, Goto, callVars, lockVars, dpyVars, surfVars,
        EntryPoints, Swapping, Destroying, Unloading, InDisplay, Places

-----------------------------------------------------------------------------
(* The counted sets.                                                         *)

\* The threads with a reference are a finite set.
LEMMA FiniteHolders ==
  /\ \A s \in Surface : /\ IsFiniteSet(HoldersOf(s))
                         /\ Cardinality(HoldersOf(s)) \in Nat
  /\ \A d \in Display : /\ IsFiniteSet(CallersOf(d))
                         /\ Cardinality(CallersOf(d)) \in Nat
  BY FiniteAssumption, FS_Subset, FS_CardinalityType
     DEF FiniteAssumption, HoldersOf, CallersOf

\* A display in the list, or used by a call, has a reference to give back.
LEMMA DisplayReferenced ==
  ASSUME IInv, NEW d \in Display, CallersOf(d) # {} \/ d \in dpyListed
  PROVE  dpyRefs[d] \in Nat \ {0}
  <1>1. CallersOf(d) # {} => Cardinality(CallersOf(d)) # 0
    BY FiniteHolders, FS_EmptySet
  <1> QED
    BY <1>1, FiniteHolders DEF IInv, DisplayCounts

\* A surface has at most one destroyer: it holds the display's lock.
LEMMA OneDestroyer ==
  ASSUME IInv, NEW t \in Thread, NEW u \in Thread,
         pc[t] \in Destroying, pc[u] \in Destroying, surf[t] = surf[u]
  PROVE  t = u
  BY DEF IInv, TypeOK, Control, LockOwners, SurfaceStates

\* The last reference on a surface is that of the only thread that uses it.
LEMMA LastReference ==
  ASSUME IInv, NEW t \in Thread, pc[t] \in Swapping \union Destroying,
         surfRefs[surf[t]] = 1
  PROVE  /\ surf[t] \notin surfListed \union abandoned
         /\ \A u \in Thread \ {t} :
               pc[u] \in Swapping \union Destroying => surf[u] # surf[t]
  <1> DEFINE s == surf[t]
  <1>1. /\ pc[t] \in Places \ {"idle"} /\ s \in Surface
        /\ s \notin abandoned
    BY DEF IInv, Control, SurfaceStates
  <1>2. IsFiniteSet(HoldersOf(s)) /\ Cardinality(HoldersOf(s)) \in Nat
    BY <1>1, FiniteHolders
  <1>3. pc[t] \in Destroying => \A u \in Thread \ {t} :
                                  pc[u] \in Destroying => surf[u] # s
    BY OneDestroyer
  <1>4. CASE pc[t] \in Swapping
    <2>1. t \in HoldersOf(s)
      BY <1>4 DEF HoldersOf
    <2>2. /\ IsFiniteSet(HoldersOf(s) \ {t})
          /\ Cardinality(HoldersOf(s) \ {t}) = Cardinality(HoldersOf(s)) - 1
      BY <1>2, <2>1, FS_RemoveElement
    <2>3. /\ Cardinality(HoldersOf(s) \ {t}) \in Nat
          /\ Cardinality(HoldersOf(s) \ {t}) = 0 => HoldersOf(s) \ {t} = {}
      BY <2>2, FS_CardinalityType, FS_EmptySet
    <2>4. /\ Cardinality(HoldersOf(s)) = 1
          /\ s \notin surfListed
          /\ \A u \in Thread : pc[u] \in Destroying => surf[u] # s
      BY <1>1, <1>2, <2>2, <2>3 DEF IInv, SurfaceCounts
    <2> QED
      BY <1>1, <2>2, <2>3, <2>4 DEF HoldersOf
  <1>5. CASE pc[t] \in Destroying
    <2>1. Cardinality(HoldersOf(s)) = 0
      BY <1>1, <1>2, <1>5 DEF IInv, SurfaceCounts
    <2>2. HoldersOf(s) = {}
      BY <1>2, <2>1, FS_EmptySet
    <2>3. s \notin surfListed
      BY <1>1, <1>5 DEF IInv, SurfaceStates
    <2> QED
      BY <1>1, <1>3, <1>5, <2>2, <2>3 DEF HoldersOf
  <1> QED
    BY <1>4, <1>5

-----------------------------------------------------------------------------
(* One lemma for each part of the invariant.                                 *)

\* A counter that is decremented is positive.
LEMMA TypeStep ==
  ASSUME IInv, NEW t \in Thread, Call(t) \/ Locks(t) \/ Runs(t), UNCHANGED crashed
  PROVE  TypeOK'
  <1> USE DEF IInv, TypeOK, Control
  <1>1. CASE Call(t)
    BY <1>1 DEF Call
  <1>2. CASE AcquireDisplay(t)
    BY <1>2 DEF AcquireDisplay
  <1>3. CASE EnterDisplay(t)
    BY <1>3 DEF EnterDisplay, LockDisplay
  <1>4. CASE ReleaseDisplay(t)
    <2>1. dpy[t] \in Display /\ t \in CallersOf(dpy[t])
      BY <1>4
         DEF ReleaseDisplay, CallersOf, LockOwners, DisplayStates,
             UnloadRunning
    <2>2. dpyRefs[dpy[t]] \in Nat \ {0}
      BY <2>1, DisplayReferenced
    <2> QED
      BY <1>4, <2>1, <2>2 DEF ReleaseDisplay, UnrefDisplay
  <1>5. CASE DestroyLock(t)
    BY <1>5 DEF DestroyLock, LockSurface
  <1>6. CASE SwapLock(t)
    BY <1>6 DEF SwapLock, LockSurface
  <1>7. CASE SwapRelock(t)
    BY <1>7 DEF SwapRelock, LockDisplay
  <1>8. CASE UnloadLock(t)
    BY <1>8 DEF UnloadLock
  <1>9. CASE UnloadDisplay(t)
    BY <1>9 DEF UnloadDisplay, LockDisplay, InternalTerminate, DriverRefuses
  <1>10. CASE LeaveDisplay(t)
    BY <1>10 DEF LeaveDisplay, UnlockDisplay
  <1>11. CASE Initialize(t)
    BY <1>11 DEF Initialize
  <1>12. CASE CreateSurface(t)
    BY <1>12 DEF CreateSurface
  <1>13. CASE Terminate(t)
    BY <1>13 DEF Terminate, InternalTerminate, DriverRefuses
  <1>14. CASE DestroySurface(t)
    BY <1>14 DEF DestroySurface, BeginDestroy, SurfacesOf
  <1>15. CASE DestroyRefused(t)
    BY <1>15 DEF DestroyRefused
  <1>16. CASE DestroyNext(t)
    BY <1>16 DEF DestroyNext, BeginDestroy, SurfacesOf
  <1>17. CASE DestroyedAll(t)
    BY <1>17 DEF DestroyedAll
  <1>18. CASE DestroyContext(t)
    BY <1>18 DEF DestroyContext, UnlockSurface
  <1>19. CASE DestroyUnref(t)
    <2>1. surf[t] \in Surface /\ surfRefs[surf[t]] \in Nat \ {0}
      BY <1>19 DEF DestroyUnref, SurfaceStates
    <2> QED
      BY <1>19, <2>1 DEF DestroyUnref, SurfaceUnref
  <1>20. CASE SwapRef(t)
    BY <1>20 DEF SwapRef, UnlockDisplay
  <1>21. CASE SwapRefused(t)
    BY <1>21 DEF SwapRefused
  <1>22. CASE SwapUpdateFails(t)
    BY <1>22 DEF SwapUpdateFails
  <1>23. CASE SwapCheck(t)
    BY <1>23 DEF SwapCheck
  <1>24. CASE SwapDriver(t)
    BY <1>24 DEF SwapDriver
  <1>25. CASE SwapUnlock(t)
    BY <1>25 DEF SwapUnlock, UnlockSurface
  <1>26. CASE SwapUnref(t)
    <2>1. surf[t] \in Surface /\ surfRefs[surf[t]] \in Nat \ {0}
      BY <1>26 DEF SwapUnref, SurfaceStates
    <2> QED
      BY <1>26, <2>1 DEF SwapUnref, SurfaceUnref
  <1>27. CASE UnloadNext(t)
    BY <1>27 DEF UnloadNext
  <1>28. CASE UnloadedAll(t)
    BY <1>28 DEF UnloadedAll
  <1>29. CASE UnloadDetach(t)
    <2>1. dpy[t] \in Display /\ dpy[t] \in dpyListed
      BY <1>29
         DEF UnloadDetach, CallersOf, LockOwners, DisplayStates, UnloadRunning
    <2>2. dpyRefs[dpy[t]] \in Nat \ {0}
      BY <2>1, DisplayReferenced
    <2> QED
      BY <1>29, <2>1, <2>2 DEF UnloadDetach, UnlockDisplay, UnrefDisplay
  <1> QED
    BY <1>1, <1>2, <1>3, <1>4, <1>5, <1>6, <1>7, <1>8, <1>9, <1>10, <1>11,
       <1>12, <1>13, <1>14, <1>15, <1>16, <1>17, <1>18, <1>19, <1>20, <1>21,
       <1>22, <1>23, <1>24, <1>25, <1>26, <1>27, <1>28, <1>29
       DEF Locks, Runs

\* A thread stays within the code of the entry point it has called.
LEMMA ControlStep ==
  ASSUME IInv, NEW t \in Thread, Call(t) \/ Locks(t) \/ Runs(t), UNCHANGED crashed
  PROVE  Control'
  <1> USE DEF IInv, TypeOK, Control
  <1>1. CASE Call(t)
    BY <1>1 DEF Call
  <1>2. CASE AcquireDisplay(t)
    BY <1>2 DEF AcquireDisplay
  <1>3. CASE EnterDisplay(t)
    BY <1>3 DEF EnterDisplay, LockDisplay
  <1>4. CASE ReleaseDisplay(t)
    BY <1>4 DEF ReleaseDisplay, UnrefDisplay
  <1>5. CASE DestroyLock(t)
    BY <1>5 DEF DestroyLock, LockSurface
  <1>6. CASE SwapLock(t)
    BY <1>6 DEF SwapLock, LockSurface
  <1>7. CASE SwapRelock(t)
    BY <1>7 DEF SwapRelock, LockDisplay
  <1>8. CASE UnloadLock(t)
    BY <1>8 DEF UnloadLock
  <1>9. CASE UnloadDisplay(t)
    BY <1>9 DEF UnloadDisplay, LockDisplay
  <1>10. CASE LeaveDisplay(t)
    BY <1>10 DEF LeaveDisplay, UnlockDisplay
  <1>11. CASE Initialize(t)
    BY <1>11 DEF Initialize
  <1>12. CASE CreateSurface(t)
    BY <1>12 DEF CreateSurface
  <1>13. CASE Terminate(t)
    BY <1>13 DEF Terminate
  <1>14. CASE DestroySurface(t)
    BY <1>14 DEF DestroySurface, BeginDestroy, SurfacesOf
  <1>15. CASE DestroyRefused(t)
    BY <1>15 DEF DestroyRefused
  <1>16. CASE DestroyNext(t)
    BY <1>16 DEF DestroyNext, BeginDestroy, SurfacesOf
  <1>17. CASE DestroyedAll(t)
    BY <1>17 DEF DestroyedAll
  <1>18. CASE DestroyContext(t)
    BY <1>18 DEF DestroyContext, UnlockSurface
  <1>19. CASE DestroyUnref(t)
    BY <1>19 DEF DestroyUnref, SurfaceUnref
  <1>20. CASE SwapRef(t)
    BY <1>20 DEF SwapRef, UnlockDisplay
  <1>21. CASE SwapRefused(t)
    BY <1>21 DEF SwapRefused
  <1>22. CASE SwapUpdateFails(t)
    BY <1>22 DEF SwapUpdateFails
  <1>23. CASE SwapCheck(t)
    BY <1>23 DEF SwapCheck
  <1>24. CASE SwapDriver(t)
    BY <1>24 DEF SwapDriver
  <1>25. CASE SwapUnlock(t)
    BY <1>25 DEF SwapUnlock, UnlockSurface
  <1>26. CASE SwapUnref(t)
    BY <1>26 DEF SwapUnref, SurfaceUnref
  <1>27. CASE UnloadNext(t)
    BY <1>27 DEF UnloadNext
  <1>28. CASE UnloadedAll(t)
    BY <1>28 DEF UnloadedAll
  <1>29. CASE UnloadDetach(t)
    BY <1>29 DEF UnloadDetach, UnlockDisplay, UnrefDisplay
  <1> QED
    BY <1>1, <1>2, <1>3, <1>4, <1>5, <1>6, <1>7, <1>8, <1>9, <1>10, <1>11,
       <1>12, <1>13, <1>14, <1>15, <1>16, <1>17, <1>18, <1>19, <1>20, <1>21,
       <1>22, <1>23, <1>24, <1>25, <1>26, <1>27, <1>28, <1>29
       DEF Locks, Runs

\* A lock is taken when it is free and dropped by its holder.
LEMMA LockStep ==
  ASSUME IInv, NEW t \in Thread, Call(t) \/ Locks(t) \/ Runs(t), UNCHANGED crashed
  PROVE  LockOwners'
  <1> USE DEF IInv, TypeOK, Control, LockOwners, UnloadRunning, InSurface
  <1>1. CASE Call(t)
    BY <1>1 DEF Call
  <1>2. CASE AcquireDisplay(t)
    BY <1>2 DEF AcquireDisplay
  <1>3. CASE EnterDisplay(t)
    <2>1. call[t] \in EntryPoints \ {"unload"} /\ dpy[t] \in Display
      BY <1>3 DEF EnterDisplay
    <2> QED
      BY <1>3, <2>1 DEF EnterDisplay, LockDisplay
  <1>4. CASE ReleaseDisplay(t)
    BY <1>4 DEF ReleaseDisplay, UnrefDisplay
  <1>5. CASE DestroyLock(t)
    BY <1>5 DEF DestroyLock, LockSurface
  <1>6. CASE SwapLock(t)
    BY <1>6 DEF SwapLock, LockSurface
  <1>7. CASE SwapRelock(t)
    BY <1>7 DEF SwapRelock, LockDisplay
  <1>8. CASE UnloadLock(t)
    BY <1>8 DEF UnloadLock
  <1>9. CASE UnloadDisplay(t)
    BY <1>9 DEF UnloadDisplay, LockDisplay
  <1>10. CASE LeaveDisplay(t)
    BY <1>10 DEF LeaveDisplay, UnlockDisplay
  <1>11. CASE Initialize(t)
    BY <1>11 DEF Initialize
  <1>12. CASE CreateSurface(t)
    BY <1>12 DEF CreateSurface
  <1>13. CASE Terminate(t)
    BY <1>13 DEF Terminate
  <1>14. CASE DestroySurface(t)
    BY <1>14 DEF DestroySurface, BeginDestroy, SurfacesOf
  <1>15. CASE DestroyRefused(t)
    BY <1>15 DEF DestroyRefused
  <1>16. CASE DestroyNext(t)
    BY <1>16 DEF DestroyNext, BeginDestroy, SurfacesOf
  <1>17. CASE DestroyedAll(t)
    BY <1>17 DEF DestroyedAll
  <1>18. CASE DestroyContext(t)
    BY <1>18 DEF DestroyContext, UnlockSurface
  <1>19. CASE DestroyUnref(t)
    BY <1>19 DEF DestroyUnref, SurfaceUnref
  <1>20. CASE SwapRef(t)
    BY <1>20 DEF SwapRef, UnlockDisplay
  <1>21. CASE SwapRefused(t)
    BY <1>21 DEF SwapRefused
  <1>22. CASE SwapUpdateFails(t)
    BY <1>22 DEF SwapUpdateFails
  <1>23. CASE SwapCheck(t)
    BY <1>23 DEF SwapCheck
  <1>24. CASE SwapDriver(t)
    BY <1>24 DEF SwapDriver
  <1>25. CASE SwapUnlock(t)
    BY <1>25 DEF SwapUnlock, UnlockSurface
  <1>26. CASE SwapUnref(t)
    BY <1>26 DEF SwapUnref, SurfaceUnref
  <1>27. CASE UnloadNext(t)
    BY <1>27 DEF UnloadNext
  <1>28. CASE UnloadedAll(t)
    BY <1>28 DEF UnloadedAll
  <1>29. CASE UnloadDetach(t)
    BY <1>29 DEF UnloadDetach, UnlockDisplay, UnrefDisplay
  <1> QED
    BY <1>1, <1>2, <1>3, <1>4, <1>5, <1>6, <1>7, <1>8, <1>9, <1>10, <1>11,
       <1>12, <1>13, <1>14, <1>15, <1>16, <1>17, <1>18, <1>19, <1>20, <1>21,
       <1>22, <1>23, <1>24, <1>25, <1>26, <1>27, <1>28, <1>29
       DEF Locks, Runs

\* A surface is freed with its last reference, which no other thread has.
LEMMA SurfaceStep ==
  ASSUME IInv, NEW t \in Thread, Call(t) \/ Locks(t) \/ Runs(t), UNCHANGED crashed
  PROVE  SurfaceStates'
  <1> USE DEF IInv, TypeOK, Control, LockOwners, SurfaceStates, SurfacesOf
  <1>1. CASE Call(t)
    BY <1>1 DEF Call
  <1>2. CASE AcquireDisplay(t)
    BY <1>2 DEF AcquireDisplay
  <1>3. CASE EnterDisplay(t)
    BY <1>3 DEF EnterDisplay, LockDisplay
  <1>4. CASE ReleaseDisplay(t)
    BY <1>4 DEF ReleaseDisplay, UnrefDisplay
  <1>5. CASE DestroyLock(t)
    BY <1>5 DEF DestroyLock, LockSurface
  <1>6. CASE SwapLock(t)
    BY <1>6 DEF SwapLock, LockSurface
  <1>7. CASE SwapRelock(t)
    BY <1>7 DEF SwapRelock, LockDisplay
  <1>8. CASE UnloadLock(t)
    BY <1>8 DEF UnloadLock
  <1>9. CASE UnloadDisplay(t)
    BY <1>9 DEF UnloadDisplay, LockDisplay
  <1>10. CASE LeaveDisplay(t)
    BY <1>10 DEF LeaveDisplay, UnlockDisplay
  <1>11. CASE Initialize(t)
    BY <1>11 DEF Initialize
  <1>12. CASE CreateSurface(t)
    BY <1>12, SMTT(30) DEF CreateSurface
  <1>13. CASE Terminate(t)
    BY <1>13 DEF Terminate
  <1>14. CASE DestroySurface(t)
    BY <1>14 DEF DestroySurface, BeginDestroy, SurfacesOf
  <1>15. CASE DestroyRefused(t)
    BY <1>15 DEF DestroyRefused
  <1>16. CASE DestroyNext(t)
    BY <1>16 DEF DestroyNext, BeginDestroy, SurfacesOf
  <1>17. CASE DestroyedAll(t)
    BY <1>17 DEF DestroyedAll
  <1>18. CASE DestroyContext(t)
    BY <1>18 DEF DestroyContext, UnlockSurface
  <1>19. CASE DestroyUnref(t)
    <2>1. surfRefs[surf[t]] = 1 => surf[t] \notin surfListed \union abandoned
            /\ \A u \in Thread \ {t} :
                  pc[u] \in Swapping \union Destroying => surf[u] # surf[t]
      BY <1>19, LastReference DEF DestroyUnref
    <2> QED
      BY <1>19, <2>1 DEF DestroyUnref, SurfaceUnref
  <1>20. CASE SwapRef(t)
    BY <1>20 DEF SwapRef, UnlockDisplay
  <1>21. CASE SwapRefused(t)
    BY <1>21 DEF SwapRefused
  <1>22. CASE SwapUpdateFails(t)
    BY <1>22 DEF SwapUpdateFails
  <1>23. CASE SwapCheck(t)
    BY <1>23 DEF SwapCheck
  <1>24. CASE SwapDriver(t)
    BY <1>24 DEF SwapDriver
  <1>25. CASE SwapUnlock(t)
    BY <1>25 DEF SwapUnlock, UnlockSurface
  <1>26. CASE SwapUnref(t)
    <2>1. surfRefs[surf[t]] = 1 => surf[t] \notin surfListed \union abandoned
            /\ \A u \in Thread \ {t} :
                  pc[u] \in Swapping \union Destroying => surf[u] # surf[t]
      BY <1>26, LastReference DEF SwapUnref
    <2> QED
      BY <1>26, <2>1 DEF SwapUnref, SurfaceUnref
  <1>27. CASE UnloadNext(t)
    BY <1>27 DEF UnloadNext
  <1>28. CASE UnloadedAll(t)
    BY <1>28 DEF UnloadedAll
  <1>29. CASE UnloadDetach(t)
    BY <1>29 DEF UnloadDetach, UnlockDisplay, UnrefDisplay
  <1> QED
    BY <1>1, <1>2, <1>3, <1>4, <1>5, <1>6, <1>7, <1>8, <1>9, <1>10, <1>11,
       <1>12, <1>13, <1>14, <1>15, <1>16, <1>17, <1>18, <1>19, <1>20, <1>21,
       <1>22, <1>23, <1>24, <1>25, <1>26, <1>27, <1>28, <1>29
       DEF Locks, Runs

\* The context of a swap is only destroyed under the surface's lock.
LEMMA ContextStep ==
  ASSUME IInv, NEW t \in Thread, Call(t) \/ Locks(t) \/ Runs(t), UNCHANGED crashed
  PROVE  Contexts'
  <1> USE DEF IInv, TypeOK, Control, LockOwners, SurfaceStates, Contexts,
             SurfacesOf, InSurface
  <1>1. CASE Call(t)
    BY <1>1 DEF Call
  <1>2. CASE AcquireDisplay(t)
    BY <1>2 DEF AcquireDisplay
  <1>3. CASE EnterDisplay(t)
    BY <1>3 DEF EnterDisplay, LockDisplay
  <1>4. CASE ReleaseDisplay(t)
    BY <1>4 DEF ReleaseDisplay, UnrefDisplay
  <1>5. CASE DestroyLock(t)
    BY <1>5 DEF DestroyLock, LockSurface
  <1>6. CASE SwapLock(t)
    BY <1>6 DEF SwapLock, LockSurface
  <1>7. CASE SwapRelock(t)
    BY <1>7 DEF SwapRelock, LockDisplay
  <1>8. CASE UnloadLock(t)
    BY <1>8 DEF UnloadLock
  <1>9. CASE UnloadDisplay(t)
    BY <1>9 DEF UnloadDisplay, LockDisplay
  <1>10. CASE LeaveDisplay(t)
    BY <1>10 DEF LeaveDisplay, UnlockDisplay
  <1>11. CASE Initialize(t)
    BY <1>11 DEF Initialize
  <1>12. CASE CreateSurface(t)
    <2>1. initCount[dpy[t]] > 0 => dpy[t] \in devDpy
      BY <1>12 DEF CreateSurface, DisplayStates
    <2>2. \A s \in Surface : parent[s] = None => s \notin context
      OBVIOUS
    <2> QED
      BY <1>12, <2>1, <2>2 DEF CreateSurface
  <1>13. CASE Terminate(t)
    BY <1>13 DEF Terminate
  <1>14. CASE DestroySurface(t)
    BY <1>14 DEF DestroySurface, BeginDestroy, SurfacesOf
  <1>15. CASE DestroyRefused(t)
    BY <1>15 DEF DestroyRefused
  <1>16. CASE DestroyNext(t)
    BY <1>16 DEF DestroyNext, BeginDestroy, SurfacesOf
  <1>17. CASE DestroyedAll(t)
    BY <1>17 DEF DestroyedAll
  <1>18. CASE DestroyContext(t)
    BY <1>18 DEF DestroyContext, UnlockSurface
  <1>19. CASE DestroyUnref(t)
    BY <1>19 DEF DestroyUnref, SurfaceUnref
  <1>20. CASE SwapRef(t)
    BY <1>20 DEF SwapRef, UnlockDisplay
  <1>21. CASE SwapRefused(t)
    BY <1>21 DEF SwapRefused
  <1>22. CASE SwapUpdateFails(t)
    BY <1>22 DEF SwapUpdateFails
  <1>23. CASE SwapCheck(t)
    BY <1>23 DEF SwapCheck
  <1>24. CASE SwapDriver(t)
    BY <1>24 DEF SwapDriver
  <1>25. CASE SwapUnlock(t)
    BY <1>25 DEF SwapUnlock, UnlockSurface
  <1>26. CASE SwapUnref(t)
    <2>1. surfRefs[surf[t]] = 1 => surf[t] \notin surfListed \union abandoned
            /\ \A u \in Thread \ {t} :
                  pc[u] \in Swapping \union Destroying => surf[u] # surf[t]
      BY <1>26, LastReference DEF SwapUnref
    <2> QED
      BY <1>26, <2>1 DEF SwapUnref, SurfaceUnref
  <1>27. CASE UnloadNext(t)
    BY <1>27 DEF UnloadNext
  <1>28. CASE UnloadedAll(t)
    BY <1>28 DEF UnloadedAll
  <1>29. CASE UnloadDetach(t)
    <2>1. SurfacesOf(dpy[t]) = {} /\ dpyLock[dpy[t]] = t
      BY <1>29 DEF UnloadDetach, DisplayStates
    <2>2. \A s \in context : parent[s] # dpy[t]
      BY <1>29, <2>1 DEF UnloadDetach
    <2> QED
      BY <1>29, <2>2 DEF UnloadDetach, UnlockDisplay, UnrefDisplay
  <1> QED
    BY <1>1, <1>2, <1>3, <1>4, <1>5, <1>6, <1>7, <1>8, <1>9, <1>10, <1>11,
       <1>12, <1>13, <1>14, <1>15, <1>16, <1>17, <1>18, <1>19, <1>20, <1>21,
       <1>22, <1>23, <1>24, <1>25, <1>26, <1>27, <1>28, <1>29
       DEF Locks, Runs

\* A display gets no surface once its initCount is zero.
LEMMA DisplayStep ==
  ASSUME IInv, NEW t \in Thread, Call(t) \/ Locks(t) \/ Runs(t), UNCHANGED crashed
  PROVE  DisplayStates'
  <1> USE DEF IInv, TypeOK, Control, LockOwners, SurfaceStates, DisplayStates,
             Terminating, UnloadRunning, SurfacesOf
  <1>1. CASE Call(t)
    BY <1>1 DEF Call
  <1>2. CASE AcquireDisplay(t)
    BY <1>2, SMTT(30) DEF AcquireDisplay
  <1>3. CASE EnterDisplay(t)
    BY <1>3 DEF EnterDisplay, LockDisplay
  <1>4. CASE ReleaseDisplay(t)
    BY <1>4 DEF ReleaseDisplay, UnrefDisplay
  <1>5. CASE DestroyLock(t)
    BY <1>5 DEF DestroyLock, LockSurface
  <1>6. CASE SwapLock(t)
    BY <1>6 DEF SwapLock, LockSurface
  <1>7. CASE SwapRelock(t)
    BY <1>7 DEF SwapRelock, LockDisplay
  <1>8. CASE UnloadLock(t)
    BY <1>8, SMTT(30) DEF UnloadLock
  <1>9. CASE UnloadDisplay(t)
    BY <1>9, SMTT(30) DEF UnloadDisplay, LockDisplay, InternalTerminate, DriverRefuses
  <1>10. CASE LeaveDisplay(t)
    BY <1>10, SMTT(30) DEF LeaveDisplay, UnlockDisplay
  <1>11. CASE Initialize(t)
    BY <1>11 DEF Initialize
  <1>12. CASE CreateSurface(t)
    BY <1>12 DEF CreateSurface
  <1>13. CASE Terminate(t)
    BY <1>13 DEF Terminate, InternalTerminate, DriverRefuses
  <1>14. CASE DestroySurface(t)
    BY <1>14 DEF DestroySurface, BeginDestroy, SurfacesOf
  <1>15. CASE DestroyRefused(t)
    BY <1>15 DEF DestroyRefused
  <1>16. CASE DestroyNext(t)
    BY <1>16 DEF DestroyNext, BeginDestroy, SurfacesOf
  <1>17. CASE DestroyedAll(t)
    BY <1>17 DEF DestroyedAll
  <1>18. CASE DestroyContext(t)
    BY <1>18 DEF DestroyContext, UnlockSurface
  <1>19. CASE DestroyUnref(t)
    BY <1>19 DEF DestroyUnref, SurfaceUnref
  <1>20. CASE SwapRef(t)
    BY <1>20 DEF SwapRef, UnlockDisplay
  <1>21. CASE SwapRefused(t)
    BY <1>21 DEF SwapRefused
  <1>22. CASE SwapUpdateFails(t)
    BY <1>22 DEF SwapUpdateFails
  <1>23. CASE SwapCheck(t)
    BY <1>23 DEF SwapCheck
  <1>24. CASE SwapDriver(t)
    BY <1>24 DEF SwapDriver
  <1>25. CASE SwapUnlock(t)
    BY <1>25 DEF SwapUnlock, UnlockSurface
  <1>26. CASE SwapUnref(t)
    BY <1>26, SMTT(30) DEF SwapUnref, SurfaceUnref
  <1>27. CASE UnloadNext(t)
    BY <1>27 DEF UnloadNext
  <1>28. CASE UnloadedAll(t)
    <2>1. \A u \in Thread : ~UnloadRunning(u)'
      BY <1>28 DEF UnloadedAll
    <2>2. \A u \in Thread : Terminating(u)' <=> Terminating(u)
      BY <1>28 DEF UnloadedAll
    <2>3. dpyListed' = devDpy' /\ dpyListed' = {}
      BY <1>28 DEF UnloadedAll
    <2>4. \A d \in Display : initCount[d] = 0
      BY <1>28 DEF UnloadedAll
    <2>5. \A d \in Display : \/ SurfacesOf(d)' = {}
                             \/ \E u \in Thread : dpy'[u] = d /\ Terminating(u)'
      BY <1>28, <2>2, <2>4 DEF UnloadedAll
    <2>6. \A u \in Thread : /\ pc'[u] # "unloadDetach"
                            /\ Terminating(u)' => initCount[dpy[u]] = 0
      BY <1>28, <2>2 DEF UnloadedAll
    <2> QED
      BY <1>28, <2>1, <2>3, <2>4, <2>5, <2>6 DEF UnloadedAll
  <1>29. CASE UnloadDetach(t)
    <2>1. /\ dpyListed' = dpyListed \ {dpy[t]} /\ devDpy' = devDpy \ {dpy[t]}
          /\ pc' = [pc EXCEPT ![t] = "unloadNext"]
          /\ UNCHANGED <<call, dpy, surf, initCount, driverRefs, parent, surfListed>>
          /\ initCount[dpy[t]] = 0 /\ UnloadRunning(t)
      BY <1>29 DEF UnloadDetach, UnlockDisplay, UnrefDisplay
    <2>2. \A u \in Thread \ {t} : ~UnloadRunning(u)
      BY <2>1
    <2>3. \A u \in Thread : Terminating(u)' <=> Terminating(u)
      BY <1>29, <2>1, SMTT(30) DEF UnloadDetach
    <2>4. \A e \in Display : SurfacesOf(e)' = SurfacesOf(e)
      BY <2>1
    <2>5. \A e \in Display :
             /\ e \notin devDpy' => initCount'[e] = 0
             /\ initCount'[e] = 0 => \/ SurfacesOf(e)' = {}
                                    \/ \E u \in Thread : dpy'[u] = e /\ Terminating(u)'
      BY <2>1, <2>3, <2>4, SMTT(30)
    <2>6. \A u \in Thread :
             /\ UnloadRunning(u)' => u = t /\ pc'[u] = "unloadNext"
             /\ Terminating(u)' => initCount'[dpy'[u]] = 0
             /\ pc'[u] # "unloadDetach"
      BY <2>1, <2>2, <2>3, SMTT(30)
    <2>7. /\ \A e \in Display : initCount'[e] > 0 => e \in driverRefs'
          /\ \A u \in Thread : pc'[u] \in Destroying /\ call'[u] = "destroy"
                                => initCount'[dpy'[u]] > 0
      BY <2>1
    <2> QED
      BY <2>1, <2>5, <2>6, <2>7, SMTT(30)
  <1> QED
    BY <1>1, <1>2, <1>3, <1>4, <1>5, <1>6, <1>7, <1>8, <1>9, <1>10, <1>11,
       <1>12, <1>13, <1>14, <1>15, <1>16, <1>17, <1>18, <1>19, <1>20, <1>21,
       <1>22, <1>23, <1>24, <1>25, <1>26, <1>27, <1>28, <1>29
       DEF Locks, Runs

-----------------------------------------------------------------------------
(* The reference counts.                                                     *)

\* The creation reference of a surface, until it is dropped.
CreationRef(s) ==
    IF s \in surfListed \union abandoned
          \/ \E t \in Thread : pc[t] \in Destroying /\ surf[t] = s
    THEN 1 ELSE 0

\* A step that leaves the count of every surface, and what it counts, alone.
SameSurfaceRefs ==
    /\ surfRefs' = surfRefs
    /\ \A s \in Surface : /\ HoldersOf(s)' = HoldersOf(s)
                          /\ CreationRef(s)' = CreationRef(s)

\* A step that leaves the count of every display, and what it counts, alone.
SameDisplayRefs ==
    /\ dpyRefs' = dpyRefs /\ dpyFreed' = dpyFreed /\ dpyListed' = dpyListed
    /\ \A d \in Display : CallersOf(d)' = CallersOf(d)

\* Only four actions change a surface's reference count.
LEMMA SurfaceRefsKept ==
  ASSUME IInv, NEW t \in Thread, Call(t) \/ Locks(t) \/ Runs(t)
  PROVE  \/ SameSurfaceRefs
         \/ CreateSurface(t) \/ SwapRef(t) \/ SwapUnref(t) \/ DestroyUnref(t)
  <1> USE DEF IInv, TypeOK, Control, SurfacesOf, HoldersOf, CreationRef,
             SameSurfaceRefs
  <1>1. CASE Call(t)
    BY <1>1 DEF Call
  <1>2. CASE AcquireDisplay(t)
    BY <1>2 DEF AcquireDisplay
  <1>3. CASE EnterDisplay(t)
    BY <1>3 DEF EnterDisplay, LockDisplay
  <1>4. CASE ReleaseDisplay(t)
    BY <1>4 DEF ReleaseDisplay, UnrefDisplay
  <1>5. CASE DestroyLock(t)
    BY <1>5 DEF DestroyLock, LockSurface
  <1>6. CASE SwapLock(t)
    BY <1>6 DEF SwapLock, LockSurface
  <1>7. CASE SwapRelock(t)
    BY <1>7 DEF SwapRelock, LockDisplay
  <1>8. CASE UnloadLock(t)
    BY <1>8 DEF UnloadLock
  <1>9. CASE UnloadDisplay(t)
    BY <1>9 DEF UnloadDisplay, LockDisplay
  <1>10. CASE LeaveDisplay(t)
    BY <1>10 DEF LeaveDisplay, UnlockDisplay
  <1>11. CASE Initialize(t)
    BY <1>11 DEF Initialize
  <1>12. CASE Terminate(t)
    BY <1>12 DEF Terminate
  <1>13. CASE DestroySurface(t)
    BY <1>13 DEF DestroySurface, BeginDestroy, SurfacesOf
  <1>14. CASE DestroyRefused(t)
    BY <1>14 DEF DestroyRefused
  <1>15. CASE DestroyNext(t)
    BY <1>15 DEF DestroyNext, BeginDestroy, SurfacesOf
  <1>16. CASE DestroyedAll(t)
    BY <1>16 DEF DestroyedAll
  <1>17. CASE DestroyContext(t)
    BY <1>17 DEF DestroyContext, UnlockSurface
  <1>18. CASE SwapRefused(t)
    BY <1>18 DEF SwapRefused
  <1>19. CASE SwapUpdateFails(t)
    BY <1>19 DEF SwapUpdateFails
  <1>20. CASE SwapCheck(t)
    BY <1>20 DEF SwapCheck
  <1>21. CASE SwapDriver(t)
    BY <1>21 DEF SwapDriver
  <1>22. CASE SwapUnlock(t)
    BY <1>22 DEF SwapUnlock, UnlockSurface
  <1>23. CASE UnloadNext(t)
    BY <1>23 DEF UnloadNext
  <1>24. CASE UnloadedAll(t)
    BY <1>24 DEF UnloadedAll
  <1>25. CASE UnloadDetach(t)
    BY <1>25 DEF UnloadDetach, UnlockDisplay, UnrefDisplay
  <1> QED
    BY <1>1, <1>2, <1>3, <1>4, <1>5, <1>6, <1>7, <1>8, <1>9, <1>10, <1>11,
       <1>12, <1>13, <1>14, <1>15, <1>16, <1>17, <1>18, <1>19, <1>20, <1>21,
       <1>22, <1>23, <1>24, <1>25
       DEF Locks, Runs

\* Only three actions change a display's reference count.
LEMMA DisplayRefsKept ==
  ASSUME IInv, NEW t \in Thread, Call(t) \/ Locks(t) \/ Runs(t)
  PROVE  \/ SameDisplayRefs
         \/ AcquireDisplay(t) \/ ReleaseDisplay(t) \/ UnloadDetach(t)
  <1> USE DEF IInv, TypeOK, Control, SurfacesOf, CallersOf, SameDisplayRefs
  <1>1. CASE Call(t)
    BY <1>1 DEF Call
  <1>2. CASE EnterDisplay(t)
    BY <1>2 DEF EnterDisplay, LockDisplay
  <1>3. CASE DestroyLock(t)
    BY <1>3 DEF DestroyLock, LockSurface
  <1>4. CASE SwapLock(t)
    BY <1>4 DEF SwapLock, LockSurface
  <1>5. CASE SwapRelock(t)
    BY <1>5 DEF SwapRelock, LockDisplay
  <1>6. CASE UnloadLock(t)
    BY <1>6 DEF UnloadLock
  <1>7. CASE UnloadDisplay(t)
    BY <1>7 DEF UnloadDisplay, LockDisplay
  <1>8. CASE LeaveDisplay(t)
    BY <1>8 DEF LeaveDisplay, UnlockDisplay
  <1>9. CASE Initialize(t)
    BY <1>9 DEF Initialize
  <1>10. CASE CreateSurface(t)
    BY <1>10 DEF CreateSurface
  <1>11. CASE Terminate(t)
    BY <1>11 DEF Terminate
  <1>12. CASE DestroySurface(t)
    BY <1>12 DEF DestroySurface, BeginDestroy, SurfacesOf
  <1>13. CASE DestroyRefused(t)
    BY <1>13 DEF DestroyRefused
  <1>14. CASE DestroyNext(t)
    BY <1>14 DEF DestroyNext, BeginDestroy, SurfacesOf
  <1>15. CASE DestroyedAll(t)
    BY <1>15 DEF DestroyedAll
  <1>16. CASE DestroyContext(t)
    BY <1>16 DEF DestroyContext, UnlockSurface
  <1>17. CASE DestroyUnref(t)
    BY <1>17 DEF DestroyUnref, SurfaceUnref
  <1>18. CASE SwapRef(t)
    BY <1>18 DEF SwapRef, UnlockDisplay
  <1>19. CASE SwapRefused(t)
    BY <1>19 DEF SwapRefused
  <1>20. CASE SwapUpdateFails(t)
    BY <1>20 DEF SwapUpdateFails
  <1>21. CASE SwapCheck(t)
    BY <1>21 DEF SwapCheck
  <1>22. CASE SwapDriver(t)
    BY <1>22 DEF SwapDriver
  <1>23. CASE SwapUnlock(t)
    BY <1>23 DEF SwapUnlock, UnlockSurface
  <1>24. CASE SwapUnref(t)
    BY <1>24 DEF SwapUnref, SurfaceUnref
  <1>25. CASE UnloadNext(t)
    BY <1>25 DEF UnloadNext
  <1>26. CASE UnloadedAll(t)
    BY <1>26 DEF UnloadedAll
  <1> QED
    BY <1>1, <1>2, <1>3, <1>4, <1>5, <1>6, <1>7, <1>8, <1>9, <1>10, <1>11,
       <1>12, <1>13, <1>14, <1>15, <1>16, <1>17, <1>18, <1>19, <1>20, <1>21,
       <1>22, <1>23, <1>24, <1>25, <1>26
       DEF Locks, Runs

\* surface->refCount goes up and down with the threads that hold a reference.
LEMMA SurfaceCountStep ==
  ASSUME IInv, NEW t \in Thread, Call(t) \/ Locks(t) \/ Runs(t)
  PROVE  SurfaceCounts'
  <1> DEFINE Count(u) == Cardinality(HoldersOf(u)) + CreationRef(u)
  <1>1. \A u \in Surface : surfRefs[u] = Count(u)
    BY DEF IInv, SurfaceCounts, CreationRef
  <1>2. SUFFICES \A u \in Surface : surfRefs'[u] = Count(u)'
    BY DEF SurfaceCounts, CreationRef
  <1>3. CASE SameSurfaceRefs
    BY <1>1, <1>3 DEF SameSurfaceRefs
  <1>4. CASE CreateSurface(t)
    <2>1. \A u \in Surface : HoldersOf(u)' = HoldersOf(u)
      BY <1>4 DEF CreateSurface, HoldersOf, IInv, TypeOK
    <2>2. CASE UNCHANGED <<surfRefs, surfListed, abandoned>>
      <3>1. \A u \in Surface : CreationRef(u)' = CreationRef(u)
        BY <1>4, <2>2 DEF CreateSurface, CreationRef, IInv, TypeOK
      <3> QED
        BY <1>1, <2>1, <2>2, <3>1
    <2>3. CASE ~UNCHANGED <<surfRefs, surfListed, abandoned>>
      <3>1. PICK s \in Surface :
               /\ parent[s] = None
               /\ surfRefs' = [surfRefs EXCEPT ![s] = 1]
               /\ surfListed' \union abandoned' =
                     surfListed \union abandoned \union {s}
        BY <1>4, <2>3 DEF CreateSurface
      <3>2. HoldersOf(s) = {}
        BY <3>1 DEF HoldersOf, IInv, Control, SurfaceStates
      <3>3. /\ CreationRef(s)' = 1
            /\ \A u \in Surface \ {s} : CreationRef(u)' = CreationRef(u)
        BY <1>4, <3>1 DEF CreateSurface, CreationRef, IInv, TypeOK
      <3>4. Count(s)' = 1
        BY <2>1, <3>2, <3>3, FS_EmptySet
      <3> QED
        BY <1>1, <2>1, <3>1, <3>3, <3>4 DEF IInv, TypeOK
    <2> QED
      BY <2>2, <2>3
  <1>5. CASE SwapRef(t)
    <2>1. PICK s \in Surface : s = surf[t] /\ t \notin HoldersOf(s)
      BY <1>5 DEF SwapRef, HoldersOf, IInv, Control
    <2>2. /\ HoldersOf(s)' = HoldersOf(s) \union {t}
          /\ \A u \in Surface \ {s} : HoldersOf(u)' = HoldersOf(u)
      BY <1>5, <2>1 DEF SwapRef, HoldersOf, IInv, TypeOK
    <2>3. \A u \in Surface : CreationRef(u)' = CreationRef(u)
      BY <1>5 DEF SwapRef, CreationRef, IInv, TypeOK
    <2>4. Cardinality(HoldersOf(s)') = Cardinality(HoldersOf(s)) + 1
      BY <2>1, <2>2, FiniteHolders, FS_AddElement, ZenonT(40)
    <2>5. surfRefs' = [surfRefs EXCEPT ![s] = @ + 1]
      BY <1>5, <2>1 DEF SwapRef
    <2>6. CreationRef(s) \in {0, 1}
      BY DEF CreationRef
    <2>7. surfRefs'[s] = Count(s)'
      BY <1>1, <2>1, <2>3, <2>4, <2>5, <2>6, FiniteHolders DEF IInv, TypeOK
    <2>8. \A u \in Surface \ {s} : surfRefs'[u] = surfRefs[u] /\ Count(u)' = Count(u)
      <3>1. \A u \in Surface \ {s} : surfRefs'[u] = surfRefs[u]
        BY <2>1, <2>5 DEF IInv, TypeOK
      <3> QED
        BY <2>2, <2>3, <3>1, Zenon
    <2> QED
      BY <1>1, <2>7, <2>8, Zenon
  <1>6. CASE SwapUnref(t)
    <2>1. PICK s \in Surface : s = surf[t] /\ t \in HoldersOf(s)
      BY <1>6 DEF SwapUnref, HoldersOf, IInv, Control
    <2>2. /\ HoldersOf(s)' = HoldersOf(s) \ {t}
          /\ \A u \in Surface \ {s} : HoldersOf(u)' = HoldersOf(u)
      BY <1>6, <2>1 DEF SwapUnref, HoldersOf, IInv, TypeOK
    <2>3. \A u \in Surface : CreationRef(u)' = CreationRef(u)
      BY <1>6 DEF SwapUnref, CreationRef, IInv, TypeOK
    <2>4. Cardinality(HoldersOf(s)') = Cardinality(HoldersOf(s)) - 1
      BY <2>1, <2>2, FiniteHolders, FS_RemoveElement, ZenonT(40)
    <2>5. surfRefs' = [surfRefs EXCEPT ![s] = @ - 1]
      BY <1>6, <2>1 DEF SwapUnref, SurfaceUnref
    <2>6. CreationRef(s) \in {0, 1}
      BY DEF CreationRef
    <2>7. surfRefs'[s] = Count(s)'
      BY <1>1, <2>1, <2>3, <2>4, <2>5, <2>6, FiniteHolders DEF IInv, TypeOK
    <2>8. \A u \in Surface \ {s} : surfRefs'[u] = surfRefs[u] /\ Count(u)' = Count(u)
      <3>1. \A u \in Surface \ {s} : surfRefs'[u] = surfRefs[u]
        BY <2>1, <2>5 DEF IInv, TypeOK
      <3> QED
        BY <2>2, <2>3, <3>1, Zenon
    <2> QED
      BY <1>1, <2>7, <2>8, Zenon
  <1>7. CASE DestroyUnref(t)
    <2>1. PICK s \in Surface :
             /\ s = surf[t]
             /\ s \notin surfListed \union abandoned
             /\ \A u \in Thread \ {t} : pc[u] \in Destroying => surf[u] # s
      BY <1>7, OneDestroyer DEF DestroyUnref, IInv, Control, SurfaceStates
    <2>2. \A u \in Surface : HoldersOf(u)' = HoldersOf(u)
      BY <1>7 DEF DestroyUnref, HoldersOf, IInv, TypeOK
    <2>3. /\ CreationRef(s) = 1 /\ CreationRef(s)' = 0
          /\ \A u \in Surface \ {s} : CreationRef(u)' = CreationRef(u)
      BY <1>7, <2>1 DEF DestroyUnref, CreationRef, IInv, TypeOK
    <2>4. surfRefs' = [surfRefs EXCEPT ![s] = @ - 1]
      BY <1>7, <2>1 DEF DestroyUnref, SurfaceUnref
    <2>5. surfRefs'[s] = Count(s)'
      BY <1>1, <2>1, <2>2, <2>3, <2>4, FiniteHolders DEF IInv, TypeOK
    <2> QED
      BY <1>1, <2>1, <2>2, <2>3, <2>4, <2>5 DEF IInv, TypeOK
  <1> QED
    BY <1>3, <1>4, <1>5, <1>6, <1>7, SurfaceRefsKept

\* display->refCount goes up and down with the calls in progress, and its memory
\* goes with the last of them.
LEMMA DisplayCountStep ==
  ASSUME IInv, NEW t \in Thread, Call(t) \/ Locks(t) \/ Runs(t)
  PROVE  DisplayCounts'
  <1> DEFINE Listed(e) == IF e \in dpyListed THEN 1 ELSE 0
             Count(e) == Cardinality(CallersOf(e)) + Listed(e)
             Counted(e) == /\ dpyRefs[e] = Count(e)
                           /\ (e \in dpyFreed <=> dpyRefs[e] = 0)
  <1>1. \A e \in Display : Counted(e)
    BY DEF IInv, DisplayCounts
  <1>2. SUFFICES \A e \in Display : Counted(e)'
    BY DEF DisplayCounts
  <1>3. CASE SameDisplayRefs
    BY <1>1, <1>3 DEF SameDisplayRefs
  <1>4. CASE AcquireDisplay(t)
    <2>1. PICK d \in Display :
             d = dpy[t] /\ t \notin CallersOf(d) /\ call[t] # "unload"
      BY <1>4 DEF AcquireDisplay, CallersOf, IInv, Control
    <2>2. CASE d \notin dpyListed
      <3>1. \A e \in Display : CallersOf(e)' = CallersOf(e)
        BY <1>4, <2>1, <2>2 DEF AcquireDisplay, CallersOf, IInv, TypeOK
      <3> QED
        BY <1>1, <1>4, <2>1, <2>2, <3>1 DEF AcquireDisplay
    <2>3. CASE d \in dpyListed
      <3>1. /\ CallersOf(d)' = CallersOf(d) \union {t}
            /\ \A e \in Display \ {d} : CallersOf(e)' = CallersOf(e)
        BY <1>4, <2>1, <2>3 DEF AcquireDisplay, CallersOf, IInv, TypeOK
      <3>2. Cardinality(CallersOf(d)') = Cardinality(CallersOf(d)) + 1
        BY <2>1, <3>1, FiniteHolders, FS_AddElement, ZenonT(40)
      <3>3. /\ dpyRefs' = [dpyRefs EXCEPT ![d] = @ + 1]
            /\ dpyListed' = dpyListed /\ dpyFreed' = dpyFreed
        BY <1>4, <2>1, <2>3 DEF AcquireDisplay
      <3>4. dpyRefs[d] \in Nat \ {0}
        BY <2>3, DisplayReferenced
      <3>5. Counted(d)'
        BY <1>1, <2>1, <2>3, <3>2, <3>3, <3>4, FiniteHolders DEF IInv, TypeOK
      <3> QED
        BY <1>1, <3>1, <3>3, <3>5 DEF IInv, TypeOK
    <2> QED
      BY <2>2, <2>3
  <1>5. CASE ReleaseDisplay(t)
    <2>1. PICK d \in Display : d = dpy[t] /\ t \in CallersOf(d)
      BY <1>5 DEF ReleaseDisplay, CallersOf, IInv, Control
    <2>2. /\ CallersOf(d)' = CallersOf(d) \ {t}
          /\ \A e \in Display \ {d} : CallersOf(e)' = CallersOf(e)
      BY <1>5, <2>1 DEF ReleaseDisplay, CallersOf, IInv, TypeOK
    <2>3. Cardinality(CallersOf(d)') = Cardinality(CallersOf(d)) - 1
      BY <2>1, <2>2, FiniteHolders, FS_RemoveElement, ZenonT(40)
    <2>4. /\ dpyRefs' = [dpyRefs EXCEPT ![d] = @ - 1]
          /\ dpyFreed' = IF dpyRefs[d] = 1 THEN dpyFreed \union {d} ELSE dpyFreed
          /\ dpyListed' = dpyListed
      BY <1>5, <2>1 DEF ReleaseDisplay, UnrefDisplay
    <2>5. dpyRefs[d] \in Nat \ {0}
      BY <2>1, DisplayReferenced
    <2>6. Counted(d)'
      BY <1>1, <2>1, <2>3, <2>4, <2>5, FiniteHolders DEF IInv, TypeOK
    <2>7. ASSUME NEW e \in Display \ {d} PROVE Counted(e)'
      BY <1>1, <2>2, <2>4 DEF IInv, TypeOK
    <2> QED
      BY <2>6, <2>7
  <1>6. CASE UnloadDetach(t)
    <2>1. PICK d \in Display : d = dpy[t] /\ d \in dpyListed
      BY <1>6 DEF UnloadDetach, IInv, Control, DisplayStates, UnloadRunning
    <2>2. \A e \in Display : CallersOf(e)' = CallersOf(e)
      BY <1>6 DEF UnloadDetach, CallersOf, IInv, TypeOK, Control
    <2>3. /\ dpyRefs' = [dpyRefs EXCEPT ![d] = @ - 1]
          /\ dpyFreed' = IF dpyRefs[d] = 1 THEN dpyFreed \union {d} ELSE dpyFreed
          /\ dpyListed' = dpyListed \ {d}
      BY <1>6, <2>1 DEF UnloadDetach, UnrefDisplay
    <2>4. dpyRefs[d] \in Nat \ {0}
      BY <2>1, DisplayReferenced
    <2>5. Counted(d)'
      BY <1>1, <2>1, <2>2, <2>3, <2>4, FiniteHolders DEF IInv, TypeOK
    <2>6. ASSUME NEW e \in Display \ {d} PROVE Counted(e)'
      BY <1>1, <2>2, <2>3 DEF IInv, TypeOK
    <2> QED
      BY <2>5, <2>6
  <1> QED
    BY <1>3, <1>4, <1>5, <1>6, DisplayRefsKept

-----------------------------------------------------------------------------
(* The inductive invariant.                                                  *)

\* Before the first call every display has the list's reference and there is no
\* surface.
LEMMA Initially == Init => IInv
  <1> SUFFICES ASSUME Init PROVE IInv
    OBVIOUS
  <1>1. TypeOK /\ Control
    <2>1. 0 \in 0..MaxInit /\ 0 \in Nat /\ 1 \in Nat
      BY DEF InitAssumption
    <2> QED
      BY <2>1 DEF Init, TypeOK, Control
  <1>2. LockOwners
    BY DEF Init, LockOwners, UnloadRunning, InSurface
  <1>3. SurfaceStates /\ Contexts /\ DisplayStates
    BY DEF Init, SurfaceStates, Contexts, DisplayStates, SurfacesOf, Terminating,
           UnloadRunning
  <1>4. SurfaceCounts
    <2>1. \A s \in Surface : HoldersOf(s) = {}
      BY DEF Init, HoldersOf
    <2> QED
      BY <2>1, FS_EmptySet DEF Init, SurfaceCounts
  <1>5. DisplayCounts
    <2>1. \A d \in Display : CallersOf(d) = {}
      BY DEF Init, CallersOf
    <2> QED
      BY <2>1, FS_EmptySet DEF Init, DisplayCounts
  <1> QED
    BY <1>1, <1>2, <1>3, <1>4, <1>5 DEF IInv

\* The end of the process changes nothing else.
LEMMA CrashStep ==
  ASSUME IInv, UNCHANGED <<pc, callVars, lockVars, dpyVars, surfVars>>,
         crashed' \in BOOLEAN
  PROVE  IInv'
  <1>1. /\ \A s \in Surface : HoldersOf(s)' = HoldersOf(s)
        /\ \A d \in Display : CallersOf(d)' = CallersOf(d)
    BY DEF HoldersOf, CallersOf
  <1>2. TypeOK' /\ Control'
    BY DEF IInv, TypeOK, Control
  <1>3. LockOwners' /\ SurfaceStates'
    BY DEF IInv, LockOwners, SurfaceStates, UnloadRunning
  <1>4. Contexts' /\ DisplayStates'
    BY DEF IInv, Contexts, DisplayStates, SurfacesOf, Terminating, UnloadRunning
  <1>5. SurfaceCounts' /\ DisplayCounts'
    BY <1>1 DEF IInv, SurfaceCounts, DisplayCounts
  <1> QED
    BY <1>2, <1>3, <1>4, <1>5 DEF IInv

\* Every step of every thread keeps the invariant.
LEMMA Step == IInv /\ [Next]_vars => IInv'
  <1> SUFFICES ASSUME IInv, [Next]_vars PROVE IInv'
    OBVIOUS
  <1>1. ASSUME NEW t \in Thread, Alive(Call(t) \/ Locks(t) \/ Runs(t))
        PROVE  IInv'
    <2>1. Call(t) \/ Locks(t) \/ Runs(t)
      BY <1>1 DEF Alive
    <2>2. UNCHANGED crashed
      BY <1>1 DEF Alive
    <2> QED
      BY <2>1, <2>2, TypeStep, ControlStep, LockStep, SurfaceStep, ContextStep,
         DisplayStep, SurfaceCountStep, DisplayCountStep DEF IInv
  <1>2. ASSUME NEW t \in Thread, UseAfterUnload(t)
        PROVE  IInv'
    BY <1>2, CrashStep DEF UseAfterUnload
  <1>3. CASE UNCHANGED vars
    BY <1>3, CrashStep DEF vars, IInv, TypeOK
  <1> QED
    BY <1>1, <1>2, <1>3 DEF Next

\* The inductive invariant of the lifecycle holds in every reachable state.
THEOREM Invariance == Spec => []IInv
  BY Initially, Step, PTL DEF Spec

-----------------------------------------------------------------------------
(* What the invariant says of the code.                                      *)

\* Types; the counters are natural numbers, so no reference is dropped twice.
THEOREM TypeCorrect == Spec => []TypeOK
  <1> IInv => TypeOK
    BY DEF IInv
  <1> QED
    BY Invariance, PTL

\* No thread uses the memory of a surface that another one has freed.
THEOREM NoUseAfterFree == Spec => []SurfaceHeldAlive
  <1> IInv => SurfaceHeldAlive
    BY DEF IInv, SurfaceStates, SurfaceHeldAlive
  <1> QED
    BY Invariance, PTL

\* surface->refCount counts the swaps in progress and the creation reference.
THEOREM SurfaceRefCount == Spec => []SurfaceCounts
  <1> IInv => SurfaceCounts
    BY DEF IInv
  <1> QED
    BY Invariance, PTL

\* display->refCount counts the calls in progress and the list's reference.
THEOREM DisplayRefCount == Spec => []DisplayCounts
  <1> IInv => DisplayCounts
    BY DEF IInv
  <1> QED
    BY Invariance, PTL

\* The handles of a swap stay undestroyed whatever other threads destroy, and its
\* display keeps its reference on the driver's while no thread is still inside
\* terminateDisplay for it.  A context that is not listed any more has a
\* destroyer, which is in terminateDisplay or in eglDestroySurface; the latter
\* holds the lock of a display that is initialized.
THEOREM SwapHandlesLive == Spec => []DriverContextLive
  <1>1. ASSUME IInv
        PROVE  DriverContextLive
    <2>1. SUFFICES ASSUME NEW t \in Thread, pc[t] = "driver"
                   PROVE  /\ surf[t] \in context /\ dpy[t] \in devDpy
                          /\ \/ dpy[t] \in driverRefs
                             \/ \E u \in Thread : dpy[u] = dpy[t] /\ Terminating(u)
      BY DEF DriverContextLive
    <2>2. /\ surf[t] \in context /\ surf[t] \in Surface
          /\ parent[surf[t]] = dpy[t]
          /\ dpy[t] \in devDpy /\ dpy[t] \in Display
      BY <1>1, <2>1 DEF IInv, Control, Contexts, SurfaceStates
    <2>3. CASE surf[t] \in surfListed
      <3>1. SurfacesOf(dpy[t]) # {}
        BY <2>2, <2>3 DEF SurfacesOf
      <3>2. initCount[dpy[t]] \in Nat
        BY <1>1, <2>2 DEF IInv, TypeOK
      <3> QED
        BY <1>1, <2>2, <3>1, <3>2 DEF IInv, DisplayStates
    <2>4. CASE surf[t] \notin surfListed
      <3>1. PICK u \in Thread : pc[u] \in {"destroyLock", "destroyContext"}
                               /\ surf[u] = surf[t]
        BY <1>1, <2>2, <2>4 DEF IInv, Contexts
      <3>2. dpy[u] = dpy[t]
        BY <1>1, <2>2, <3>1 DEF IInv, SurfaceStates
      <3> QED
        BY <1>1, <2>2, <3>1, <3>2 DEF IInv, DisplayStates, Terminating
    <2> QED
      BY <2>2, <2>3, <2>4
  <1> QED
    BY <1>1, Invariance, PTL

\* A terminated display whose lock is free has no surface left in its list.
THEOREM TerminationComplete == Spec => []TerminatedEmpty
  <1> IInv => TerminatedEmpty
    BY DEF IInv, DisplayStates, LockOwners, Terminating, TerminatedEmpty
  <1> QED
    BY Invariance, PTL

\* Unloading the library frees every display, and every surface whose creation
\* succeeded.
THEOREM UnloadLeaksNothing == Spec => []NothingLeaked
  <1>1. ASSUME IInv PROVE NothingLeaked
    <2> SUFFICES ASSUME dpyListed = {}, \A t \in Thread : pc[t] = "idle"
                 PROVE  /\ dpyFreed = Display /\ context = {}
                        /\ \A s \in Surface \ abandoned : parent[s] = None
      BY DEF NothingLeaked
    <2>1. /\ \A d \in Display : CallersOf(d) = {}
          /\ \A s \in Surface : HoldersOf(s) = {}
      BY DEF CallersOf, HoldersOf
    <2>2. dpyFreed = Display
      <3>1. \A d \in Display : dpyRefs[d] = 0
        BY <1>1, <2>1, FS_EmptySet DEF IInv, DisplayCounts
      <3> QED
        BY <1>1, <3>1 DEF IInv, TypeOK, DisplayCounts
    <2>3. context = {}
      BY <1>1 DEF IInv, DisplayStates, Contexts
    <2>4. surfListed = {}
      BY <1>1, <2>3 DEF IInv, Contexts
    <2>5. \A s \in Surface \ abandoned : surfRefs[s] = 0
      BY <1>1, <2>1, <2>4, FS_EmptySet DEF IInv, SurfaceCounts
    <2> QED
      BY <1>1, <2>2, <2>3, <2>5 DEF IInv, SurfaceStates
  <1> QED
    BY <1>1, Invariance, PTL

\* wlMutex, display->mutex and surface->mutexLock are taken in this order, so
\* threads never wait for each other in a circle: the holder of a lock that comes
\* last waits for none.
THEOREM NoDeadlock == Spec => []NoWaitCycle
  <1>1. ASSUME IInv PROVE NoWaitCycle
    <2> SUFFICES ASSUME NEW S \in SUBSET Thread, S # {},
                        \A t \in S : WaitsFor(t) \in S
                 PROVE  FALSE
      BY DEF NoWaitCycle
    <2>1. \A t \in S : t \in Thread /\ t # None /\ WaitsFor(t) # None
      OBVIOUS
    <2>2. ASSUME NEW t \in S, pc[t] \in {"destroyLock", "swapLock"} PROVE FALSE
      <3> DEFINE h == surfLock[surf[t]]
      <3>1. h \in S
        BY <2>2 DEF WaitsFor
      <3>2. surf[t] \in Surface
        BY <1>1, <2>2 DEF IInv, Control
      <3>3. pc[h] \in InSurface
        BY <1>1, <3>1, <3>2 DEF IInv, LockOwners
      <3>4. WaitsFor(h) = None
        BY <3>3 DEF WaitsFor, InSurface
      <3> QED
        BY <2>1, <3>1, <3>4
    <2>3. ASSUME NEW t \in S, 
                 pc[t] \in {"lockDisplay", "swapRelock", "unloadDisplay"}
          PROVE  FALSE
      <3> DEFINE h == dpyLock[dpy[t]]
      <3>1. h \in S
        BY <2>3 DEF WaitsFor
      <3>2. dpy[t] \in Display
        BY <1>1, <2>3 DEF IInv, Control
      <3>3. pc[h] \in InDisplay
        BY <1>1, <3>1, <3>2 DEF IInv, LockOwners
      <3>4. pc[h] = "destroyLock" \/ WaitsFor(h) = None
        BY <3>3 DEF WaitsFor
      <3> QED
        BY <2>1, <2>2, <3>1, <3>4
    <2>4. ASSUME NEW t \in S, pc[t] \in {"acquire", "release", "unloadLock"}
          PROVE  FALSE
      <3>1. apiLock \in S
        BY <2>4 DEF WaitsFor
      <3>2. UnloadRunning(apiLock)
        BY <1>1, <3>1 DEF IInv, LockOwners
      <3>3. pc[apiLock] \in Unloading \union Destroying \union {"destroyAll"}
        BY <1>1, <3>1, <3>2 DEF IInv, Control, UnloadRunning
      <3>4. \/ pc[apiLock] \in {"unloadDisplay", "destroyLock"}
            \/ WaitsFor(apiLock) = None
        BY <3>3 DEF WaitsFor
      <3> QED
        BY <2>1, <2>2, <2>3, <3>1, <3>4
    <2>5. \A t \in S : WaitsFor(t) = None
      BY <2>2, <2>3, <2>4 DEF WaitsFor
    <2> QED
      BY <2>1, <2>5
  <1> QED
    BY <1>1, Invariance, PTL
=============================================================================
