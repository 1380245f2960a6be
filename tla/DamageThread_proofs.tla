------------------------ MODULE DamageThread_proofs ------------------------
EXTENDS DamageThread, TLAPS

USE FramesAssumption DEF CreateFrameSync, Commit, NewContext

\* A new surface, with or without a damage thread, satisfies the invariant.
LEMMA Initially == Init => IInv
  <1> SUFFICES ASSUME Init PROVE IInv
    OBVIOUS
  <1>1. TypeOK
    <2>1. 0 \in 0..MaxFrames /\ 0 \in 0..submitted
      BY DEF FramesAssumption, Init
    <2>2. useDamageThread \in BOOLEAN
      BY DEF Init
    <2>3. CASE useDamageThread
      BY <2>1, <2>2, <2>3 DEF Init, TypeOK
    <2>4. CASE ~useDamageThread
      BY <2>1, <2>2, <2>4 DEF Init, TypeOK
    <2> QED
      BY <2>3, <2>4
  <1>2. ThreadState /\ Counting
    BY DEF Init, ThreadState, Counting
  <1>3. Pacing /\ Flushing
    BY DEF Init, Pacing, Flushing
  <1> QED
    BY <1>1, <1>2, <1>3 DEF IInv

\* Every step of the swapping thread, the damage thread, the GPU and the
\* compositor keeps the invariant.
LEMMA Step == IInv /\ [Next]_vars => IInv'
  <1> SUFFICES ASSUME IInv, [Next]_vars PROVE IInv'
    OBVIOUS
  <1> USE DEF IInv, TypeOK, ThreadState, Counting, Pacing, Flushing, counters,
              flags, driver
  <1>1. CASE SwapBegin
    BY <1>1 DEF SwapBegin
  <1>2. CASE CheckProcessed
    BY <1>2 DEF CheckProcessed
  <1>3. CASE DispatchFrameDone
    BY <1>3 DEF DispatchFrameDone
  <1>4. CASE FrameSyncOver
    BY <1>4 DEF FrameSyncOver
  <1>5. CASE DispatchFails
    BY <1>5 DEF DispatchFails
  <1>6. CASE DriverSwap
    BY <1>6 DEF DriverSwap
  <1>7. CASE DriverSwapFails
    BY <1>7 DEF DriverSwapFails
  <1>8. CASE FrameProduced
    BY <1>8 DEF FrameProduced
  <1>9. CASE SendDamageEvent
    <2>1. CASE SendCommits
      BY <2>1 DEF SendCommits
    <2>2. CASE SendFails
      BY <2>2 DEF SendFails
    <2> QED
      BY <1>9, <2>1, <2>2 DEF SendDamageEvent
  <1>10. CASE SwapReturn
    BY <1>10 DEF SwapReturn
  <1>11. CASE ReallocSurface
    <2>1. TypeOK'
      BY <1>11 DEF ReallocSurface
    <2>2. ThreadState' /\ Counting'
      BY <1>11 DEF ReallocSurface
    <2>3. Pacing' /\ Flushing'
      BY <1>11 DEF ReallocSurface
    <2> QED
      BY <2>1, <2>2, <2>3
  <1>12. CASE DestroySurface
    <2>1. TypeOK' /\ ThreadState' /\ Counting'
      BY <1>12 DEF DestroySurface
    <2>2. Pacing' /\ Flushing'
      BY <1>12 DEF DestroySurface
    <2> QED
      BY <2>1, <2>2
  <1>13. CASE FinishDamageThread
    BY <1>13 DEF FinishDamageThread
  <1>14. CASE CreateContext
    <2>1. CASE NewContext
      <3>1. 0 \in 0..MaxFrames /\ 0 \in 0..0
        BY DEF FramesAssumption
      <3>2. TypeOK'
        BY <1>14, <2>1, <3>1 DEF CreateContext
      <3>3. ThreadState' /\ Counting'
        BY <1>14, <2>1, <3>1 DEF CreateContext
      <3>4. Pacing' /\ Flushing'
        BY <1>14, <2>1, <3>1 DEF CreateContext
      <3> QED
        BY <3>2, <3>3, <3>4
    <2>2. CASE UNCHANGED <<counters, flags, driver, thread, sync>>
      BY <1>14, <2>2 DEF CreateContext
    <2> QED
      BY <1>14, <2>1, <2>2 DEF CreateContext
  <1>15. CASE CreateSurface
    <2>1. 0 \in 0..MaxFrames /\ 0 \in 0..0
      BY DEF FramesAssumption
    <2>2. TypeOK'
      BY <1>15, <2>1 DEF CreateSurface
    <2>3. ThreadState' /\ Counting'
      BY <1>15, <2>1 DEF CreateSurface
    <2>4. Pacing' /\ Flushing'
      BY <1>15, <2>1 DEF CreateSurface
    <2> QED
      BY <2>2, <2>3, <2>4
  <1>16. CASE UnsignalSync
    BY <1>16 DEF UnsignalSync
  <1>17. CASE QueryStream
    BY <1>17 DEF QueryStream
  <1>18. CASE ThreadFails
    BY <1>18 DEF ThreadFails
  <1>19. CASE CheckFlags
    BY <1>19 DEF CheckFlags
  <1>20. CASE LockFrameSync
    BY <1>20 DEF LockFrameSync
  <1>21. CASE ThreadFrameSync
    BY <1>21 DEF ThreadFrameSync
  <1>22. CASE ProcessFrame
    <2>1. TypeOK'
      <3>1. useDamageThread /\ framesProcessed + 1 \in 0..MaxFrames
        BY <1>22 DEF ProcessFrame, FramesAssumption
      <3>2. framesProcessed' \in 0..MaxFrames /\ frameLock' \in {"none", "thread"}
        BY <1>22, <3>1 DEF ProcessFrame
      <3>3. /\ thread' \in {"unsignal", "exited"}
            /\ failed' \in BOOLEAN
            /\ throttle' \in {"none", "requested", "committed", "done"}
        BY <1>22 DEF ProcessFrame
      <3>4. app' \in {app, "check"}
        BY <1>22 DEF ProcessFrame
      <3>5. UNCHANGED <<useDamageThread, framesProduced, framesFinished, flags,
                        sync, driver, swapInterval>>
        BY <1>22 DEF ProcessFrame
      <3> QED
        BY <3>2, <3>3, <3>4, <3>5
    <2>2. ThreadState'
      BY <1>22 DEF ProcessFrame
    <2>3. Counting'
      BY <1>22 DEF ProcessFrame
    <2>4. Pacing' /\ Flushing'
      BY <1>22 DEF ProcessFrame
    <2> QED
      BY <2>1, <2>2, <2>3, <2>4
  <1>23. CASE FinishFrame
    BY <1>23 DEF FinishFrame
  <1>24. CASE WaitSync
    BY <1>24 DEF WaitSync
  <1>25. CASE FrameDone
    BY <1>25 DEF FrameDone
  <1>26. CASE SwapInterval
    BY <1>26 DEF SwapInterval
  <1>27. CASE UNCHANGED vars
    BY <1>27 DEF vars
  <1> QED
    BY <1>1, <1>2, <1>3, <1>4, <1>5, <1>6, <1>7, <1>8, <1>9, <1>10, <1>11, <1>12, <1>13, <1>14, <1>15, <1>16, <1>17, <1>18, <1>19, <1>20, <1>21, <1>22, <1>23, <1>24, <1>25, <1>26, <1>27
       DEF Next, Swapping, Damaging, Failing, Hung

\* The inductive invariant of frame pacing holds in every reachable state.
THEOREM Invariance == Spec => []IInv
  BY Initially, Step, PTL DEF Spec

\* Types, and the range of the counters, for any number of frames.
THEOREM TypeCorrect == Spec => []TypeOK
  <1> IInv => TypeOK
    BY DEF IInv
  <1> QED
    BY Invariance, PTL

\* The swapping thread touches throttleCallback only while the damage thread does
\* not, although no lock protects it.
THEOREM FrameSyncExclusion == Spec => []FrameSyncExclusive
  <1>1. IInv => FrameSyncExclusive
    BY DEF IInv, TypeOK, ThreadState, Counting, FrameSyncExclusive
  <1> QED
    BY <1>1, Invariance, PTL

\* At most one frame handed to the driver is not committed yet.
THEOREM OneAhead == Spec => []OneFrameAhead
  <1>1. IInv => OneFrameAhead
    BY DEF IInv, TypeOK, Counting, OneFrameAhead
  <1> QED
    BY <1>1, Invariance, PTL

\* wlEglCreateFrameSync overwrites no outstanding frame callback.
THEOREM ThrottleSafety == Spec => []ThrottleKept
  <1>1. IInv => ThrottleKept
    BY DEF IInv, TypeOK, ThreadState, Counting, Pacing, ThrottleKept
  <1> QED
    BY <1>1, Invariance, PTL

\* A reallocation commits every frame of the old stream before it is discarded.
THEOREM FlushSafety == Spec => []FlushedBeforeRealloc
  <1>1. IInv => FlushedBeforeRealloc
    BY DEF IInv, TypeOK, ThreadState, Flushing, FlushedBeforeRealloc
  <1> QED
    BY <1>1, Invariance, PTL
=============================================================================
