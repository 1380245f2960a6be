------------------------ MODULE StreamImages_proofs ------------------------
EXTENDS StreamImages, FiniteSetTheorems, TLAPS

USE ImageAssumption, StreamAssumption, FailAssumption
    DEF Stream, NoStream, MutexFree, AppPc, Goto, InCallback, Detaching, Closing,
        InStream, QueueFrame

\* A new surface, whose stream has no image yet, satisfies the invariant.
LEMMA Initially == Init => IInv
  <1> SUFFICES ASSUME Init PROVE IInv
    OBVIOUS
  <1>1. TypeOK
    <2>1. 1 \in Stream
      BY DEF StreamAssumption
    <2> QED
      BY <2>1 DEF Init, TypeOK
  <1>2. LoanTracked /\ OnePlace
    BY DEF Init, LoanTracked, OnePlace
  <1>3. ThreadOwnsQueue /\ CallbackImage
    BY DEF Init, ThreadOwnsQueue, CallbackImage
  <1>4. CurrentImages
    BY DEF Init, CurrentImages
  <1> QED
    BY <1>1, <1>2, <1>3, <1>4 DEF IInv

\* Every handler, callback, thread step and compositor event keeps the invariant.
LEMMA Step == IInv /\ [Next]_vars => IInv'
  <1> SUFFICES ASSUME IInv, [Next]_vars PROVE IInv'
    OBVIOUS
  <1> USE DEF IInv, TypeOK, LoanTracked, OnePlace, ThreadOwnsQueue,
              CallbackImage, CurrentImages, ctxVars, appVars, imageVars, driverVars,
              relVars, queueVars, compVars, DestroySurfaceContext,
              DestroyStreamImages
  <1>1. CASE SwapFails
    BY <1>1 DEF SwapFails
  <1>2. CASE NothingToSend
    BY <1>2 DEF NothingToSend
  <1>3. CASE SwapReturn
    BY <1>3 DEF SwapReturn
  <1>4. CASE DestroyStream
    BY <1>4 DEF DestroyStream
  <1>5. CASE DestroyImages
    BY <1>5 DEF DestroyImages
  <1>6. CASE CreateStream
    BY <1>6 DEF CreateStream
  <1>7. CASE CreateProducer
    BY <1>7 DEF CreateProducer
  <1>8. CASE CreateFails
    BY <1>8 DEF CreateFails
  <1>9. CASE FinishThread
    BY <1>9 DEF FinishThread
  <1>10. CASE JoinThread
    <2>0. TypeOK'
      BY <1>10 DEF JoinThread
    <2>1. LoanTracked'
      BY <1>10 DEF JoinThread
    <2>2. OnePlace' /\ ThreadOwnsQueue' /\ CallbackImage'
      BY <1>10 DEF JoinThread
    <2>3. CurrentImages'
      BY <1>10 DEF JoinThread
    <2> QED
      BY <2>0, <2>1, <2>2, <2>3
  <1>11. CASE DestroyBuffers
    BY <1>11 DEF DestroyBuffers
  <1>12. CASE DestroyRest
    BY <1>12 DEF DestroyRest
  <1>13. CASE FreeSurface
    BY <1>13 DEF FreeSurface
  <1>14. CASE RelDestroy
    BY <1>14 DEF RelDestroy
  <1>15. CASE RelCallback
    BY <1>15 DEF RelCallback
  <1>16. CASE RelRelease
    BY <1>16 DEF RelRelease
  <1>17. CASE RelExit
    BY <1>17 DEF RelExit
  <1>18. CASE SwapBegin
    BY <1>18 DEF SwapBegin
  <1>19. CASE ReallocSurface
    BY <1>19 DEF ReallocSurface
  <1>20. CASE DestroySurface
    BY <1>20 DEF DestroySurface
  <1>21. CASE Terminated
    BY <1>21 DEF Terminated, vars
  <1>22. ASSUME NEW i \in Image, PresentIdle(i) PROVE IInv'
    BY <1>22 DEF PresentIdle
  <1>23. ASSUME NEW i \in Image, PresentNew(i) PROVE IInv'
    BY <1>23 DEF PresentNew
  <1>24. ASSUME NEW i \in Image, AddSurfaceImage(i) PROVE IInv'
    BY <1>24 DEF AddSurfaceImage
  <1>25. ASSUME NEW i \in Image, AcquireSurfaceImage(i) PROVE IInv'
    BY <1>25 DEF AcquireSurfaceImage
  <1>26. ASSUME NEW i \in Image, RemoveSurfaceImage(i) PROVE IInv'
    <2>1. TypeOK'
      BY <1>26 DEF RemoveSurfaceImage
    <2>2. LoanTracked' /\ OnePlace'
      BY <1>26 DEF RemoveSurfaceImage
    <2>3. ThreadOwnsQueue' /\ CallbackImage'
      BY <1>26 DEF RemoveSurfaceImage
    <2>4. CurrentImages'
      BY <1>26 DEF RemoveSurfaceImage
    <2> QED
      BY <2>1, <2>2, <2>3, <2>4
  <1>27. ASSUME NEW i \in Image, SendDamageEvent(i) PROVE IInv'
    BY <1>27 DEF SendDamageEvent
  <1>28. ASSUME NEW i \in Image, RelDispatch(i) PROVE IInv'
    BY <1>28 DEF RelDispatch
  <1>29. ASSUME NEW i \in Image, DriverRemove(i) PROVE IInv'
    BY <1>29 DEF DriverRemove
  <1>30. ASSUME NEW i \in Image, CompositorRelease(i) PROVE IInv'
    BY <1>30 DEF CompositorRelease
  <1>31. CASE UNCHANGED vars
    BY <1>31 DEF vars
  <1>32. CASE EventsFail
    BY <1>32 DEF EventsFail
  <1>33. ASSUME NEW i \in Image, AcquireFails(i) PROVE IInv'
    BY <1>33 DEF AcquireFails
  <1> QED
    BY <1>1, <1>2, <1>3, <1>4, <1>5, <1>6, <1>7, <1>8, <1>9, <1>10, <1>11, <1>12, <1>13, <1>14, <1>15, <1>16, <1>17, <1>18, <1>19, <1>20, <1>21, <1>22, <1>23, <1>24, <1>25, <1>26, <1>27, <1>28, <1>29, <1>30, <1>31,
       <1>32, <1>33
       DEF Next, Swap, Teardown, ReleaseThread

\* The inductive invariant of the swapchain holds in every reachable state.
THEOREM Invariance == Spec => []IInv
  BY Initially, Step, PTL DEF Spec

\* Every variable of the swapchain keeps its type, whatever fails.
THEOREM TypeCorrect == Spec => []TypeOK
  BY Invariance, PTL DEF IInv

\* stream_local_buffer_release_callback never touches a freed image, a freed
\* surface or a destroyed queue, also when a reallocation fails.
THEOREM CallbackSafety == Spec => []CallbackSafe
  <1>1. IInv => CallbackSafe
    BY DEF IInv, TypeOK, ThreadOwnsQueue, CallbackImage, CallbackSafe
  <1> QED
    BY <1>1, Invariance, PTL

\* The callback gives an image back to the stream it came from or to none.
THEOREM ReleaseToItsStream == Spec => []ReleasedToItsStream
  <1>1. IInv => ReleasedToItsStream
    BY DEF IInv, CallbackImage, ReleasedToItsStream
  <1> QED
    BY <1>1, Invariance, PTL

\* image->attached is exact, and no image is in two places.
THEOREM Loans == Spec => [](LoanTracked /\ OnePlace)
  BY Invariance, PTL DEF IInv

\* assert(image->attached) of wlEglDestroySurface never fails.
THEOREM AttachedAssertion == Spec => []BuffersLeftAttached
  <1>1. IInv => BuffersLeftAttached
    BY DEF IInv, TypeOK, ThreadOwnsQueue, CurrentImages, BuffersLeftAttached
  <1> QED
    BY <1>1, Invariance, PTL

-----------------------------------------------------------------------------
(* The FIFO of acquired images.                                               *)

\* While no query and no acquisition fails, no step starts a second frame before
\* the first one has been committed, given back to the stream or removed with
\* its image.
LEMMA OneFrameStep ==
    ASSUME ~MayFail, TypeOK, OneFrame, [Next]_vars
    PROVE  OneFrame'
  <1> USE DEF OneFrame, TypeOK, ctxVars, appVars, imageVars, driverVars, relVars,
              queueVars, compVars, DestroySurfaceContext, DestroyStreamImages
  <1>1. CASE SwapBegin \/ ReallocSurface \/ DestroySurface \/ Terminated
    BY <1>1 DEF SwapBegin, ReallocSurface, DestroySurface, Terminated, vars
  <1>2. CASE SwapFails \/ EventsFail \/ NothingToSend \/ SwapReturn
    BY <1>2 DEF SwapFails, EventsFail, NothingToSend, SwapReturn, EventsDrained
  <1>3. CASE Teardown
    BY <1>3 DEF Teardown, DestroyStream, DestroyImages, CreateStream,
       CreateProducer, CreateFails, FinishThread, JoinThread, DestroyBuffers,
       DestroyRest, FreeSurface
  <1>4. CASE RelDestroy \/ RelCallback \/ RelRelease \/ RelExit
    BY <1>4 DEF RelDestroy, RelCallback, RelRelease, RelExit
  <1>5. ASSUME NEW i \in Image, PresentIdle(i) \/ PresentNew(i)
        PROVE  OneFrame'
    BY <1>5 DEF PresentIdle, PresentNew
  <1>6. ASSUME NEW i \in Image,
               AddSurfaceImage(i) \/ AcquireSurfaceImage(i) \/ AcquireFails(i)
        PROVE  OneFrame'
    BY <1>6 DEF AddSurfaceImage, AcquireSurfaceImage, AcquireFails
  <1>7. ASSUME NEW i \in Image, RemoveSurfaceImage(i) \/ DriverRemove(i)
        PROVE  OneFrame'
    BY <1>7 DEF RemoveSurfaceImage, DriverRemove
  <1>8. ASSUME NEW i \in Image, SendDamageEvent(i)
        PROVE  OneFrame'
    BY <1>8 DEF SendDamageEvent, EventsDrained
  <1>9. ASSUME NEW i \in Image, RelDispatch(i) \/ CompositorRelease(i)
        PROVE  OneFrame'
    BY <1>9 DEF RelDispatch, CompositorRelease
  <1>10. CASE UNCHANGED vars
    BY <1>10 DEF vars
  <1> QED
    BY <1>1, <1>2, <1>3, <1>4, <1>5, <1>6, <1>7, <1>8, <1>9, <1>10
       DEF Next, Swap, ReleaseThread

\* While no query and no acquisition fails, ctx.acquiredImages never holds two
\* images, however swaps, reallocations and the driver's removals interleave.
THEOREM AcquiredAtMostOne ==
    ASSUME ~MayFail
    PROVE  Spec => []NoBacklog
  <1>1. Init => OneFrame
    BY DEF Init, OneFrame
  <1>2. ASSUME OneFrame PROVE NoBacklog
    <2>1. CASE acquiredImages = {}
      BY <2>1, FS_EmptySet DEF NoBacklog
    <2>2. CASE acquiredImages # {}
      <3>1. PICK i \in acquiredImages : TRUE
        BY <2>2
      <3>2. acquiredImages = {i}
        BY <1>2, <3>1 DEF OneFrame
      <3>3. Cardinality({i}) = 1
        BY FS_Singleton
      <3> QED
        BY <3>2, <3>3 DEF NoBacklog
    <2> QED
      BY <2>1, <2>2
  <1>3. TypeOK /\ OneFrame /\ [Next]_vars => OneFrame'
    BY OneFrameStep
  <1> QED
    BY <1>1, <1>2, <1>3, TypeCorrect, PTL DEF Spec

-----------------------------------------------------------------------------
(* Without failed creations the surface is torn down completely.              *)

\* While creations succeed, the release queue is there until the last image is
\* gone: what wlEglDestroySurface relies on is kept by every step.
LEMMA CleanStep ==
    ASSUME ~MayFail, IInv, CleanInv, [Next]_vars
    PROVE  CleanInv'
  <1> USE DEF CleanInv, IInv, TypeOK, ThreadOwnsQueue, CurrentImages, ctxVars, appVars,
              imageVars, driverVars, relVars, queueVars, compVars,
              DestroySurfaceContext, DestroyStreamImages
  <1>1. CASE SwapBegin \/ ReallocSurface \/ DestroySurface \/ Terminated
    BY <1>1 DEF SwapBegin, ReallocSurface, DestroySurface, Terminated, vars
  <1>2. CASE Swap
    <2>1. CASE SwapFails \/ EventsFail \/ NothingToSend \/ SwapReturn
      BY <2>1 DEF SwapFails, EventsFail, NothingToSend, SwapReturn
    <2>2. ASSUME NEW i \in Image,
                 \/ PresentIdle(i) \/ PresentNew(i) \/ AddSurfaceImage(i)
                 \/ AcquireSurfaceImage(i) \/ AcquireFails(i) \/ SendDamageEvent(i)
          PROVE  CleanInv'
      BY <2>2 DEF PresentIdle, PresentNew, AddSurfaceImage,
         AcquireSurfaceImage, AcquireFails, SendDamageEvent
    <2>3. ASSUME NEW i \in Image, RemoveSurfaceImage(i) PROVE CleanInv'
      BY <2>3 DEF RemoveSurfaceImage
    <2> QED
      BY <1>2, <2>1, <2>2, <2>3 DEF Swap
  <1>3. CASE Teardown
    BY <1>3 DEF Teardown, DestroyStream, DestroyImages, CreateStream,
       CreateProducer, CreateFails, FinishThread, JoinThread, DestroyBuffers,
       DestroyRest, FreeSurface
  <1>4. CASE ReleaseThread
    BY <1>4 DEF ReleaseThread, RelDestroy, RelCallback, RelRelease, RelExit,
       RelDispatch
  <1>5. ASSUME NEW i \in Image, DriverRemove(i) \/ CompositorRelease(i)
        PROVE  CleanInv'
    BY <1>5 DEF DriverRemove, CompositorRelease
  <1>6. CASE UNCHANGED vars
    BY <1>6 DEF vars
  <1> QED
    BY <1>1, <1>2, <1>3, <1>4, <1>5, <1>6 DEF Next

\* When nothing fails, the event queue outlives every buffer that uses it and
\* eglDestroySurface leaves no image behind: its assertion holds.
THEOREM CleanTeardown ==
    ASSUME ~MayFail
    PROVE  Spec => [](StreamImagesEmpty /\ QueueOutlivesProxies)
  <1>1. Init => CleanInv
    BY DEF Init, CleanInv
  <1>2. IInv /\ CleanInv /\ [Next]_vars => CleanInv'
    BY CleanStep
  <1>3. CleanInv => StreamImagesEmpty /\ QueueOutlivesProxies
    BY DEF CleanInv, StreamImagesEmpty, QueueOutlivesProxies
  <1> QED
    BY <1>1, <1>2, <1>3, Invariance, PTL DEF Spec

\* libwayland's rule for event queues, on its own: no buffer of the surface is
\* left in wlBufferEventQueue when wlEglDestroySurface destroys the queue.
THEOREM QueueOutlives ==
    ASSUME ~MayFail
    PROVE  Spec => []QueueOutlivesProxies
  BY CleanTeardown, PTL

-----------------------------------------------------------------------------
(* Refinement: every step is a step of the loan protocol, or stutters.        *)

\* Every step of the swapchain moves images the way ImageLoan allows, or not at
\* all.
LEMMA LoanStep ==
    ASSUME IInv, IInv', [Next]_vars
    PROVE  [Loan!Next]_(Loan!vars)
  <1> USE DEF IInv, TypeOK, LoanTracked, OnePlace, CallbackImage, Owner,
              ctxVars, appVars, imageVars, driverVars, relVars, queueVars, compVars
  <1> DEFINE Same == Owner' = Owner /\ (next' # "destroyBuffers") = (next # "destroyBuffers")
  <1>1. ASSUME Same PROVE [Loan!Next]_(Loan!vars)
    BY <1>1 DEF Loan!vars
  <1>2. CASE SwapBegin \/ SwapFails \/ EventsFail \/ NothingToSend \/ SwapReturn
             \/ CreateProducer \/ FinishThread \/ JoinThread \/ FreeSurface
             \/ RelCallback \/ RelExit \/ Terminated
    <2>1. Same
      BY <1>2 DEF SwapBegin, SwapFails, EventsFail, NothingToSend, SwapReturn,
         CreateProducer, FinishThread, JoinThread, FreeSurface, RelCallback,
         RelExit, Terminated, vars
    <2> QED
      BY <2>1, <1>1
  <1>3. CASE ReallocSurface \/ CreateFails \/ CreateStream
    <2>1. Same
      BY <1>3 DEF ReallocSurface, CreateFails, CreateStream,
         DestroySurfaceContext, CurrentImages
    <2> QED
      BY <2>1, <1>1
  <1>4. CASE DestroySurface
    <2>1. Loan!Close
      BY <1>4 DEF DestroySurface, DestroySurfaceContext, CurrentImages, Loan!Close
    <2> QED
      BY <2>1 DEF Loan!Next
  <1>5. ASSUME NEW i \in Image, PresentIdle(i) \/ AcquireFails(i) \/ RelDispatch(i)
        PROVE  [Loan!Next]_(Loan!vars)
    <2>1. Same
      BY <1>5 DEF PresentIdle, AcquireFails, RelDispatch, CurrentImages
    <2> QED
      BY <2>1, <1>1
  <1>18. ASSUME NEW i \in Image, AddSurfaceImage(i)
         PROVE  [Loan!Next]_(Loan!vars)
    <2>1. CASE driver[i] = "removed" /\ i \in streamImages'
      <3>1. Loan!Move({i}, "none", "client") /\ UNCHANGED next
        BY <1>18, <2>1 DEF AddSurfaceImage, CurrentImages, Loan!Move
      <3> QED
        BY <3>1 DEF Loan!Next, Loan!Learn
    <2>2. CASE ~(driver[i] = "removed" /\ i \in streamImages')
      <3>1. Same
        BY <1>18, <2>2 DEF AddSurfaceImage, CurrentImages
      <3> QED
        BY <3>1, <1>1
    <2> QED
      BY <2>1, <2>2
  <1>6. ASSUME NEW i \in Image, PresentNew(i)
        PROVE  [Loan!Next]_(Loan!vars)
    <2>1. Loan!Move({i}, "none", "stream") /\ (next' # "destroyBuffers") = (next # "destroyBuffers")
      BY <1>6 DEF PresentNew, Loan!Move
    <2> QED
      BY <2>1 DEF Loan!Next, Loan!Allocate
  <1>7. ASSUME NEW i \in Image, AcquireSurfaceImage(i)
        PROVE  [Loan!Next]_(Loan!vars)
    <2>1. CASE driver'[i] = "acquired"
      <3>1. Loan!Move({i}, "stream", "client") /\ UNCHANGED next
        BY <1>7, <2>1 DEF AcquireSurfaceImage, Loan!Move
      <3> QED
        BY <3>1 DEF Loan!Next, Loan!Acquire
    <2>2. CASE driver'[i] = "idle"
      <3>1. Same
        BY <1>7, <2>2 DEF AcquireSurfaceImage
      <3> QED
        BY <3>1, <1>1
    <2> QED
      BY <1>7, <2>1, <2>2 DEF AcquireSurfaceImage
  <1>8. ASSUME NEW i \in Image, RemoveSurfaceImage(i)
        PROVE  [Loan!Next]_(Loan!vars)
    <2>1. CASE i \in streamImages \ attached
      <3>1. Loan!Move({i}, "client", "none") /\ UNCHANGED next
        BY <1>8, <2>1 DEF RemoveSurfaceImage, DestroyStreamImages, Loan!Move
      <3> QED
        BY <3>1 DEF Loan!Next, Loan!Destroy
    <2>2. CASE i \notin streamImages \ attached
      <3>1. Same
        BY <1>8, <2>2 DEF RemoveSurfaceImage, DestroyStreamImages
      <3> QED
        BY <3>1, <1>1
    <2> QED
      BY <2>1, <2>2
  <1>9. ASSUME NEW i \in Image, DriverRemove(i)
        PROVE  [Loan!Next]_(Loan!vars)
    <2> DEFINE S == {j \in {i} : driver[j] = "idle" /\ j \in streamImages}
               T == {j \in {i} : driver[j] = "idle" /\ j \notin streamImages}
    <2>1. /\ S \intersect T = {} /\ \A j \in S \union T : Owner[j] = "stream"
          /\ Owner' = [j \in Image |-> IF j \in S THEN "client"
                                       ELSE IF j \in T THEN "none" ELSE Owner[j]]
          /\ UNCHANGED next
      BY <1>9 DEF DriverRemove
    <2>2. S \in SUBSET Image /\ T \in SUBSET Image
      OBVIOUS
    <2>3. (next' # "destroyBuffers") = (next # "destroyBuffers")
      BY <2>1
    <2> HIDE DEF S, T, Owner
    <2>4. Loan!Reclaim
      BY <2>1, <2>2, <2>3, Zenon DEF Loan!Reclaim
    <2> QED
      BY <2>4 DEF Loan!Next
  <1>10. ASSUME NEW i \in Image, SendDamageEvent(i)
         PROVE  [Loan!Next]_(Loan!vars)
    <2>1. Loan!Move({i}, "client", "compositor")
      BY <1>10 DEF SendDamageEvent, EventsDrained, Loan!Move
    <2>2. next # "destroyBuffers" /\ next' = next
      BY <1>10 DEF SendDamageEvent, CurrentImages
    <2> QED
      BY <2>1, <2>2 DEF Loan!Next, Loan!Show
  <1>11. CASE DestroyStream
    <2> DEFINE S == {j \in streamImages : Owner[j] = "stream"}
               T == {j \in Image \ streamImages : Owner[j] = "stream"}
    <2>1. /\ S \intersect T = {} /\ \A j \in S \union T : Owner[j] = "stream"
          /\ Owner' = [j \in Image |-> IF j \in S THEN "client"
                                       ELSE IF j \in T THEN "none" ELSE Owner[j]]
          /\ UNCHANGED next
      BY <1>11 DEF DestroyStream
    <2>2. S \in SUBSET Image /\ T \in SUBSET Image
      OBVIOUS
    <2>3. (next' # "destroyBuffers") = (next # "destroyBuffers")
      BY <2>1
    <2> HIDE DEF S, T, Owner
    <2>4. Loan!Reclaim
      BY <2>1, <2>2, <2>3, Zenon DEF Loan!Reclaim
    <2> QED
      BY <2>4 DEF Loan!Next
  <1>12. CASE DestroyImages \/ DestroyRest
    <2> DEFINE S == streamImages \ attached
    <2>1. \A j \in Image : driver[j] = "none"
      BY <1>12 DEF DestroyImages, DestroyRest, CurrentImages
    <2>2. Loan!Move(S, "client", "none") /\ UNCHANGED next
      BY <1>12, <2>1 DEF DestroyImages, DestroyRest, DestroyStreamImages, Loan!Move
    <2> QED
      BY <2>2 DEF Loan!Next, Loan!Destroy
  <1>13. CASE DestroyBuffers
    <2>1. next = "destroyBuffers" /\ next' = next
      BY <1>13 DEF DestroyBuffers, CurrentImages
    <2>2. \A j \in Image : driver[j] = "none"
      BY <1>13 DEF DestroyBuffers, CurrentImages
    <2>3. CASE queueLive
      <3>1. Loan!Move(held, "compositor", "client")
        BY <1>13, <2>2, <2>3 DEF DestroyBuffers, Loan!Move
      <3> QED
        BY <2>1, <3>1 DEF Loan!Next, Loan!Revoke
    <2>4. CASE ~queueLive
      <3>1. Same
        BY <1>13, <2>1, <2>4 DEF DestroyBuffers
      <3> QED
        BY <3>1, <1>1
    <2> QED
      BY <2>3, <2>4
  <1>14. CASE RelDestroy
    <2>1. Loan!Move({relImage}, "client", "none") /\ UNCHANGED next
      BY <1>14 DEF RelDestroy, DestroyStreamImages, InCallback, Loan!Move
    <2>2. {relImage} \in SUBSET Image
      BY <1>14 DEF RelDestroy
    <2> QED
      BY <2>1, <2>2 DEF Loan!Next, Loan!Destroy
  <1>15. CASE RelRelease
    <2>1. CASE driver[relImage] = "acquired" /\ home[relImage] = relStream
      <3>1. Loan!Move({relImage}, "client", "stream") /\ UNCHANGED next
        BY <1>15, <2>1 DEF RelRelease, Loan!Move
      <3> QED
        BY <3>1, <1>15 DEF RelRelease, Loan!Next, Loan!GiveBack
    <2>2. CASE ~(driver[relImage] = "acquired" /\ home[relImage] = relStream)
      <3>1. Same
        BY <1>15, <2>2 DEF RelRelease
      <3> QED
        BY <3>1, <1>1
    <2> QED
      BY <2>1, <2>2
  <1>16. ASSUME NEW i \in Image, CompositorRelease(i)
         PROVE  [Loan!Next]_(Loan!vars)
    <2>1. Loan!Move({i}, "compositor", "client") /\ UNCHANGED next
      BY <1>16 DEF CompositorRelease, Loan!Move
    <2> QED
      BY <2>1 DEF Loan!Next, Loan!TakeBack
  <1>17. CASE UNCHANGED vars
    <2>1. Same
      BY <1>17 DEF vars
    <2> QED
      BY <2>1, <1>1
  <1> QED
    BY <1>2, <1>3, <1>4, <1>5, <1>6, <1>7, <1>8, <1>9, <1>10, <1>11, <1>12,
       <1>13, <1>14, <1>15, <1>16, <1>17, <1>18
       DEF Next, Swap, Teardown, ReleaseThread

\* The swapchain implements the loan protocol of ImageLoan.
THEOREM ImplementsLoan == Spec => LoanSafety
  <1>1. Init => Loan!Init
    BY DEF Init, Loan!Init, Owner
  <1> QED
    BY <1>1, LoanStep, Invariance, PTL DEF Spec, LoanSafety, Loan!Spec

\* A lent buffer is not destroyed by a swap or a reallocation.
THEOREM Untouched == Spec => LentUntilReleased
  <1>1. ASSUME IInv, [Next]_vars
        PROVE  [\A i \in held \ held' : i \in released' \/ next = "destroyBuffers"]_vars
    <2> USE DEF IInv, TypeOK, LoanTracked, OnePlace, CurrentImages, ctxVars, appVars,
                imageVars, driverVars, relVars, queueVars, compVars
    <2>1. CASE Swap
      BY <1>1, <2>1 DEF Swap, SwapFails, EventsFail, NothingToSend, SwapReturn,
         PresentIdle, PresentNew, AddSurfaceImage, AcquireSurfaceImage, AcquireFails,
         RemoveSurfaceImage, SendDamageEvent, DestroyStreamImages
    <2>2. CASE Teardown
      BY <1>1, <2>2 DEF Teardown, DestroyStream, DestroyImages, CreateStream,
         CreateProducer, CreateFails, FinishThread, JoinThread, DestroyBuffers,
         DestroyRest, FreeSurface, DestroySurfaceContext, DestroyStreamImages
    <2>3. CASE ReleaseThread
      BY <1>1, <2>3 DEF ReleaseThread, RelDestroy, RelCallback, RelRelease,
         RelExit, RelDispatch, InCallback, DestroyStreamImages
    <2>4. CASE SwapBegin \/ ReallocSurface \/ DestroySurface \/ Terminated
      BY <1>1, <2>4 DEF SwapBegin, ReallocSurface, DestroySurface, Terminated,
         DestroySurfaceContext
    <2>5. CASE \E i \in Image : DriverRemove(i) \/ CompositorRelease(i)
      BY <1>1, <2>5 DEF DriverRemove, CompositorRelease
    <2> QED
      BY <1>1, <2>1, <2>2, <2>3, <2>4, <2>5 DEF Next
  <1> QED
    BY <1>1, Invariance, PTL DEF Spec, LentUntilReleased
=============================================================================
