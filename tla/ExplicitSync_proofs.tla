------------------------- MODULE ExplicitSync_proofs -------------------------
EXTENDS ExplicitSync, FiniteSetTheorems, TLAPS

USE ImageAssumption, WaitAssumption, FramesAssumption, FailuresAssumption
    DEF ImageAssumption, WaitAssumption, FramesAssumption, FailuresAssumption,
        Frame, None, Goto, Fail, Reset, InStream, lists, syncVars, driverVars,
        compVars

\* The sets that Counts counts are finite, and what it does not count grows none
\* of them.
LEMMA Finite ==
    \A S \in SUBSET Image : /\ IsFiniteSet(S)
                            /\ Cardinality(S) \in Nat
                            /\ Cardinality(S) <= Cardinality(Image)
  BY FS_Subset, FS_CardinalityType

LEMMA Smaller ==
    ASSUME NEW S \in SUBSET Image, NEW T \in SUBSET S
    PROVE  Cardinality(T) <= Cardinality(S)
  <1>1. IsFiniteSet(S)
    BY FS_Subset
  <1> QED
    BY <1>1, FS_Subset

LEMMA OneMore ==
    ASSUME NEW S \in SUBSET Image, NEW i \in Image
    PROVE  Cardinality(S \union {i}) <= Cardinality(S) + 1
  <1>1. IsFiniteSet(S) /\ Cardinality(S) \in Nat
    BY Finite
  <1>2. CASE i \in S
    <2>1. S \union {i} = S
      BY <1>2
    <2>2. Cardinality(S \union {i}) = Cardinality(S)
      BY <2>1, Zenon
    <2> QED
      BY <1>1, <2>2
  <1>3. CASE i \notin S
    <2>1. Cardinality(S \union {i}) = Cardinality(S) + 1
      BY <1>1, <1>3, FS_AddElement
    <2> QED
      BY <1>1, <2>1
  <1> QED
    BY <1>2, <1>3

LEMMA OneLess ==
    ASSUME NEW S \in SUBSET Image, NEW i \in S
    PROVE  Cardinality(S \ {i}) = Cardinality(S) - 1
  <1>1. IsFiniteSet(S)
    BY Finite
  <1> QED
    BY <1>1, FS_RemoveElement

\* A new surface, whose stream has no image yet, satisfies the invariant.
LEMMA Initially == Init => IInv
  <1> SUFFICES ASSUME Init PROVE IInv
    OBVIOUS
  <1>1. TypeOK
    BY DEF Init, TypeOK
  <1>2. Places /\ Points
    BY DEF Init, Places, Points
  <1>3. Counts
    <2>1. Stuck = {} /\ Busy \union releasePending = {}
      BY DEF Init, Busy, Stuck
    <2>2. Cardinality({}) = 0
      BY FS_EmptySet
    <2>3. Cardinality(Stuck) = 0 /\ Cardinality(Busy \union releasePending) = 0
      BY <2>1, <2>2, Zenon
    <2> QED
      BY <2>3 DEF Init, Counts
  <1>4. LastFrame /\ FramesInOrder
    BY DEF Init, Waiting, LastFrame, FramesInOrder
  <1> QED
    BY <1>1, <1>2, <1>3, <1>4 DEF IInv

-----------------------------------------------------------------------------
\* Every call of the application, every step of the driver and every fence of
\* the compositor keeps the types, the places of the images and their points.
LEMMA StepShape == IInv /\ [Next]_vars => (TypeOK /\ Places /\ Points)'
  <1> SUFFICES ASSUME IInv, [Next]_vars
               PROVE  (TypeOK /\ Places /\ Points)'
    OBVIOUS
  <1> USE DEF IInv, TypeOK, Places, Points, DestroyStreamImages
  <1>1. CASE SwapBegin
    BY <1>1 DEF SwapBegin
  <1>2. CASE SwapFails
    BY <1>2 DEF SwapFails
  <1>3. CASE NothingToSend
    BY <1>3 DEF NothingToSend, EventsDrained
  <1>4. CASE NothingReleased
    BY <1>4 DEF NothingReleased
  <1>5. CASE ReleaseFails
    BY <1>5 DEF ReleaseFails
  <1>6. CASE SwapReturn
    BY <1>6 DEF SwapReturn
  <1>7. CASE ReallocSurface
    <2>1. TypeOK'
      <3>1. /\ acquireSync' \in [Image -> {None} \union Frame]
            /\ \A i \in Image \ streamImages' : acquireSync'[i] = None
        BY <1>7 DEF ReallocSurface
      <3>2. /\ releasePoint' \in [Image -> Nat]
            /\ acquirePoint' \in [Image -> Nat]
            /\ available' \in [Image -> Nat]
        BY <1>7 DEF ReallocSurface
      <3>3. /\ driver' \in [Image -> {"none", "idle", "presented", "missed", "acquired", "removed"}]
            /\ content' \in [Image -> {None} \union Frame]
        BY <1>7 DEF ReallocSurface
      <3>4. failures' \in 0..MaxFailures
        BY <1>7 DEF ReallocSurface
      <3>5. eglStream' = TRUE \/ eglStream' = FALSE
        BY <1>7, Zenon DEF ReallocSurface
      <3>6. eglStream' \in BOOLEAN
        BY <3>5, Zenon
      <3> QED
        BY <1>7, <3>1, <3>2, <3>3, <3>4, <3>6 DEF ReallocSurface
    <2>2. Places'
      BY <1>7 DEF ReallocSurface
    <2>3. Points'
      BY <1>7 DEF ReallocSurface
    <2> QED
      BY <2>1, <2>2, <2>3
  <1>8. CASE DestroySurface
    <2>1. TypeOK'
      BY <1>8 DEF DestroySurface
    <2>2. Places'
      BY <1>8 DEF DestroySurface
    <2>3. Points'
      BY <1>8 DEF DestroySurface
    <2> QED
      BY <2>1, <2>2, <2>3
  <1>9. CASE Terminated
    BY <1>9 DEF Terminated, vars
  <1>10. ASSUME NEW i \in Image, Produce(i)
         PROVE  (TypeOK /\ Places /\ Points)'
    <2>1. TypeOK'
      BY <1>10 DEF Produce
    <2>2. Places'
      BY <1>10 DEF Produce
    <2>3. Points'
      BY <1>10 DEF Produce
    <2> QED
      BY <2>1, <2>2, <2>3
  <1>11. ASSUME NEW i \in Image, AddSurfaceImage(i)
         PROVE  (TypeOK /\ Places /\ Points)'
    <2>1. TypeOK'
      <3>1. acquiredImages' \subseteq streamImages' /\ releasePending' \subseteq streamImages'
        BY <1>11 DEF AddSurfaceImage
      <3>2. \A j \in Image \ streamImages' : acquireSync'[j] = None
        BY <1>11 DEF AddSurfaceImage
      <3>3. /\ failures' \in 0..MaxFailures
            /\ streamImages' \subseteq Image /\ adds' \subseteq Image
        BY <1>11 DEF AddSurfaceImage
      <3>4. UNCHANGED <<pc, eglStream, acquiredImages, syncVars, driver, content,
                        lastFrame, compVars>>
        BY <1>11 DEF AddSurfaceImage
      <3> QED
        BY <3>1, <3>2, <3>3, <3>4
    <2>2. Places'
      BY <1>11 DEF AddSurfaceImage
    <2>3. Points'
      <3>1. UNCHANGED <<pc, lastFrame, syncPoint, timeline, acquiredImages, content,
                        acquireSync, acquirePoint, driver, releasePending>>
        BY <1>11 DEF AddSurfaceImage
      <3> QED
        BY <3>1
    <2> QED
      BY <2>1, <2>2, <2>3
  <1>12. ASSUME NEW i \in Image, AcquireSurfaceImage(i)
         PROVE  (TypeOK /\ Places /\ Points)'
    <2>1. TypeOK'
      <3>1. acquireSync' \in [Image -> {None} \union Frame]
        <4>1. content[i] \in {None} \union Frame
          BY DEF TypeOK
        <4>2. \/ acquireSync' = [acquireSync EXCEPT ![i] = content[i]]
              \/ acquireSync' = acquireSync
          BY <1>12 DEF AcquireSurfaceImage
        <4>3. acquireSync \in [Image -> {None} \union Frame]
          BY DEF TypeOK
        <4> HIDE DEF TypeOK, IInv
        <4> QED
          BY <4>1, <4>2, <4>3
      <3>4. /\ \A j \in Image \ streamImages' : acquireSync'[j] = None
            /\ acquiredImages' \subseteq streamImages'
        <4>1. CASE i \in streamImages
          BY <1>12, <4>1 DEF AcquireSurfaceImage
        <4>2. CASE i \notin streamImages
          BY <1>12, <4>2 DEF AcquireSurfaceImage
        <4> QED
          BY <4>1, <4>2
      <3>2. driver' \in [Image -> {"none", "idle", "presented", "missed", "acquired", "removed"}]
        BY <1>12 DEF AcquireSurfaceImage
      <3>3. failures' \in 0..MaxFailures
        BY <1>12 DEF AcquireSurfaceImage
      <3> QED
        BY <1>12, <3>1, <3>2, <3>3, <3>4 DEF AcquireSurfaceImage
    <2>2. Places' /\ (\A j \in acquiredImages' : acquireSync'[j] = content'[j])
      <3>1. UNCHANGED <<streamImages, adds, content, releasePending, available,
                        releasePoint, held>>
        BY <1>12 DEF AcquireSurfaceImage
      <3>2. CASE /\ i \in streamImages
                 /\ driver' = [driver EXCEPT ![i] = "acquired"]
                 /\ acquireSync' = [acquireSync EXCEPT ![i] = content[i]]
                 /\ acquiredImages' = acquiredImages \union {i}
        BY <1>12, <3>1, <3>2 DEF AcquireSurfaceImage
      <3>3. CASE driver' = [driver EXCEPT ![i] = "idle"]
                 /\ UNCHANGED <<acquireSync, acquiredImages>>
        BY <1>12, <3>1, <3>3 DEF AcquireSurfaceImage
      <3> QED
        BY <1>12, <3>2, <3>3 DEF AcquireSurfaceImage
    <2>3. Points'
      <3>1. UNCHANGED <<pc, lastFrame, syncPoint, timeline, content, acquirePoint,
                        releasePending>>
        BY <1>12 DEF AcquireSurfaceImage
      <3> QED
        BY <2>2, <3>1
    <2> QED
      BY <2>1, <2>2, <2>3
  <1>13. ASSUME NEW i \in Image, RemoveSurfaceImage(i)
         PROVE  (TypeOK /\ Places /\ Points)'
    <2>1. TypeOK'
      BY <1>13 DEF RemoveSurfaceImage
    <2>2. Places'
      BY <1>13 DEF RemoveSurfaceImage
    <2>3. Points'
      BY <1>13 DEF RemoveSurfaceImage
    <2> QED
      BY <2>1, <2>2, <2>3
  <1>14. ASSUME NEW i \in Image, SendFails(i)
         PROVE  (TypeOK /\ Places /\ Points)'
    <2>1. TypeOK'
      <3>1. /\ acquireSync' \in [Image -> {None} \union Frame]
            /\ \A j \in Image \ streamImages' : acquireSync'[j] = None
        <4>1. CASE acquireSync' = acquireSync
          BY <1>14, <4>1 DEF SendFails
        <4>2. CASE acquireSync' = [acquireSync EXCEPT ![i] = None]
          BY <1>14, <4>2 DEF SendFails
        <4> QED
          BY <1>14, <4>1, <4>2 DEF SendFails
      <3>2. acquiredImages' \subseteq streamImages' /\ failures' \in 0..MaxFailures
        BY <1>14 DEF SendFails
      <3> QED
        BY <1>14, <3>1, <3>2 DEF SendFails
    <2>2. Places' /\ Points'
      BY <1>14 DEF SendFails
    <2> QED
      BY <2>1, <2>2
  <1>15. ASSUME NEW i \in Image, SendDamageEvent(i)
         PROVE  (TypeOK /\ Places /\ Points)'
    <2>0. syncPoint \in Frame /\ syncPoint <= lastFrame
      BY <1>15 DEF SendDamageEvent
    <2>1. TypeOK'
      <3>1. /\ acquireSync' \in [Image -> {None} \union Frame]
            /\ timeline' \in [Frame -> {None} \union Frame]
        BY <1>15, <2>0 DEF SendDamageEvent
      <3>2. /\ releasePoint' \in [Image -> Nat]
            /\ acquirePoint' \in [Image -> Nat]
        BY <1>15, <2>0 DEF SendDamageEvent
      <3>3. /\ \A j \in Image \ streamImages' : acquireSync'[j] = None
            /\ syncPoint' \in 1..(MaxFrames + 1)
        BY <1>15, <2>0 DEF SendDamageEvent
      <3>4. /\ acquiredImages' \subseteq streamImages'
            /\ releasePending' \subseteq streamImages'
        BY <1>15 DEF SendDamageEvent, Oldest
      <3> QED
        BY <1>15, <3>1, <3>2, <3>3, <3>4 DEF SendDamageEvent
    <2>2. Places'
      BY <1>15 DEF SendDamageEvent, Oldest
    <2>3. Points'
      <3>1. \A j \in releasePending' : acquirePoint'[j] \in 1..(syncPoint' - 1)
        BY <1>15, <2>0 DEF SendDamageEvent
      <3>2. \A j \in releasePending' : timeline'[acquirePoint'[j]] = content'[j]
        BY <1>15, <2>0 DEF SendDamageEvent, Oldest
      <3>3. \A j \in acquiredImages' : acquireSync'[j] = content'[j]
        BY <1>15 DEF SendDamageEvent
      <3> QED
        BY <1>15, <2>0, <3>1, <3>2, <3>3 DEF SendDamageEvent
    <2> QED
      BY <2>1, <2>2, <2>3
  <1>16. ASSUME NEW i \in Image, ReleaseImage(i)
         PROVE  (TypeOK /\ Places /\ Points)'
    <2>1. TypeOK'
      BY <1>16 DEF ReleaseImage, Releasable
    <2>2. Places'
      BY <1>16 DEF ReleaseImage, Releasable
    <2>3. Points'
      BY <1>16 DEF ReleaseImage, Releasable
    <2> QED
      BY <2>1, <2>2, <2>3
  <1>17. ASSUME NEW i \in Image, DriverRemove(i)
         PROVE  (TypeOK /\ Places /\ Points)'
    <2>1. TypeOK'
      BY <1>17 DEF DriverRemove
    <2>2. Places'
      BY <1>17 DEF DriverRemove
    <2>3. Points'
      BY <1>17 DEF DriverRemove
    <2> QED
      BY <2>1, <2>2, <2>3
  <1>18. ASSUME NEW i \in Image, CompositorRelease(i)
         PROVE  (TypeOK /\ Places /\ Points)'
    <2>1. TypeOK'
      BY <1>18 DEF CompositorRelease
    <2>2. Places'
      BY <1>18 DEF CompositorRelease
    <2>3. Points'
      BY <1>18 DEF CompositorRelease
    <2> QED
      BY <2>1, <2>2, <2>3
  <1>19. CASE UNCHANGED vars
    BY <1>19 DEF vars
  <1>20. CASE EventsFail
    BY <1>20 DEF EventsFail
  <1>21. ASSUME NEW i \in Image, AcquireFails(i)
         PROVE  (TypeOK /\ Places /\ Points)'
    <2>1. TypeOK'
      BY <1>21 DEF AcquireFails
    <2>2. Places'
      BY <1>21 DEF AcquireFails
    <2>3. Points'
      BY <1>21 DEF AcquireFails
    <2> QED
      BY <2>1, <2>2, <2>3
  <1> QED
    BY <1>1, <1>2, <1>3, <1>4, <1>5, <1>6, <1>7, <1>8, <1>9, <1>10, <1>11, <1>12,
       <1>13, <1>14, <1>15, <1>16, <1>17, <1>18, <1>19, <1>20, <1>21
       DEF Next, Swap, ReplaceFrame

\* Every step keeps the order of the fences: a frame is sent once, at the next
\* point, and before those rendered after it.
LEMMA StepFences == IInv /\ [Next]_vars => (LastFrame /\ FramesInOrder)'
  <1> SUFFICES ASSUME IInv, [Next]_vars PROVE (LastFrame /\ FramesInOrder)'
    OBVIOUS
  <1>0. /\ timeline \in [Frame -> {None} \union Frame]
        /\ content \in [Image -> {None} \union Frame]
        /\ driver \in [Image -> {"none", "idle", "presented", "missed", "acquired",
                               "removed"}]
        /\ lastFrame \in Nat /\ syncPoint \in Nat
        /\ LastFrame /\ FramesInOrder
    BY DEF IInv, TypeOK
  <1>1. ASSUME UNCHANGED <<timeline, syncPoint, lastFrame>>,
               Waiting' \subseteq Waiting, InStream' \subseteq InStream,
               \A i \in Waiting' : content'[i] = content[i]
        PROVE  (LastFrame /\ FramesInOrder)'
    <2>1. InStream' \subseteq Waiting' /\ InStream \subseteq Waiting
      BY DEF Waiting
    <2> QED
      BY <1>0, <1>1, <2>1 DEF LastFrame, FramesInOrder
  <1>2. CASE \/ SwapBegin \/ SwapFails \/ NothingToSend \/ NothingReleased
             \/ ReleaseFails \/ SwapReturn \/ Terminated \/ EventsFail
             \/ UNCHANGED vars
    BY <1>1, <1>2 DEF SwapBegin, SwapFails, NothingToSend, NothingReleased,
                      ReleaseFails, SwapReturn, Terminated, EventsFail, vars, Waiting
  <1>3. CASE ReallocSurface \/ DestroySurface
    <2>1. acquiredImages' = {}
      BY <1>3 DEF ReallocSurface, DestroySurface, DestroyStreamImages, IInv, TypeOK
    <2>2. InStream' = {} /\ Waiting' = {}
      BY <1>3, <2>1 DEF ReallocSurface, DestroySurface, Waiting
    <2> QED
      BY <1>1, <1>3, <2>2 DEF ReallocSurface, DestroySurface
  <1>4. ASSUME NEW i \in Image, Produce(i) PROVE (LastFrame /\ FramesInOrder)'
    <2>1. i \notin acquiredImages /\ InStream' = {i}
      BY <1>0, <1>4 DEF Produce, IInv, Places
    <2>2. UNCHANGED <<timeline, syncPoint, acquiredImages>>
      BY <1>4 DEF Produce
    <2>3. /\ content' = [content EXCEPT ![i] = lastFrame + 1]
          /\ lastFrame' = lastFrame + 1
      BY <1>4 DEF Produce
    <2>4. acquiredImages \subseteq Image /\ Waiting' = acquiredImages \union {i}
      BY <2>1, <2>2 DEF Waiting, IInv, TypeOK
    <2>5. \A j \in acquiredImages : /\ content'[j] = content[j]
                                  /\ content[j] \in 1..lastFrame
                                  /\ \A p \in Frame : timeline[p] < content[j]
      BY <1>0, <2>1, <2>3, <2>4 DEF LastFrame, Waiting
    <2>6. content'[i] = lastFrame + 1
      BY <1>0, <2>3
    <2>7. \A j, k \in acquiredImages : content'[j] = content'[k] => j = k
      BY <1>0, <2>5 DEF LastFrame, Waiting
    <2>8. \A j, k \in Waiting' : content'[j] = content'[k] => j = k
      BY <1>0, <2>4, <2>5, <2>6, <2>7
    <2>9. \A p \in Frame : timeline'[p] <= lastFrame /\ timeline'[p] \in Nat
      BY <1>0, <2>2 DEF LastFrame
    <2>10. \A j \in Waiting' : /\ content'[j] \in 1..lastFrame'
                              /\ \A p \in Frame : timeline'[p] < content'[j]
      BY <1>0, <2>2, <2>3, <2>4, <2>5, <2>6, <2>9
    <2>11. FramesInOrder'
      BY <1>0, <2>2 DEF FramesInOrder
    <2> HIDE DEF InStream
    <2> QED
      BY <1>0, <2>1, <2>2, <2>3, <2>6, <2>8, <2>9, <2>10, <2>11 DEF LastFrame
  <1>5. ASSUME NEW i \in Image,
               AddSurfaceImage(i) \/ AcquireSurfaceImage(i) \/ ReleaseImage(i)
                 \/ DriverRemove(i) \/ CompositorRelease(i) \/ SendFails(i)
                 \/ AcquireFails(i)
        PROVE  (LastFrame /\ FramesInOrder)'
    <2>1. Waiting' \subseteq Waiting /\ InStream' \subseteq InStream
      BY <1>0, <1>5 DEF AddSurfaceImage, AcquireSurfaceImage, ReleaseImage, Waiting,
         DriverRemove, CompositorRelease, SendFails, AcquireFails
    <2>2. UNCHANGED <<timeline, syncPoint, lastFrame, content>>
      BY <1>5 DEF AddSurfaceImage, AcquireSurfaceImage, ReleaseImage, Waiting,
         DriverRemove, CompositorRelease, SendFails, AcquireFails
    <2> QED
      BY <1>1, <2>1, <2>2
  <1>6. ASSUME NEW i \in Image, RemoveSurfaceImage(i)
        PROVE  (LastFrame /\ FramesInOrder)'
    <2>1. acquiredImages' = acquiredImages \ {i}
      BY <1>6 DEF RemoveSurfaceImage, DestroyStreamImages, IInv, TypeOK
    <2>2. /\ driver' = [driver EXCEPT ![i] = "none"]
          /\ content' = [content EXCEPT ![i] = None]
          /\ UNCHANGED <<timeline, syncPoint, lastFrame>>
      BY <1>6 DEF RemoveSurfaceImage
    <2>3. InStream' \subseteq InStream \ {i} /\ Waiting' \subseteq Waiting \ {i}
      BY <1>0, <2>1, <2>2 DEF Waiting
    <2>4. Waiting \subseteq Image
      BY DEF Waiting, IInv, TypeOK
    <2> QED
      BY <1>0, <1>1, <2>2, <2>3, <2>4
  <1>7. ASSUME NEW i \in Image, SendDamageEvent(i)
        PROVE  (LastFrame /\ FramesInOrder)'
    <2>1. /\ i \in Waiting /\ acquiredImages' = acquiredImages \ {i}
          /\ InStream' = InStream /\ Waiting \subseteq Image
          /\ UNCHANGED <<content, lastFrame>>
      BY <1>7 DEF SendDamageEvent, Oldest, Waiting, IInv, TypeOK
    <2>2. /\ acquireSync[i] = content[i] /\ content[i] \in 1..lastFrame
          /\ \A p \in Frame : timeline[p] < content[i]
      BY <1>0, <1>7, <2>1 DEF SendDamageEvent, Oldest, IInv, Points, LastFrame
    <2>3. syncPoint \in Frame
      BY <1>7 DEF SendDamageEvent, IInv, Points, TypeOK
    <2>4. /\ timeline' = [timeline EXCEPT ![syncPoint] = content[i]]
          /\ syncPoint' = syncPoint + 1
      BY <1>7, <2>2 DEF SendDamageEvent
    <2>5. i \notin InStream
      BY <1>7 DEF SendDamageEvent, Oldest, IInv, Places
    <2>6. Waiting' = Waiting \ {i}
      BY <2>1, <2>5 DEF Waiting
    <2>7. \A j \in Waiting' : content[i] < content[j]
      <3>1. \A j \in acquiredImages : content[i] <= content[j]
        BY <1>7 DEF SendDamageEvent, Oldest
      <3>2. \A j \in InStream : content[i] <= content[j]
        BY <1>0, <2>2 DEF LastFrame
      <3>3. \A j \in Waiting : content[j] \in Nat /\ (content[i] = content[j] => i = j)
        BY <1>0, <2>1 DEF LastFrame
      <3> QED
        BY <2>2, <2>6, <3>1, <3>2, <3>3 DEF Waiting
    <2>8. LastFrame'
      <3> HIDE DEF InStream
      <3>1. /\ \A p \in Frame : timeline'[p] <= lastFrame'
            /\ \A p \in Frame : timeline'[p] # None <=> p < syncPoint'
        BY <1>0, <2>1, <2>2, <2>3, <2>4 DEF LastFrame
      <3>2. \A j \in Waiting' : /\ content'[j] \in 1..lastFrame'
                               /\ \A p \in Frame : timeline'[p] < content'[j]
        BY <1>0, <2>1, <2>2, <2>3, <2>4, <2>6, <2>7 DEF LastFrame
      <3>3. /\ \A j \in InStream' : content'[j] = lastFrame'
            /\ \A j, k \in Waiting' : content'[j] = content'[k] => j = k
        BY <1>0, <2>1, <2>6 DEF LastFrame
      <3> QED
        BY <3>1, <3>2, <3>3 DEF LastFrame
    <2>9. FramesInOrder'
      BY <1>0, <2>2, <2>3, <2>4 DEF FramesInOrder, LastFrame
    <2> QED
      BY <2>8, <2>9
  <1> QED
    BY <1>2, <1>3, <1>4, <1>5, <1>6, <1>7 DEF Next, Swap, ReplaceFrame

\* Every step keeps the count of the images that are out: a call that fails
\* costs one image at most, and a swap leaves fewer than WaitAt pending.
LEMMA StepCounts == IInv /\ [Next]_vars => Counts'
  <1> SUFFICES ASSUME IInv, [Next]_vars PROVE Counts'
    OBVIOUS
  <1> USE DEF IInv, Counts
  <1> DEFINE Out  == Busy \union releasePending
             Idle == IF pc = "events" /\ InHand # {} THEN 0 ELSE 1
             Past == IF pc \in {"events", "check"} THEN 0 ELSE 1
  <1>0. /\ Out \in SUBSET Image /\ Stuck \in SUBSET Image
        /\ Out' \in SUBSET Image /\ Stuck' \in SUBSET Image
    <2>1. TypeOK /\ TypeOK'
      BY StepShape
    <2> QED
      BY <2>1 DEF Busy, Stuck, TypeOK
  <1>1. /\ Cardinality(Out) \in Nat /\ Cardinality(Stuck) \in Nat
        /\ Cardinality(Out') \in Nat /\ Cardinality(Stuck') \in Nat
        /\ failures \in Nat
        /\ Idle \in {0, 1} /\ Idle' \in {0, 1} /\ Past \in {0, 1} /\ Past' \in {0, 1}
        /\ Cardinality(Stuck) + Idle <= failures + 1
        /\ Cardinality(Out) + Past <= WaitAt + failures
    BY <1>0, Finite DEF TypeOK
  <1>2. ASSUME /\ Cardinality(Stuck') + Idle' <= failures' + 1
               /\ Cardinality(Out') + Past' <= WaitAt + failures'
        PROVE  Counts'
    BY <1>2
  <1> HIDE DEF Idle, Past, Out, Counts
  \* Neither set grows, and a failure stands for the frame given up, if any.
  <1>3. ASSUME Stuck' \subseteq Stuck, Out' \subseteq Out, Past' <= Past,
               \/ failures' = failures /\ Idle' <= Idle
               \/ failures' = failures + 1
        PROVE  Counts'
    <2>1. Cardinality(Stuck') <= Cardinality(Stuck) /\ Cardinality(Out') <= Cardinality(Out)
      BY <1>0, <1>3, Smaller, Zenon
    <2> QED
      BY <1>1, <1>2, <1>3, <2>1
  \* The frame in hand is settled.
  <1>4. ASSUME NEW i \in Stuck, Stuck' \subseteq Stuck \ {i}, Out' \subseteq Out,
               Past' <= Past, failures' = failures \/ failures' = failures + 1
        PROVE  Counts'
    <2>1. Cardinality(Out') <= Cardinality(Out)
      BY <1>0, <1>4, Smaller, Zenon
    <2>2. /\ Stuck \ {i} \in SUBSET Image /\ Cardinality(Stuck \ {i}) \in Nat
          /\ Cardinality(Stuck \ {i}) = Cardinality(Stuck) - 1
      BY <1>0, OneLess, Finite
    <2>3. Cardinality(Stuck') <= Cardinality(Stuck \ {i})
      BY <1>4, <2>2, Smaller
    <2> QED
      BY <1>1, <1>2, <1>4, <2>1, <2>2, <2>3
  <1>5. CASE SwapBegin \/ SwapFails \/ SwapReturn \/ Terminated \/ UNCHANGED vars
    <2>1. UNCHANGED <<driver, acquiredImages, releasePending, failures>>
      BY <1>5 DEF SwapBegin, SwapFails, SwapReturn, Terminated, vars
    <2>2. \/ pc' = pc
          \/ pc \notin {"events", "check"} /\ pc' \notin {"events", "check"}
      BY <1>5 DEF SwapBegin, SwapFails, SwapReturn, Terminated, vars
    <2> QED
      BY <1>3, <2>1, <2>2 DEF Busy, Stuck, InHand, Idle, Past, Out
  <1>6. CASE EventsFail
    BY <1>3, <1>6 DEF EventsFail, Busy, Stuck, Past, Out
  <1>7. CASE NothingToSend
    <2>1. InHand = {}
      BY <1>7 DEF NothingToSend, EventsDrained, InHand
    <2>2. UNCHANGED <<driver, acquiredImages, releasePending, failures>>
      BY <1>7 DEF NothingToSend
    <2> QED
      BY <1>3, <1>7, <2>1, <2>2 DEF NothingToSend, Busy, Stuck, Idle, Past, Out
  <1>8. CASE NothingReleased
    <2>1. Out = Stuck \union releasePending
      BY DEF Out, Stuck
    <2>2. /\ releasePending \in SUBSET Image
          /\ IsFiniteSet(Stuck) /\ IsFiniteSet(releasePending)
      BY <1>0, Finite DEF TypeOK
    <2>3. /\ Cardinality(releasePending) \in Nat
          /\ Cardinality(Stuck \intersect releasePending) \in Nat
      BY <1>0, <2>2, Finite
    <2>4. Cardinality(Out) = Cardinality(Stuck) + Cardinality(releasePending)
                               - Cardinality(Stuck \intersect releasePending)
      BY <2>1, <2>2, FS_Union
    <2>5. /\ pc = "check" /\ Cardinality(releasePending) < WaitAt
          /\ UNCHANGED <<driver, releasePending, failures>>
      BY <1>8 DEF NothingReleased
    <2>6. Stuck' = Stuck /\ Out' = Out /\ Idle = 1
      BY <2>5 DEF Stuck, Busy, Out, Idle
    <2>7. Cardinality(Stuck') = Cardinality(Stuck) /\ Cardinality(Out') = Cardinality(Out)
      BY <2>6, Zenon
    <2> QED
      BY <1>1, <1>2, <2>3, <2>4, <2>5, <2>6, <2>7
  <1>9. CASE ReleaseFails
    <2>1. Stuck' = Stuck /\ Out' = Out /\ failures' = failures + 1 /\ Past = 0
      BY <1>9 DEF ReleaseFails, Busy, Stuck, Out, Past
    <2>2. Cardinality(Stuck') = Cardinality(Stuck) /\ Cardinality(Out') = Cardinality(Out)
      BY <2>1, Zenon
    <2> QED
      BY <1>1, <1>2, <2>1, <2>2
  <1>10. CASE ReallocSurface \/ DestroySurface
    <2>1. Stuck' = {} /\ Out' = {}
      BY <1>10 DEF ReallocSurface, DestroySurface, DestroyStreamImages, Stuck, Busy,
         Out, TypeOK
    <2>2. Cardinality(Stuck') = 0 /\ Cardinality(Out') = 0
      BY <2>1, FS_EmptySet, Zenon
    <2>3. failures' = failures \/ failures' = failures + 1
      BY <1>10 DEF ReallocSurface, DestroySurface
    <2>4. failures' \in Nat /\ WaitAt >= 1
      BY <1>1, <2>3
    <2>5. \A f \in Nat, m, n \in {0, 1} : 0 + m <= f + 1 /\ 0 + n <= WaitAt + f
      BY <2>4
    <2>6. /\ 0 + Idle' <= failures' + 1
          /\ 0 + Past' <= WaitAt + failures'
      BY <1>1, <2>4, <2>5, Zenon
    <2> QED
      BY <1>2, <2>2, <2>6, Zenon
  <1>11. ASSUME NEW i \in Image, Produce(i) PROVE Counts'
    <2>1. /\ Stuck' \subseteq Stuck \union {i} /\ Out' \subseteq Out \union {i}
          /\ failures' = failures
      BY <1>11 DEF Produce, Busy, Stuck, Out, TypeOK
    <2>2. i \in InHand' /\ pc = "producing" /\ pc' = "events"
      BY <1>11 DEF Produce, InHand, TypeOK
    <2>3. Idle = 1 /\ Past = 1 /\ Idle' = 0 /\ Past' = 0
      BY <2>2 DEF Idle, Past
    <2>4. /\ Stuck \union {i} \in SUBSET Image /\ Out \union {i} \in SUBSET Image
          /\ Cardinality(Stuck \union {i}) \in Nat /\ Cardinality(Out \union {i}) \in Nat
      BY <1>0, Finite
    <2>5. /\ Cardinality(Stuck') <= Cardinality(Stuck \union {i})
          /\ Cardinality(Out') <= Cardinality(Out \union {i})
      BY <2>1, <2>4, Smaller
    <2>6. /\ Cardinality(Stuck \union {i}) <= Cardinality(Stuck) + 1
          /\ Cardinality(Out \union {i}) <= Cardinality(Out) + 1
      BY <1>0, OneMore
    <2> QED
      BY <1>1, <1>2, <2>1, <2>3, <2>4, <2>5, <2>6
  <1>12. ASSUME NEW i \in Image, AddSurfaceImage(i) PROVE Counts'
    BY <1>3, <1>12 DEF AddSurfaceImage, Busy, Stuck, InHand, Idle, Past, Out
  <1>13. ASSUME NEW i \in Image, AcquireSurfaceImage(i) PROVE Counts'
    <2>1. i \in Stuck /\ pc' = pc
      BY <1>13 DEF AcquireSurfaceImage, Stuck, Busy, Places
    <2>2. CASE driver' = [driver EXCEPT ![i] = "acquired"]
      <3>1. /\ acquiredImages' = acquiredImages \union {i}
            /\ UNCHANGED <<failures, releasePending>>
        BY <1>13, <2>2 DEF AcquireSurfaceImage, TypeOK
      <3>2. InHand' = InHand
        BY <1>13, <2>2, <3>1 DEF AcquireSurfaceImage, InHand, TypeOK
      <3>3. Stuck' = Stuck /\ Out' = Out
        BY <1>13, <2>2, <3>1 DEF AcquireSurfaceImage, Stuck, Busy, Out, TypeOK
      <3> QED
        BY <1>3, <2>1, <3>1, <3>2, <3>3 DEF Idle, Past
    <2>3. CASE driver' = [driver EXCEPT ![i] = "idle"]
      <3>1. Stuck' \subseteq Stuck \ {i} /\ Out' \subseteq Out /\ Past' = Past
        BY <1>13, <2>1, <2>3 DEF AcquireSurfaceImage, Stuck, Busy, Out, Past, TypeOK
      <3>2. failures' = failures \/ failures' = failures + 1
        BY <1>13 DEF AcquireSurfaceImage
      <3> QED
        BY <1>1, <1>4, <2>1, <3>1, <3>2
    <2> QED
      BY <1>13, <2>2, <2>3 DEF AcquireSurfaceImage
  <1>14. ASSUME NEW i \in Image, AcquireFails(i) PROVE Counts'
    BY <1>3, <1>14 DEF AcquireFails, Busy, Stuck, Past, Out, TypeOK
  <1>15. ASSUME NEW i \in Image, RemoveSurfaceImage(i) PROVE Counts'
    <2>1. /\ driver[i] = "removed" /\ driver' = [driver EXCEPT ![i] = "none"]
          /\ acquiredImages' = acquiredImages \ {i}
          /\ releasePending' = releasePending \ {i}
          /\ UNCHANGED <<pc, failures>>
      BY <1>15 DEF RemoveSurfaceImage, DestroyStreamImages, TypeOK
    <2>2. Stuck' \subseteq Stuck /\ Out' \subseteq Out /\ InHand' = InHand
      BY <2>1 DEF Stuck, Busy, Out, InHand, TypeOK
    <2> QED
      BY <1>3, <2>1, <2>2 DEF Idle, Past
  <1>16. ASSUME NEW i \in Image, SendFails(i) PROVE Counts'
    BY <1>3, <1>16 DEF SendFails, Busy, Stuck, Past, Out
  <1>17. ASSUME NEW i \in Image, SendDamageEvent(i) PROVE Counts'
    <2>1. driver[i] = "acquired" /\ i \notin releasePending
      BY <1>17 DEF SendDamageEvent, EventsDrained, Oldest, Places, TypeOK
    <2>2. i \in Stuck /\ Stuck' \subseteq Stuck \ {i} /\ Out' \subseteq Out
      BY <1>17, <2>1 DEF SendDamageEvent, Stuck, Busy, Out
    <2> QED
      BY <1>4, <1>17, <2>2 DEF SendDamageEvent, Past
  <1>18. ASSUME NEW i \in Image, ReleaseImage(i) PROVE Counts'
    <2>1. /\ i \in releasePending /\ driver[i] \in {"acquired", "removed"}
          /\ releasePending' = releasePending \ {i}
          /\ driver' = [driver EXCEPT ![i] = IF @ = "acquired" THEN "idle" ELSE @]
          /\ pc = "check" /\ pc' = "swapped" /\ failures' = failures
      BY <1>18 DEF ReleaseImage, Releasable, Places, TypeOK
    <2>2. Stuck' \subseteq Stuck /\ Out' \subseteq Out \ {i} /\ i \in Out
      BY <2>1 DEF Stuck, Busy, Out, TypeOK
    <2>3. /\ Out \ {i} \in SUBSET Image /\ Cardinality(Out \ {i}) \in Nat
          /\ Cardinality(Out \ {i}) = Cardinality(Out) - 1
      BY <1>0, <2>2, OneLess, Finite
    <2>4. /\ Cardinality(Out') <= Cardinality(Out \ {i})
          /\ Cardinality(Stuck') <= Cardinality(Stuck)
      BY <1>0, <2>2, <2>3, Smaller
    <2>5. Idle = 1 /\ Idle' = 1 /\ Past = 0
      BY <2>1 DEF Idle, Past
    <2> QED
      BY <1>1, <1>2, <2>1, <2>3, <2>4, <2>5
  <1>19. ASSUME NEW i \in Image, DriverRemove(i) PROVE Counts'
    <2>1. /\ driver[i] \in {"idle", "acquired"}
          /\ driver' = [driver EXCEPT ![i] = "removed"]
          /\ UNCHANGED <<pc, failures, acquiredImages, releasePending>>
      BY <1>19 DEF DriverRemove
    <2>2. CASE i \in InHand
      <3>1. i \in Stuck /\ Stuck' \subseteq Stuck \ {i} /\ Out' \subseteq Out
        BY <2>1, <2>2 DEF InHand, Stuck, Busy, Out, Places, TypeOK
      <3> QED
        BY <1>1, <1>4, <2>1, <3>1 DEF Past
    <2>3. CASE i \notin InHand
      <3>1. InHand' = InHand /\ Stuck' \subseteq Stuck /\ Out' \subseteq Out
        BY <2>1, <2>3 DEF InHand, Stuck, Busy, Out, TypeOK
      <3> QED
        BY <1>3, <2>1, <3>1 DEF Idle, Past
    <2> QED
      BY <2>2, <2>3
  <1>20. ASSUME NEW i \in Image, CompositorRelease(i) PROVE Counts'
    BY <1>3, <1>20 DEF CompositorRelease, Busy, Stuck, InHand, Idle, Past, Out
  <1> QED
    BY <1>5, <1>6, <1>7, <1>8, <1>9, <1>10, <1>11, <1>12, <1>13, <1>14, <1>15,
       <1>16, <1>17, <1>18, <1>19, <1>20 DEF Next, Swap, ReplaceFrame

-----------------------------------------------------------------------------
\* The inductive invariant of the explicit-sync swapchain holds in every
\* reachable state.
THEOREM Invariance == Spec => []IInv
  <1>1. IInv /\ [Next]_vars => IInv'
    BY StepShape, StepFences, StepCounts DEF IInv
  <1> QED
    BY Initially, <1>1, PTL DEF Spec

\* Every variable keeps its type, and no flag or sync object outlives its image.
THEOREM TypeCorrect == Spec => []TypeOK
  BY Invariance, PTL DEF IInv

\* An image the driver may render into is one whose last use the compositor has
\* fenced, for any number of images, frames and failing calls.
THEOREM DriverGetsReleasedImages == Spec => []ReleasedIdle
  <1>1. IInv => ReleasedIdle
    BY DEF IInv, Places, ReleasedIdle
  <1> QED
    BY <1>1, Invariance, PTL

\* The acquire point of an image the compositor has still carries the fence of
\* the frame in it, and no point gets another fence.
THEOREM FenceKept == Spec => []AcquireFenceKept
  <1>1. IInv => AcquireFenceKept
    <2> SUFFICES ASSUME IInv, NEW i \in held
                 PROVE  /\ acquirePoint[i] \in Frame
                        /\ timeline[acquirePoint[i]] = content[i]
      BY DEF AcquireFenceKept, IInv
    <2>1. /\ i \in releasePending
          /\ acquirePoint[i] \in 1..(syncPoint - 1)
          /\ timeline[acquirePoint[i]] = content[i]
      BY DEF IInv, Places, Points
    <2> QED
      BY <2>1 DEF IInv, TypeOK
  <1> QED
    BY <1>1, Invariance, PTL

\* eglSwapBuffers finds the driver with an image to render into, unless more
\* calls failed than the stream has images to spare.
THEOREM ImageForTheDriver == Spec => []DriverHasImage
  <1>1. IInv => DriverHasImage
    <2> SUFFICES ASSUME IInv, pc = "producing",
                        failures <= Cardinality(Image) - WaitAt
                 PROVE  Image \ Busy # {}
      BY DEF DriverHasImage
    <2>1. Busy \in SUBSET Image /\ Busy \union releasePending \in SUBSET Image
      BY DEF Busy, IInv, TypeOK
    <2>2. /\ Cardinality(Busy \union releasePending) + 1 <= WaitAt + failures
          /\ Cardinality(Busy) <= Cardinality(Busy \union releasePending)
          /\ Cardinality(Busy \union releasePending) \in Nat
      BY <2>1, Smaller, Finite DEF IInv, Counts
    <2>3. /\ Cardinality(Busy) \in Nat /\ Cardinality(Image) \in Nat
          /\ failures \in Nat
      BY <2>1, Finite DEF IInv, TypeOK
    <2>4. Cardinality(Busy) < Cardinality(Image)
      BY <2>2, <2>3
    <2>5. Busy # Image
      BY <2>3, <2>4
    <2> QED
      BY <2>1, <2>5
  <1> QED
    BY <1>1, Invariance, PTL

\* syncPoint is always the first point without a fence, also after a failed import
\* or a reallocation, so that no commit takes away the fence of an earlier one.
THEOREM PointsStay == Spec => PointsKept
  <1>1. ASSUME IInv, [Next]_vars
        PROVE  [\A p \in Frame : timeline[p] # None => timeline'[p] = timeline[p]]_vars
    <2>1. ASSUME NEW i \in Image, SendDamageEvent(i)
          PROVE  \A p \in Frame : timeline[p] # None => timeline'[p] = timeline[p]
      <3>1. \A p \in Frame : timeline[p] # None => p # syncPoint
        BY <1>1 DEF IInv, LastFrame, TypeOK
      <3> QED
        BY <1>1, <2>1, <3>1 DEF IInv, TypeOK, SendDamageEvent
    <2>2. CASE \/ SwapBegin \/ SwapFails \/ NothingToSend \/ NothingReleased
               \/ ReleaseFails \/ SwapReturn \/ ReallocSurface \/ DestroySurface
               \/ Terminated \/ EventsFail
      BY <2>2 DEF EventsFail, SwapBegin, SwapFails, NothingToSend, NothingReleased, ReleaseFails,
         SwapReturn, ReallocSurface, DestroySurface, Terminated, vars
    <2>3. CASE \E i \in Image : \/ Produce(i) \/ AddSurfaceImage(i) \/ AcquireFails(i)
                                \/ AcquireSurfaceImage(i) \/ RemoveSurfaceImage(i)
                                \/ SendFails(i) \/ ReleaseImage(i)
                                \/ DriverRemove(i) \/ CompositorRelease(i)
      BY <2>3 DEF Produce, AddSurfaceImage, AcquireFails, AcquireSurfaceImage, RemoveSurfaceImage,
         SendFails, ReleaseImage, DriverRemove, CompositorRelease
    <2> QED
      BY <1>1, <2>1, <2>2, <2>3, Zenon DEF Next, Swap, ReplaceFrame, vars
  <1> QED
    BY <1>1, Invariance, PTL DEF Spec, PointsKept
=============================================================================
