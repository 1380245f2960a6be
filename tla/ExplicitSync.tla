---------------------------- MODULE ExplicitSync ----------------------------
(***************************************************************************)
(* The image swapchain of a window surface that uses linux-drm-syncobj      *)
(* (wayland-eglsurface.c, surface->wlSyncobjSurf # NULL).                    *)
(*                                                                         *)
(* There is no buffer release thread.  Each commit hands the compositor two *)
(* points: an acquire point on the surface's timeline, at which the client  *)
(* puts the fence of its rendering, and a release point on the image's own  *)
(* timeline, at which the compositor puts the fence of its last use.  The    *)
(* swap itself looks for release points that have a fence and gives those   *)
(* images back to the stream.                                               *)
(*                                                                         *)
(* The application thread holds surface->mutexLock in all of its steps; the *)
(* compositor and the driver's stream are external.  Frames are numbered in *)
(* the order the driver takes them; a fence is the number of its frame.     *)
(* image->attached has no reader here and is left out.  An image is "missed" *)
(* when its event was read but the frame could not be acquired: the frame    *)
(* stays in the stream.                                                      *)
(***************************************************************************)
EXTENDS Naturals, FiniteSets

CONSTANTS
    Image,        \* slots for WlEglStreamImage structures: MAX_IMAGES of them
    NoImage,      \* NULL
    WaitAt,       \* release points pending from which the swap waits: 3
    MaxFrames,    \* bound: frames rendered in a behaviour
    MaxFailures   \* bound: calls that fail in a behaviour

ASSUME ImageAssumption    == IsFiniteSet(Image) /\ NoImage \notin Image
ASSUME WaitAssumption     == WaitAt \in Nat \ {0} /\ WaitAt < Cardinality(Image)
ASSUME FramesAssumption   == MaxFrames \in Nat \ {0}
ASSUME FailuresAssumption == MaxFailures \in Nat

VARIABLES
    pc,             \* where the application thread is
    eglStream,      \* surface->ctx.eglStream # EGL_NO_STREAM_KHR
    streamImages,   \* surface->ctx.streamImages
    acquiredImages, \* surface->ctx.acquiredImages
    acquireSync,    \* image->acquireSync: the frame whose fence it is, or 0
    releasePoint,   \* image->releasePoint
    releasePending, \* images with image->releasePending
    syncPoint,      \* surface->syncPoint
    timeline,       \* the surface's syncobj: the fence at each point, or 0
    driver,         \* what the stream says of each image
    adds,           \* images whose IMAGE_ADD event is not handled yet
    content,        \* the last frame rendered into each image
    lastFrame,      \* frames rendered so far
    acquirePoint,   \* the acquire point of each image's last commit
    available,      \* the highest point of each image's syncobj with a fence
    held,           \* images of whose last commit the compositor owes a fence
    onscreen,       \* the image of the last commit
    failures        \* calls that failed so far

lists      == <<streamImages, acquiredImages>>
syncVars   == <<acquireSync, releasePoint, releasePending, syncPoint, timeline>>
driverVars == <<driver, adds, content, lastFrame>>
compVars   == <<acquirePoint, available, held, onscreen>>
vars == <<pc, eglStream, lists, syncVars, driverVars, compVars, failures>>

Frame == 1..MaxFrames
None  == 0

Init ==
    /\ pc = "idle" /\ eglStream = TRUE
    /\ streamImages = {} /\ acquiredImages = {}
    /\ acquireSync = [i \in Image |-> None]
    /\ releasePoint = [i \in Image |-> 0] /\ releasePending = {}
    /\ syncPoint = 1 /\ timeline = [p \in Frame |-> None]
    /\ driver = [i \in Image |-> "none"] /\ adds = {}
    /\ content = [i \in Image |-> None] /\ lastFrame = 0
    /\ acquirePoint = [i \in Image |-> 0] /\ available = [i \in Image |-> 0]
    /\ held = {} /\ onscreen = NoImage
    /\ failures = 0

\* One more call fails.
Fail == failures < MaxFailures /\ failures' = failures + 1

Goto(to) ==
    pc' = to /\ UNCHANGED <<eglStream, lists, syncVars, driverVars, compVars>>

\* f with the images of S set to v.
Reset(f, S, v) == [i \in Image |-> IF i \in S THEN v ELSE f[i]]

-----------------------------------------------------------------------------
(* Mutant: a destroyed image is still counted as pending.                     *)
DestroyImagesPending(S) ==
    /\ streamImages' = streamImages \ S
    /\ acquiredImages' = acquiredImages \ S
    /\ acquireSync' = Reset(acquireSync, S, None)
    /\ releasePoint' = Reset(releasePoint, S, 0)
    /\ available' = Reset(available, S, 0)
    /\ acquirePoint' = Reset(acquirePoint, S, 0)
    /\ held' = held \ S
    /\ UNCHANGED releasePending

(* destroy_stream_image: with explicit sync also an image on screen goes, with *)
(* its timeline, its buffer and an acquire sync object that was never sent.    *)
(* What the compositor still owes is owed to nobody.                           *)
DestroyStreamImages(S) ==
    /\ streamImages' = streamImages \ S
    /\ acquiredImages' = acquiredImages \ S
    /\ acquireSync' = Reset(acquireSync, S, None)
    /\ releasePoint' = Reset(releasePoint, S, 0)
    /\ releasePending' = releasePending \ S
    /\ available' = Reset(available, S, 0)
    /\ acquirePoint' = Reset(acquirePoint, S, 0)
    /\ held' = held \ S

-----------------------------------------------------------------------------
(* eglSwapBuffers blocks in the driver until the stream has an image to        *)
(* render the next frame into.                                                *)

SwapBegin ==
    /\ pc = "idle"
    /\ lastFrame < MaxFrames
    /\ Goto("producing") /\ UNCHANGED failures

\* Which free slot a new image gets does not matter: they are all alike.
FreshImage == CHOOSE i \in Image : driver[i] = "none" /\ i \notin streamImages

\* The images with a frame in the stream: one at most.
InStream == {i \in Image : driver[i] \in {"presented", "missed"}}

\* Rendering into an image that came back waits for its release fence.  A frame
\* left in the stream is replaced by the new one.
Produce(i) ==
    /\ pc = "producing" /\ eglStream
    /\ \/ driver[i] = "idle" /\ UNCHANGED adds
       \/ /\ driver[i] = "none" /\ i \notin streamImages
          /\ i = FreshImage
          /\ adds' = adds \union {i}
    /\ driver' = [Reset(driver, InStream, "idle") EXCEPT ![i] = "presented"]
    /\ lastFrame' = lastFrame + 1
    /\ content' = [content EXCEPT ![i] = lastFrame + 1]
    /\ pc' = "events"
    /\ UNCHANGED <<eglStream, lists, syncVars, compVars, failures>>

\* A call that failed has left a frame in the stream.  A mailbox stream takes the
\* next one in its place; a FIFO of one frame never has room for it: this step
\* need not happen.
ReplaceFrame(i) == InStream # {} /\ Produce(i)

\* An earlier reallocation failed: there is no surface to swap.
SwapFails ==
    /\ pc = "producing" /\ ~eglStream
    /\ Goto("swapped") /\ UNCHANGED failures

\* The driver drops an image that is not in the middle of a presentation.
DriverRemove(i) ==
    /\ pc = "events"
    /\ driver[i] \in {"idle", "acquired"}
    /\ driver' = [driver EXCEPT ![i] = "removed"]
    /\ UNCHANGED <<pc, eglStream, lists, syncVars, adds, content, lastFrame,
                   compVars, failures>>

-----------------------------------------------------------------------------
(* wlEglHandleImageStreamEvents waits for ever for the frame's event, then     *)
(* drains the others.                                                         *)

\* queryStreamConsumerEvent fails: wlEglSendDamageEvent returns at once, and what
\* was acquired and what was not read waits for the next eglSwapBuffers.
EventsFail ==
    /\ pc = "events"
    /\ Fail
    /\ Goto("check")

\* init_surface_image makes the image's own release timeline, with no point.
AddSurfaceImage(i) ==
    /\ pc = "events"
    /\ i \in adds
    /\ adds' = adds \ {i}
    /\ \/ streamImages' = streamImages \union {i} /\ UNCHANGED failures
       \/ Fail /\ UNCHANGED streamImages
    /\ UNCHANGED <<pc, eglStream, acquiredImages, syncVars, driver, content,
                   lastFrame, compVars>>

\* createSync or streamAcquireImage fails: the frame stays in the stream.
AcquireFails(i) ==
    /\ pc = "events"
    /\ driver[i] = "presented" /\ i \notin adds
    /\ Fail
    /\ driver' = [driver EXCEPT ![i] = "missed"]
    /\ UNCHANGED <<pc, eglStream, lists, syncVars, adds, content, lastFrame,
                   compVars>>

\* acquire_surface_image.  An image the surface does not know, or that cannot be
\* exported or get a wl_buffer, is released to the stream.
AcquireSurfaceImage(i) ==
    /\ pc = "events"
    /\ driver[i] = "presented" /\ i \notin adds
    /\ \/ /\ i \in streamImages
          /\ driver' = [driver EXCEPT ![i] = "acquired"]
          /\ acquireSync' = [acquireSync EXCEPT ![i] = content[i]]
          /\ acquiredImages' = acquiredImages \union {i}
          /\ UNCHANGED failures
       \/ /\ IF i \in streamImages THEN Fail ELSE UNCHANGED failures
          /\ driver' = [driver EXCEPT ![i] = "idle"]
          /\ UNCHANGED <<acquireSync, acquiredImages>>
    /\ UNCHANGED <<pc, eglStream, streamImages, releasePoint, releasePending,
                   syncPoint, timeline, adds, content, lastFrame, compVars>>

RemoveSurfaceImage(i) ==
    /\ pc = "events"
    /\ driver[i] = "removed" /\ i \notin adds
    /\ driver' = [driver EXCEPT ![i] = "none"]
    /\ content' = [content EXCEPT ![i] = None]
    /\ DestroyStreamImages({i} \intersect streamImages)
    /\ UNCHANGED <<pc, eglStream, syncPoint, timeline, adds, lastFrame, onscreen,
                   failures>>

EventsDrained ==
    adds = {} /\ \A i \in Image : driver[i] \notin {"presented", "removed"}

-----------------------------------------------------------------------------
(* The rest of wlEglSendDamageEvent: pop the oldest acquired image, send its   *)
(* sync points, attach and commit.                                            *)

\* pop_acquired_image takes the head of a list that frames joined in their order.
Oldest(i) ==
    i \in acquiredImages /\ \A j \in acquiredImages : content[i] <= content[j]

NothingToSend ==
    /\ pc = "events" /\ EventsDrained
    /\ acquiredImages = {}
    /\ Goto("check") /\ UNCHANGED failures

\* send_explicit_sync_points fails: nothing is committed, and the image, popped
\* already, is in nobody's list.  The fence may or may not be left in acquireSync.
SendFails(i) ==
    /\ pc = "events" /\ EventsDrained
    /\ Oldest(i)
    /\ Fail
    /\ acquiredImages' = acquiredImages \ {i}
    /\ \/ UNCHANGED acquireSync
       \/ acquireSync' = [acquireSync EXCEPT ![i] = None]
    /\ pc' = "check"
    /\ UNCHANGED <<eglStream, streamImages, releasePoint, releasePending,
                   syncPoint, timeline, driverVars, compVars>>

\* Mutant: the release point of the image's last commit is sent again.
SendSameReleasePoint(i) ==
    /\ pc = "events" /\ EventsDrained
    /\ Oldest(i)
    /\ acquiredImages' = acquiredImages \ {i}
    /\ acquireSync' = [acquireSync EXCEPT ![i] = None]
    /\ timeline' = [timeline EXCEPT ![syncPoint] = acquireSync[i]]
    /\ syncPoint' = syncPoint + 1
    /\ acquirePoint' = [acquirePoint EXCEPT ![i] = syncPoint]
    /\ releasePoint' = [releasePoint EXCEPT ![i] = IF @ = 0 THEN 1 ELSE @]
    /\ releasePending' = releasePending \union {i}
    /\ held' = held \union {i}
    /\ onscreen' = i
    /\ pc' = "check"
    /\ UNCHANGED <<eglStream, streamImages, driverVars, available, failures>>

\* syncobj_import_fd_to_current_point puts the frame's fence at syncPoint; the
\* image gets its next release point.
SendDamageEvent(i) ==
    /\ pc = "events" /\ EventsDrained
    /\ Oldest(i)
    /\ acquiredImages' = acquiredImages \ {i}
    /\ acquireSync' = [acquireSync EXCEPT ![i] = None]
    /\ timeline' = [timeline EXCEPT ![syncPoint] = acquireSync[i]]
    /\ syncPoint' = syncPoint + 1
    /\ acquirePoint' = [acquirePoint EXCEPT ![i] = syncPoint]
    /\ releasePoint' = [releasePoint EXCEPT ![i] = @ + 1]
    /\ releasePending' = releasePending \union {i}
    /\ held' = held \union {i}
    /\ onscreen' = i
    /\ pc' = "check"
    /\ UNCHANGED <<eglStream, streamImages, driverVars, available, failures>>

-----------------------------------------------------------------------------
(* wlEglSurfaceCheckReleasePoints: wait on the release points of the pending   *)
(* images, for ever if there are WaitAt of them, and give one image whose      *)
(* point has a fence back to the stream together with that fence.              *)

Releasable == {i \in releasePending : available[i] >= releasePoint[i]}

\* Mutant: the call never waits.
CheckWithoutWait ==
    /\ pc = "check"
    /\ Releasable = {}
    /\ Goto("swapped") /\ UNCHANGED failures

\* Nothing is pending, or the wait with timeout 0 expires.
NothingReleased ==
    /\ pc = "check"
    /\ Releasable = {}
    /\ Cardinality(releasePending) < WaitAt
    /\ Goto("swapped") /\ UNCHANGED failures

\* An image the stream has dropped meanwhile stays dropped.
ReleaseImage(i) ==
    /\ pc = "check"
    /\ i \in Releasable
    /\ releasePending' = releasePending \ {i}
    /\ driver' = [driver EXCEPT ![i] = IF @ = "acquired" THEN "idle" ELSE @]
    /\ pc' = "swapped"
    /\ UNCHANGED <<eglStream, lists, acquireSync, releasePoint, syncPoint,
                   timeline, adds, content, lastFrame, compVars, failures>>

\* get_release_sync or streamReleaseImage fails: the image stays pending.
ReleaseFails ==
    /\ pc = "check"
    /\ Releasable # {}
    /\ Fail
    /\ Goto("swapped")

SwapReturn ==
    /\ pc = "swapped"
    /\ Goto("idle") /\ UNCHANGED failures

-----------------------------------------------------------------------------
(* wlEglReallocSurface, by a swap or by resize_callback: every image of the    *)
(* old stream is destroyed.  The surface's timeline and syncPoint go on.       *)

\* Mutant: the acquire points of the new context start at 1 again.
ReallocFromOne ==
    /\ pc \in {"idle", "swapped"}
    /\ DestroyStreamImages(streamImages)
    /\ driver' = [i \in Image |-> "none"]
    /\ adds' = {}
    /\ content' = [i \in Image |-> None]
    /\ syncPoint' = 1
    /\ \/ eglStream' = TRUE /\ UNCHANGED failures
       \/ eglStream' = FALSE /\ Fail
    /\ pc' = "idle"
    /\ UNCHANGED <<timeline, lastFrame, onscreen>>

ReallocSurface ==
    /\ pc \in {"idle", "swapped"}
    /\ DestroyStreamImages(streamImages)
    /\ driver' = [i \in Image |-> "none"]
    /\ adds' = {}
    /\ content' = [i \in Image |-> None]
    /\ \/ eglStream' = TRUE /\ UNCHANGED failures
       \/ eglStream' = FALSE /\ Fail
    /\ pc' = "idle"
    /\ UNCHANGED <<syncPoint, timeline, lastFrame, onscreen>>

\* wlEglDestroySurface: no image is left for its last assertion.
DestroySurface ==
    /\ pc = "idle"
    /\ DestroyStreamImages(streamImages)
    /\ driver' = [i \in Image |-> "none"]
    /\ adds' = {}
    /\ content' = [i \in Image |-> None]
    /\ eglStream' = FALSE
    /\ pc' = "freed"
    /\ UNCHANGED <<syncPoint, timeline, lastFrame, onscreen, failures>>

-----------------------------------------------------------------------------
(* The compositor puts a fence at the release point of an image it has stopped *)
(* using; earlier if it works on a copy.                                       *)
CompositorRelease(i) ==
    /\ i \in held
    /\ available' = [available EXCEPT ![i] = releasePoint[i]]
    /\ held' = held \ {i}
    /\ UNCHANGED <<pc, eglStream, lists, syncVars, driverVars, acquirePoint,
                   onscreen, failures>>

Terminated == pc = "freed" /\ UNCHANGED vars

Swap ==
    \/ SwapFails \/ EventsFail \/ NothingToSend \/ NothingReleased \/ ReleaseFails
    \/ SwapReturn
    \/ \E i \in Image : \/ InStream = {} /\ Produce(i)
                        \/ AddSurfaceImage(i)     \/ AcquireFails(i)
                        \/ AcquireSurfaceImage(i) \/ RemoveSurfaceImage(i)
                        \/ SendFails(i) \/ SendDamageEvent(i) \/ ReleaseImage(i)

Next ==
    \/ SwapBegin \/ Swap \/ ReallocSurface \/ DestroySurface \/ Terminated
    \/ \E i \in Image : ReplaceFrame(i) \/ DriverRemove(i) \/ CompositorRelease(i)

Spec == Init /\ [][Next]_vars

\* A call that has begun goes on, and the compositor is done some day with every
\* image that is not the surface's content.
FairSpec ==
    /\ Spec
    /\ WF_vars(Swap)
    /\ \A i \in Image : WF_vars(i # onscreen /\ CompositorRelease(i))

-----------------------------------------------------------------------------
(* Properties                                                                 *)

\* Types; and no flag, list entry or sync object outlives its image.
TypeOK ==
    /\ pc \in {"idle", "producing", "events", "check", "swapped", "freed"}
    /\ eglStream \in BOOLEAN
    /\ streamImages \subseteq Image /\ acquiredImages \subseteq streamImages
    /\ acquireSync \in [Image -> {None} \union Frame]
    /\ releasePoint \in [Image -> Nat] /\ releasePending \subseteq streamImages
    /\ \A i \in Image \ streamImages : acquireSync[i] = None
    /\ syncPoint \in 1..(MaxFrames + 1)
    /\ timeline \in [Frame -> {None} \union Frame]
    /\ driver \in [Image -> {"none", "idle", "presented", "missed", "acquired",
                          "removed"}]
    /\ adds \subseteq Image
    /\ content \in [Image -> {None} \union Frame] /\ lastFrame \in 0..MaxFrames
    /\ acquirePoint \in [Image -> Nat] /\ available \in [Image -> Nat]
    /\ held \subseteq Image /\ onscreen \in Image \union {NoImage}
    /\ failures \in 0..MaxFailures

\* The driver never has an image, to render into, of whose last use the
\* compositor has not given the fence: a release point that has a fence is
\* always the one of the last commit (release points rise, and each image has a
\* timeline of its own).
ReleasedIdle ==
    \A i \in Image : driver[i] = "idle" \/ i \in InStream => i \notin held

\* The surface's timeline has the fences of its frames in their order, each at
\* one point.
FramesInOrder ==
    \A p, q \in Frame :
        p < q /\ timeline[q] # None => timeline[p] \in 1..(timeline[q] - 1)

\* While the compositor has an image, the acquire point it was committed with
\* carries the fence of the frame that is in it; and also points whose image a
\* reallocation has destroyed keep their fence, as the compositor may wait for
\* them still: no later import, failed or not, overwrites a point already sent.
AcquireFenceKept ==
    /\ FramesInOrder
    /\ \A i \in held : /\ acquirePoint[i] \in Frame
                       /\ timeline[acquirePoint[i]] = content[i]

\* A point of the surface's timeline that a commit has sent is never sent again,
\* whatever call fails and however often the context is made anew: the compositor
\* may still wait for that point on behalf of an image that is long destroyed.
PointsKept ==
    [][\A p \in Frame : timeline[p] # None => timeline'[p] = timeline[p]]_vars

\* The images the driver cannot render into.
Busy == InStream \union {i \in Image : driver[i] = "acquired"}

\* "the streams internal code expects to have at least one buffer placed back":
\* when eglSwapBuffers asks the driver for an image there is one, as long as no
\* more calls failed than there are images beyond WaitAt.  A failed send loses
\* its image, a failed release delays one, and a failed query or acquisition
\* leaves one behind, acquired or in the stream; a swap waits when, of the
\* others, WaitAt are pending.
DriverHasImage ==
    pc = "producing" /\ failures <= Cardinality(Image) - WaitAt
        => Image \ Busy # {}

\* eglSwapBuffers returns, with one call failing on the way: neither the
\* driver's wait for an image nor the wait for release points lasts for ever.
\* That is said of a call that finds the stream settled.  One that finds a frame
\* left in a FIFO stream never returns; one that finds REMOVE events unread has
\* fewer slots in Image than the driver has images.
Settled == \A i \in Image : driver[i] \notin {"presented", "missed", "removed"}

SwapReturns == pc = "producing" /\ Settled ~> pc \in {"idle", "freed"}

-----------------------------------------------------------------------------
(* The inductive invariant behind the safety properties.                       *)

\* An image is in one place: the stream's, acquired, or pending; the compositor
\* owes a fence exactly as long as the last release point has none.
Places ==
    /\ \A i \in Image : driver[i] \in {"none", "idle", "presented", "missed"} =>
          i \notin acquiredImages \union releasePending
    /\ \A i \in Image : driver[i] = "none" => i \notin streamImages \union adds
    /\ adds \intersect streamImages = {}
    /\ \A i \in adds : driver[i] \in {"idle", "presented", "removed"}
    /\ acquiredImages \intersect releasePending = {}
    /\ \A i \in Image : available[i] <= releasePoint[i]
    /\ held = {i \in releasePending : available[i] < releasePoint[i]}

\* Points are sent in order, at most one per frame.
Points ==
    /\ pc = "producing" => lastFrame < MaxFrames
    /\ syncPoint <= (IF pc = "events" THEN lastFrame ELSE lastFrame + 1)
    /\ \A i \in acquiredImages : acquireSync[i] = content[i]
    /\ \A i \in releasePending : acquirePoint[i] \in 1..(syncPoint - 1)
    /\ \A i \in releasePending : timeline[acquirePoint[i]] = content[i]

\* The images with a frame that is yet to be committed.
Waiting == InStream \union acquiredImages

\* The frames that wait are all different and later than those sent; the one in
\* the stream, if any, is the last.
LastFrame ==
    /\ \A p \in Frame : timeline[p] <= lastFrame
    /\ \A p \in Frame : timeline[p] # None <=> p < syncPoint
    /\ \A i \in Waiting : /\ content[i] \in 1..lastFrame
                          /\ \A p \in Frame : timeline[p] < content[i]
    /\ \A i \in InStream : content[i] = lastFrame
    /\ \A i, j \in Waiting : content[i] = content[j] => i = j

\* The driver's images that no release point will bring back: acquired and not
\* sent, left in the stream, or popped by a failed send.
Stuck == Busy \ releasePending

\* Those of them that the swap in progress may still commit.
InHand == {i \in Image : \/ driver[i] = "presented"
                         \/ driver[i] = "acquired" /\ i \in acquiredImages}

\* How many images can be out: each failure costs one at most.
Counts ==
    /\ Cardinality(Stuck) + (IF pc = "events" /\ InHand # {} THEN 0 ELSE 1)
          <= failures + 1
    /\ Cardinality(Busy \union releasePending)
          + (IF pc \in {"events", "check"} THEN 0 ELSE 1) <= WaitAt + failures

IInv ==
    /\ TypeOK /\ Places /\ Points
    /\ LastFrame /\ FramesInOrder /\ Counts
=============================================================================
