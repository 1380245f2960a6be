---------------------------- MODULE StreamImages ----------------------------
(***************************************************************************)
(* The image swapchain of one window surface that uses a local EGLStream    *)
(* with an EGLImage consumer and implicit sync (wayland-eglsurface.c).      *)
(*                                                                         *)
(* Four actors: the application thread (eglSwapBuffers, a reallocation of   *)
(* the surface, eglDestroySurface, all under surface->mutexLock), the       *)
(* buffer release thread of the surface, the compositor and the driver's    *)
(* stream.  The last two are external.                                      *)
(*                                                                         *)
(* Lists whose order no code looks at (ctx.streamImages) are sets.  So is   *)
(* the FIFO ctx.acquiredImages, from which any element may be popped: the   *)
(* order of frames is the subject of ExplicitSync.                          *)
(*                                                                         *)
(* Pending stream events are read off the driver's state: ADD for the       *)
(* images of `adds', AVAILABLE for the presented ones, REMOVE for the       *)
(* removed ones; one image's events keep their order, those of two images   *)
(* may be handled in any order.  An image is "missed" when its AVAILABLE    *)
(* event was read but streamAcquireImage failed: its frame stays in the     *)
(* stream.  An AVAILABLE event left over from a frame that was replaced     *)
(* finds nothing to acquire and has no effect.                              *)
(***************************************************************************)
EXTENDS Naturals, FiniteSets

CONSTANTS
    Image,        \* slots for WlEglStreamImage structures
    NoImage,      \* NULL
    MaxStreams,   \* bound: streams created during a behaviour
    MayFail       \* may the creation of an image, a buffer or a stream, the
                  \* query of an event or the acquisition of a frame fail?

ASSUME ImageAssumption   == NoImage \notin Image
ASSUME StreamAssumption  == MaxStreams \in Nat \ {0}
ASSUME FailAssumption    == MayFail \in BOOLEAN

VARIABLES
    pc,             \* where the application thread is
    next,           \* where it goes when destroy_surface_context returns
    eglStream,      \* surface->ctx.eglStream
    oldStream,      \* local `stream' of destroy_surface_context
    lastStream,     \* streams created so far
    streamImages,   \* surface->ctx.streamImages: the allocated images
    acquiredImages, \* surface->ctx.acquiredImages
    currentBuffer,  \* surface->ctx.currentBuffer
    buffer,         \* images whose image->buffer is not NULL
    attached,       \* images with image->attached
    pending,        \* images with image->destructionPending
    home,           \* the stream each image was created from
    driver,         \* what the stream says of each image
    adds,           \* images whose IMAGE_ADD event is not handled yet
    queueLive,      \* surface->wlBufferEventQueue # NULL
    terminate,      \* TERMINATE is in the release thread's pipe
    released,       \* wl_buffer.release events in wlBufferEventQueue
    relPc,          \* where the buffer release thread is
    relImage,       \* the image of the release event it is handling
    relStream,      \* the stream handle it has read
    held,           \* buffers the compositor has not released
    onscreen,       \* the last buffer committed
    orphaned        \* images whose buffer's event queue was destroyed

ctxVars    == <<next, eglStream, oldStream, lastStream>>
appVars    == <<pc, ctxVars>>
imageVars  == <<streamImages, acquiredImages, currentBuffer, buffer, attached,
                pending, home>>
driverVars == <<driver, adds>>
relVars    == <<relPc, relImage, relStream>>
queueVars  == <<queueLive, terminate, released, orphaned>>
compVars   == <<held, onscreen>>
vars == <<appVars, imageVars, driverVars, relVars, queueVars, compVars>>

NoStream == 0
Stream   == 1..MaxStreams

AppPc == {"idle", "producing", "events", "swapped", "destroyStream",
          "destroyImages", "create", "createProducer", "finishThread", "join",
          "destroyBuffers", "destroyRest", "assertEmpty", "freed"}

\* A step of the application thread that changes nothing but its place.
Goto(to) ==
    pc' = to /\ UNCHANGED <<ctxVars, imageVars, driverVars, relVars, queueVars,
                            compVars>>

\* streamImagesMutex: the application's critical sections are single steps, the
\* release callback's is the interval in which relPc = "release".
MutexFree == relPc # "release"

Init ==
    /\ pc = "idle" /\ next = "create"
    /\ eglStream = 1 /\ oldStream = NoStream /\ lastStream = 1
    /\ streamImages = {} /\ acquiredImages = {} /\ currentBuffer = NoImage
    /\ buffer = {} /\ attached = {} /\ pending = {}
    /\ home = [i \in Image |-> NoStream]
    /\ driver = [i \in Image |-> "none"] /\ adds = {}
    /\ queueLive = TRUE /\ terminate = FALSE /\ released = {}
    /\ relPc = "dispatch" /\ relImage = NoImage /\ relStream = NoStream
    /\ held = {} /\ onscreen = NoImage /\ orphaned = {}

-----------------------------------------------------------------------------
(* Mutant: attached images are destroyed like the others.                    *)
DestroyAllStreamImages(S, att) ==
    /\ currentBuffer' = IF currentBuffer \in S THEN NoImage ELSE currentBuffer
    /\ pending' = pending \ S
    /\ streamImages' = streamImages \ S
    /\ acquiredImages' = acquiredImages \ S
    /\ buffer' = buffer \ S
    /\ released' = released \ S
    /\ held' = held \ S
    /\ orphaned' = orphaned \ S

(* destroy_stream_image, applied to the images S under streamImagesMutex     *)
(* when the images `att' are attached: an attached image is only marked, the *)
(* others are unlinked, their wl_buffer destroyed, and freed.  Destroying a  *)
(* wl_buffer drops its queued events and the compositor's use of it.         *)
DestroyStreamImages(S, att) ==
    LET gone == S \ att IN
    /\ currentBuffer' = IF currentBuffer \in S THEN NoImage ELSE currentBuffer
    /\ pending' = (pending \union (S \intersect att)) \ gone
    /\ streamImages' = streamImages \ gone
    /\ acquiredImages' = acquiredImages \ gone
    /\ buffer' = buffer \ gone
    /\ released' = released \ gone
    /\ held' = held \ gone
    /\ orphaned' = orphaned \ gone

-----------------------------------------------------------------------------
(* eglSwapBuffers: the driver takes an idle image, or adds one, and queues    *)
(* a frame; with every image in use the call blocks in the driver.            *)

SwapBegin ==
    /\ pc = "idle"
    /\ Goto("producing")

\* The images with a frame in the stream.
InStream == {i \in Image : driver[i] \in {"presented", "missed"}}

\* The driver queues a frame.  One that an earlier call has left in the stream
\* is replaced; with a FIFO (of one frame) the call blocks instead.
QueueFrame(i) ==
    driver' = [j \in Image |-> IF j = i THEN "presented"
                               ELSE IF j \in InStream THEN "idle" ELSE driver[j]]

\* A frame rendered into an image the stream already has.
PresentIdle(i) ==
    /\ pc = "producing"
    /\ eglStream # NoStream
    /\ driver[i] = "idle"
    /\ QueueFrame(i)
    /\ pc' = "events"
    /\ UNCHANGED <<ctxVars, imageVars, adds,
                   relVars, queueVars, compVars>>

\* A frame rendered into a new image: IMAGE_ADD, then IMAGE_AVAILABLE.
PresentNew(i) ==
    /\ pc = "producing"
    /\ eglStream # NoStream
    /\ driver[i] = "none" /\ i \notin streamImages
    /\ QueueFrame(i)
    /\ adds' = adds \union {i}
    /\ home' = [home EXCEPT ![i] = eglStream]
    /\ pc' = "events"
    /\ UNCHANGED <<ctxVars, streamImages,
                   acquiredImages, currentBuffer, buffer, attached, pending,
                   relVars, queueVars, compVars>>

\* eglSwapBuffers(EGL_NO_SURFACE): an earlier reallocation failed.
SwapFails ==
    /\ pc = "producing"
    /\ eglStream = NoStream
    /\ Goto("swapped")

\* The driver drops an image that is not in the middle of a presentation.
DriverRemove(i) ==
    /\ pc = "events"
    /\ driver[i] \in {"idle", "acquired"}
    /\ driver' = [driver EXCEPT ![i] = "removed"]
    /\ UNCHANGED <<appVars, imageVars, adds, relVars, queueVars, compVars>>

-----------------------------------------------------------------------------
(* wlEglHandleImageStreamEvents: drain the stream's events.                   *)

AddSurfaceImage(i) ==
    /\ pc = "events" /\ MutexFree
    /\ i \in adds
    /\ adds' = adds \ {i}
    /\ \/ streamImages' = streamImages \union {i}
       \/ MayFail /\ streamImages' = streamImages
    /\ UNCHANGED <<appVars, acquiredImages, currentBuffer, buffer, attached,
                   pending, home, driver, relVars, queueVars, compVars>>

\* The frame's image goes to acquiredImages, with a wl_buffer made on first use;
\* it goes back to the stream when it is unknown or the buffer cannot be made.
AcquireSurfaceImage(i) ==
    /\ pc = "events" /\ MutexFree
    /\ driver[i] = "presented" /\ i \notin adds
    /\ \/ /\ i \in streamImages
          /\ driver' = [driver EXCEPT ![i] = "acquired"]
          /\ buffer' = buffer \union {i}
          /\ acquiredImages' = acquiredImages \union {i}
       \/ /\ i \notin streamImages \/ (MayFail /\ i \notin buffer)
          /\ driver' = [driver EXCEPT ![i] = "idle"]
          /\ UNCHANGED <<buffer, acquiredImages>>
    /\ UNCHANGED <<appVars, streamImages, currentBuffer, attached, pending,
                   home, adds, relVars, queueVars, compVars>>

\* streamAcquireImage fails: the frame stays in the stream, its event is read.
AcquireFails(i) ==
    /\ pc = "events" /\ MayFail
    /\ driver[i] = "presented" /\ i \notin adds
    /\ driver' = [driver EXCEPT ![i] = "missed"]
    /\ UNCHANGED <<appVars, imageVars, adds, relVars, queueVars, compVars>>

\* Mutant: a removed image is destroyed although the compositor has it.
RemoveAttachedImage(i) ==
    /\ pc = "events" /\ MutexFree
    /\ driver[i] = "removed"
    /\ driver' = [driver EXCEPT ![i] = "none"]
    /\ DestroyStreamImages({i} \intersect streamImages, {})
    /\ attached' = attached \ {i}
    /\ UNCHANGED <<appVars, home, adds, relVars, queueLive, terminate, onscreen>>

RemoveSurfaceImage(i) ==
    /\ pc = "events" /\ MutexFree
    /\ driver[i] = "removed" /\ i \notin adds
    /\ driver' = [driver EXCEPT ![i] = "none"]
    /\ DestroyStreamImages({i} \intersect streamImages, attached)
    /\ UNCHANGED <<appVars, attached, home, adds, relVars, queueLive,
                   terminate, onscreen>>

\* queryStreamConsumerEvent fails, wherever the loop is: nothing is sent, and
\* what was acquired and what was not read waits for the next eglSwapBuffers.
EventsFail ==
    /\ pc = "events" /\ MayFail
    /\ Goto("swapped")

EventsDrained ==
    adds = {} /\ \A i \in Image : driver[i] \notin {"presented", "removed"}

\* Mutant: image->attached is not set.
SendUnattached(i) ==
    /\ pc = "events" /\ EventsDrained
    /\ i \in acquiredImages
    /\ acquiredImages' = acquiredImages \ {i}
    /\ currentBuffer' = i
    /\ held' = held \union {i}
    /\ onscreen' = i
    /\ pc' = "swapped"
    /\ UNCHANGED <<ctxVars, streamImages, attached, buffer, pending, home,
                   driverVars, relVars, queueVars>>

\* Mutant: the image stays in the acquired list.
SendUnpopped(i) ==
    /\ pc = "events" /\ EventsDrained
    /\ i \in acquiredImages
    /\ currentBuffer' = i
    /\ attached' = attached \union {i}
    /\ held' = held \union {i}
    /\ onscreen' = i
    /\ pc' = "swapped"
    /\ UNCHANGED <<ctxVars, streamImages, acquiredImages, buffer, pending, home,
                   driverVars, relVars, queueVars>>

\* wlEglSendDamageEvent: pop an acquired image, attach its buffer and commit.
SendDamageEvent(i) ==
    /\ pc = "events" /\ EventsDrained
    /\ i \in acquiredImages
    /\ acquiredImages' = acquiredImages \ {i}
    /\ currentBuffer' = i
    /\ attached' = attached \union {i}
    /\ held' = held \union {i}
    /\ onscreen' = i
    /\ pc' = "swapped"
    /\ UNCHANGED <<ctxVars, streamImages,
                   buffer, pending, home, driverVars, relVars, queueVars>>

NothingToSend ==
    /\ pc = "events" /\ EventsDrained
    /\ acquiredImages = {}
    /\ Goto("swapped")

SwapReturn ==
    /\ pc = "swapped"
    /\ Goto("idle")

-----------------------------------------------------------------------------
(* destroy_surface_context: forget the stream, destroy it, then destroy or    *)
(* mark the images under the mutex; the caller continues at `to'.             *)

DestroySurfaceContext(to) ==
    /\ oldStream' = eglStream
    /\ eglStream' = NoStream
    /\ next' = to
    /\ pc' = "destroyStream"
    /\ UNCHANGED <<lastStream, imageVars, driverVars, relVars, queueVars,
                   compVars>>

DestroyStream ==
    /\ pc = "destroyStream"
    /\ driver' = [i \in Image |-> "none"]
    /\ adds' = {}
    /\ oldStream' = NoStream
    /\ pc' = "destroyImages"
    /\ UNCHANGED <<next, eglStream, lastStream, imageVars, relVars, queueVars,
                   compVars>>

\* Mutant: the images the compositor has are left out.
DestroyIdleImages ==
    /\ pc = "destroyImages" /\ MutexFree
    /\ DestroyStreamImages(streamImages \ attached, attached)
    /\ pc' = next
    /\ UNCHANGED <<ctxVars, attached, home,
                   driverVars, relVars, queueLive, terminate, onscreen>>

\* Mutant: every image waits for its release, attached or not.
DestroyImagesLater ==
    /\ pc = "destroyImages" /\ MutexFree
    /\ DestroyStreamImages(streamImages, streamImages)
    /\ pc' = next
    /\ UNCHANGED <<ctxVars, attached, home,
                   driverVars, relVars, queueLive, terminate, onscreen>>

DestroyImages ==
    /\ pc = "destroyImages" /\ MutexFree
    /\ DestroyStreamImages(streamImages, attached)
    /\ pc' = next
    /\ UNCHANGED <<ctxVars, attached, home,
                   driverVars, relVars, queueLive, terminate, onscreen>>

-----------------------------------------------------------------------------
(* wlEglReallocSurface, from resize_callback or at the end of a swap, and     *)
(* create_surface_context.                                                    *)

ReallocSurface ==
    /\ pc \in {"idle", "swapped"}
    /\ lastStream < MaxStreams
    /\ DestroySurfaceContext("create")

\* create_surface_stream_local: a new stream, an empty acquired list, and the
\* queue and release thread when the surface has none.
CreateStream ==
    /\ pc = "create"
    /\ lastStream' = lastStream + 1
    /\ eglStream' = lastStream + 1
    /\ acquiredImages' = {}
    /\ queueLive' = TRUE
    /\ relPc' = IF queueLive THEN relPc ELSE "dispatch"
    /\ pc' = "createProducer"
    /\ UNCHANGED <<next, oldStream, streamImages, currentBuffer, buffer,
                   attached, pending, home, driverVars, relImage, relStream,
                   terminate, released, orphaned, compVars>>

CreateProducer ==
    /\ pc = "createProducer"
    /\ Goto("idle")

\* Either creation fails: destroy what there is, stop the release thread.
CreateFails ==
    /\ MayFail
    /\ pc \in {"create", "createProducer"}
    /\ DestroySurfaceContext("finishThread")

-----------------------------------------------------------------------------
(* finish_wl_buffer_release_thread                                            *)

\* Mutant: the thread is joined without being told to end.
FinishThreadSilently ==
    /\ pc = "finishThread"
    /\ pc' = IF queueLive THEN "join" ELSE "idle"
    /\ UNCHANGED <<ctxVars, imageVars,
                   driverVars, relVars, queueVars, compVars>>

FinishThread ==
    /\ pc = "finishThread"
    /\ terminate' = queueLive
    /\ pc' = IF queueLive THEN "join" ELSE "idle"
    /\ UNCHANGED <<ctxVars, imageVars,
                   driverVars, relVars, queueLive, released, orphaned,
                   compVars>>

JoinThread ==
    /\ pc = "join"
    /\ relPc = "off"
    /\ queueLive' = FALSE
    /\ terminate' = FALSE
    /\ released' = {}
    /\ orphaned' = orphaned \union buffer
    /\ pc' = IF next = "destroyBuffers" THEN "destroyRest" ELSE "idle"
    /\ UNCHANGED <<ctxVars, imageVars,
                   driverVars, relVars, compVars>>

-----------------------------------------------------------------------------
(* wlEglDestroySurface                                                        *)

DestroySurface ==
    /\ pc = "idle"
    /\ DestroySurfaceContext("destroyBuffers")

\* Mutant: image->attached stays set.
DestroyBuffersAttached ==
    /\ pc = "destroyBuffers"
    /\ queueLive /\ MutexFree
    /\ buffer' = {}
    /\ released' = released \ buffer
    /\ held' = held \ buffer
    /\ orphaned' = orphaned \ buffer
    /\ pc' = "finishThread"
    /\ UNCHANGED <<ctxVars, streamImages, attached,
                   acquiredImages, currentBuffer, pending, home, driverVars,
                   relVars, queueLive, terminate, onscreen>>

\* Mutant: the release thread and queue go first.
DestroyQueueFirst ==
    /\ pc = "destroyBuffers"
    /\ pc' = IF queueLive THEN "finishThread" ELSE "assertEmpty"
    /\ UNCHANGED <<ctxVars, imageVars, driverVars, relVars, queueVars, compVars>>

\* Destroy the buffers of the images left, so that no release event comes any
\* more, then stop the thread; without a release thread skip to the assertion.
DestroyBuffers ==
    /\ pc = "destroyBuffers"
    /\ IF queueLive
       THEN /\ MutexFree
            /\ attached' = attached \ buffer
            /\ buffer' = {}
            /\ released' = released \ buffer
            /\ held' = held \ buffer
            /\ orphaned' = orphaned \ buffer
            /\ pc' = "finishThread"
       ELSE /\ pc' = "assertEmpty"
            /\ UNCHANGED <<attached, buffer, released, held, orphaned>>
    /\ UNCHANGED <<ctxVars, streamImages,
                   acquiredImages, currentBuffer, pending, home, driverVars,
                   relVars, queueLive, terminate, onscreen>>

\* Mutant: images that wait for their release are left to the release thread.
DestroyRestNotPending ==
    /\ pc = "destroyRest"
    /\ DestroyStreamImages(streamImages \ pending, attached)
    /\ pc' = "assertEmpty"
    /\ UNCHANGED <<ctxVars, attached, home,
                   driverVars, relVars, queueLive, terminate, onscreen>>

DestroyRest ==
    /\ pc = "destroyRest"
    /\ DestroyStreamImages(streamImages, attached)
    /\ pc' = "assertEmpty"
    /\ UNCHANGED <<ctxVars, attached, home,
                   driverVars, relVars, queueLive, terminate, onscreen>>

\* The assertion on streamImages, then wlEglSurfaceUnref frees the surface.
FreeSurface ==
    /\ pc = "assertEmpty"
    /\ Goto("freed")

-----------------------------------------------------------------------------
(* buffer_release_thread: dispatch one event, that is, dequeue it and then    *)
(* run stream_local_buffer_release_callback under the mutex.                  *)

RelDispatch(i) ==
    /\ relPc = "dispatch"
    /\ i \in released
    /\ released' = released \ {i}
    /\ relImage' = i
    /\ relPc' = "callback"
    /\ UNCHANGED <<appVars, imageVars, driverVars, relStream, queueLive,
                   terminate, orphaned, compVars>>

\* Mutant: an image that was to be destroyed is only detached.
RelDetach ==
    /\ relPc = "callback"
    /\ relImage \in pending
    /\ attached' = attached \ {relImage}
    /\ relPc' = "dispatch" /\ relImage' = NoImage
    /\ UNCHANGED <<appVars, streamImages, acquiredImages, currentBuffer, buffer,
                   pending, home, driverVars, relStream, queueVars, compVars>>

\* The image was to be destroyed: destroy it now.
RelDestroy ==
    /\ relPc = "callback"
    /\ relImage \in pending
    /\ attached' = attached \ {relImage}
    /\ DestroyStreamImages({relImage}, attached \ {relImage})
    /\ relPc' = "dispatch" /\ relImage' = NoImage
    /\ UNCHANGED <<appVars, home, driverVars, relStream, queueLive, terminate,
                   onscreen>>

\* Otherwise take the mutex, clear image->attached and read ctx.eglStream ...
RelCallback ==
    /\ relPc = "callback"
    /\ relImage \notin pending
    /\ attached' = attached \ {relImage}
    /\ relStream' = eglStream
    /\ relPc' = "release"
    /\ UNCHANGED <<appVars, streamImages, acquiredImages, currentBuffer,
                   buffer, pending, home, driverVars, relImage, queueVars,
                   compVars>>

\* Mutant: the image is not given back to the stream.
RelKeep ==
    /\ relPc = "release"
    /\ relPc' = "dispatch" /\ relImage' = NoImage /\ relStream' = NoStream
    /\ UNCHANGED <<appVars, imageVars, driverVars, queueVars, compVars>>

\* ... and give the image back to that stream.  The driver refuses an image
\* that is not this stream's.
RelRelease ==
    /\ relPc = "release"
    /\ driver' = IF driver[relImage] = "acquired" /\ home[relImage] = relStream
                 THEN [driver EXCEPT ![relImage] = "idle"]
                 ELSE driver
    /\ relPc' = "dispatch" /\ relImage' = NoImage /\ relStream' = NoStream
    /\ UNCHANGED <<appVars, imageVars, adds, queueVars, compVars>>

\* The pipe is looked at only when the queue is empty.
RelExit ==
    /\ relPc = "dispatch"
    /\ terminate /\ released = {}
    /\ relPc' = "off"
    /\ UNCHANGED <<appVars, imageVars, driverVars, relImage, relStream,
                   queueVars, compVars>>

-----------------------------------------------------------------------------
(* The compositor sends wl_buffer.release, for a buffer on screen too if it   *)
(* has made a copy.  What libwayland does with an event for a queue that is   *)
(* gone is not modelled.                                                      *)
CompositorRelease(i) ==
    /\ i \in held \ orphaned
    /\ queueLive
    /\ held' = held \ {i}
    /\ released' = released \union {i}
    /\ UNCHANGED <<appVars, imageVars, driverVars, relVars, queueLive,
                   terminate, orphaned, onscreen>>

Terminated == pc = "freed" /\ UNCHANGED vars

-----------------------------------------------------------------------------
Swap ==
    \/ SwapFails \/ EventsFail \/ NothingToSend \/ SwapReturn
    \/ \E i \in Image : \/ PresentIdle(i)         \/ PresentNew(i)
                        \/ AddSurfaceImage(i)     \/ AcquireSurfaceImage(i)
                        \/ AcquireFails(i)
                        \/ RemoveSurfaceImage(i)  \/ SendDamageEvent(i)

Teardown ==
    \/ DestroyStream \/ DestroyImages \/ CreateStream \/ CreateProducer
    \/ CreateFails \/ FinishThread \/ JoinThread \/ DestroyBuffers
    \/ DestroyRest \/ FreeSurface

ReleaseThread ==
    \/ RelDestroy \/ RelCallback \/ RelRelease \/ RelExit
    \/ \E i \in Image : RelDispatch(i)

Next ==
    \/ SwapBegin \/ ReallocSurface \/ DestroySurface
    \/ Swap \/ Teardown \/ ReleaseThread
    \/ \E i \in Image : DriverRemove(i) \/ CompositorRelease(i)
    \/ Terminated

Spec == Init /\ [][Next]_vars

\* A call that has begun goes on, the release thread is scheduled, events of
\* wlBufferEventQueue are dispatched in the order they came (so none is passed
\* over for ever), and the compositor releases every buffer that is no longer
\* the surface's content.
Fairness ==
    /\ WF_vars(Swap) /\ WF_vars(Teardown) /\ WF_vars(ReleaseThread)
    /\ \A i \in Image : SF_vars(RelDispatch(i))
    /\ \A i \in Image : WF_vars(i # onscreen /\ CompositorRelease(i))

FairSpec == Spec /\ Fairness

-----------------------------------------------------------------------------
(* Properties                                                                 *)

\* Every variable keeps its type, and no flag outlives its image.
TypeOK ==
    /\ pc \in AppPc /\ next \in {"create", "finishThread", "destroyBuffers"}
    /\ eglStream \in Stream \union {NoStream}
    /\ oldStream \in Stream \union {NoStream} /\ lastStream \in Stream
    /\ streamImages \subseteq Image
    /\ acquiredImages \subseteq streamImages
    /\ currentBuffer \in Image \union {NoImage}
    /\ buffer \subseteq streamImages /\ attached \subseteq buffer
    /\ pending \subseteq streamImages /\ orphaned \subseteq buffer
    /\ home \in [Image -> Stream \union {NoStream}]
    /\ driver \in [Image -> {"none", "idle", "presented", "missed", "acquired",
                          "removed"}]
    /\ adds \subseteq Image
    /\ queueLive \in BOOLEAN /\ terminate \in BOOLEAN
    /\ released \subseteq Image
    /\ relPc \in {"off", "dispatch", "callback", "release"}
    /\ relImage \in Image \union {NoImage}
    /\ relStream \in Stream \union {NoStream}
    /\ held \subseteq Image /\ onscreen \in Image \union {NoImage}

\* The image a release callback is running for, if any.
InCallback == IF relPc = "callback" THEN {relImage} ELSE {}

\* A release callback never runs on a freed image, on a freed surface or on a
\* queue that is gone: the deferred destruction (destructionPending) and the
\* order of wlEglDestroySurface keep all three alive until it has returned.
CallbackSafe ==
    relPc \in {"callback", "release"} =>
        /\ relImage \in streamImages
        /\ pc # "freed"
        /\ queueLive

\* The release callback reads ctx.eglStream while a reallocation, which writes
\* it without the mutex, may be in progress: the image still goes to no other
\* stream than the one it came from.
ReleasedToItsStream ==
    relPc = "release" => relStream \in {NoStream, home[relImage]}

\* image->attached is exact: set for a buffer lent to the compositor until the
\* callback of its one release event runs (or its queue is lost), else clear.
LoanTracked ==
    /\ held \union released \subseteq attached
    /\ attached \subseteq held \union released \union InCallback \union orphaned
    /\ held \intersect released = {}
    /\ InCallback \intersect (held \union released) = {}

\* An image is in one place: one that waits to be committed or belongs to the
\* driver is not lent to the compositor, nor does it wait for destruction.
OnePlace ==
    LET drivers == {i \in Image : driver[i] = "idle"} \union InStream IN
    /\ acquiredImages \intersect drivers = {}
    /\ (acquiredImages \union drivers)
         \intersect (attached \union pending \union InCallback) = {}

\* While no call fails, acquired images never pile up: each commit leaves the
\* FIFO empty.  (A failing query leaves an image behind, and after it every
\* frame is shown one swap late: EventsFail.)
NoBacklog == Cardinality(acquiredImages) <= 1

\* ctx.currentBuffer never dangles, whoever destroys its image.
CurrentBufferLive == currentBuffer \in buffer \union {NoImage}

\* The assertion of wlEglDestroySurface that each buffer it finds is attached.
BuffersLeftAttached == pc = "destroyBuffers" /\ queueLive => buffer \subseteq attached

\* Its assertion that no image is left once the surface's context is gone.
StreamImagesEmpty == pc \in {"assertEmpty", "freed"} => streamImages = {}

\* "all proxies using the queue must be destroyed first!"
QueueOutlivesProxies == orphaned = {}

\* No image leaves the compositor's hands except by its own release, or because
\* the application destroys the surface (a realloc leaves lent buffers alone).
LentUntilReleased ==
    [][\A i \in held \ held' : i \in released' \/ next = "destroyBuffers"]_vars

\* eglSwapBuffers returns: while it blocks in the driver for a free image, the
\* release thread goes on returning those the compositor is done with.  (For
\* streams of the mailbox kind, or while nothing fails: a frame that a failed
\* call left in a FIFO stream blocks the next call for ever.)
SwapReturns == pc = "producing" ~> pc \notin {"producing", "events"}

\* An image whose destruction was deferred is destroyed once it is off screen.
PendingDestroyed ==
    \A i \in Image : i \in pending /\ i # onscreen ~> i \notin pending \/ i = onscreen

\* eglDestroySurface returns: joining the release thread does not hang.
DestroyReturns == next = "destroyBuffers" ~> pc = "freed"

-----------------------------------------------------------------------------
(* The inductive invariant behind CallbackSafe, ReleasedToItsStream and the   *)
(* assertion on the buffers.                                                  *)

\* The application is between the unlink of its context's stream and the
\* destruction of its images, or in the tail of wlEglDestroySurface.
Detaching == pc \in {"destroyStream", "destroyImages"}
Closing   == next = "destroyBuffers" /\ pc \in {"finishThread", "join", "destroyRest"}

\* The release thread exists exactly as long as its queue, but for its last
\* moments, in which the application waits to join it.
ThreadOwnsQueue ==
    /\ relPc # "off" => queueLive
    /\ relPc = "off" => ~queueLive \/ pc = "join"
    /\ pc = "join" => queueLive /\ terminate
    /\ terminate => pc = "join"
    /\ ~queueLive => released = {}
    /\ pc \in {"destroyRest", "assertEmpty", "freed"} => ~queueLive
    /\ Closing => attached = {} /\ (pc = "finishThread" => queueLive)

\* The image of a release callback is still marked attached when the callback
\* starts, unless wlEglDestroySurface has taken its buffer; once the callback
\* holds the mutex, the image is nowhere else.
CallbackImage ==
    /\ relPc = "callback" => /\ relImage \in streamImages
                             /\ relImage \in attached \/ (Closing /\ relImage \in pending)
    /\ relPc = "release" => /\ relImage \in streamImages
                            /\ relImage \notin attached \union pending \union acquiredImages
                            /\ relStream \in {NoStream, home[relImage]}

\* Images that are not waiting for destruction are the current stream's, and
\* without a stream only lent images that wait for destruction are left.
CurrentImages ==
    /\ acquiredImages \subseteq buffer
    /\ pc = "create" \/ (Detaching /\ next = "create") => lastStream < MaxStreams
    /\ pc \in {"events", "createProducer"} => eglStream # NoStream
    /\ pc \in {"destroyStream", "destroyImages", "create", "finishThread", "join",
               "destroyBuffers", "destroyRest", "assertEmpty", "freed"}
          => eglStream = NoStream
    /\ pc \in {"create", "createProducer"} => next = "create"
    /\ pc \in {"finishThread", "join"} => next # "create"
    /\ pc \in {"idle", "producing", "events", "swapped"} => next # "destroyBuffers"
    /\ pc \in {"destroyBuffers", "destroyRest", "assertEmpty", "freed"}
          => next = "destroyBuffers"
    /\ adds \intersect streamImages = {}
    /\ \A i \in adds : driver[i] \in {"idle", "presented", "removed"}
    /\ pc # "destroyStream" =>
          \A i \in Image : driver[i] # "none" => eglStream # NoStream /\ home[i] = eglStream
    /\ eglStream # NoStream => \A i \in streamImages \ pending : home[i] = eglStream
    /\ eglStream = NoStream /\ ~Detaching =>
          /\ streamImages \subseteq pending
          /\ ~Closing /\ pc \notin {"assertEmpty", "freed"} => streamImages \subseteq attached

IInv ==
    /\ TypeOK /\ LoanTracked /\ OnePlace
    /\ ThreadOwnsQueue /\ CallbackImage /\ CurrentImages

\* What is true besides as long as no creation fails.
CleanInv ==
    /\ next # "finishThread"
    /\ orphaned = {}
    /\ queueLive \/ pc \in {"destroyRest", "assertEmpty", "freed"}
    /\ Closing => buffer = {}
    /\ pc \in {"assertEmpty", "freed"} => streamImages = {}

\* What keeps acquiredImages short when nothing fails: there is a frame under
\* way only while wlEglHandleImageStreamEvents and wlEglSendDamageEvent run, and
\* only one.
OneFrame ==
    LET underWay == acquiredImages \union InStream IN
    /\ \A i \in Image : driver[i] # "missed"
    /\ pc # "events" => underWay = {}
    /\ \A i, j \in underWay : i = j

-----------------------------------------------------------------------------
(* The loan of images that this swapchain implements.                         *)

Owner == [i \in Image |->
            IF i \in held THEN "compositor"
            ELSE IF driver[i] = "idle" \/ i \in InStream THEN "stream"
            ELSE IF i \in streamImages THEN "client" ELSE "none"]

Loan == INSTANCE ImageLoan WITH owner <- Owner, open <- next # "destroyBuffers"

\* Each step of the swapchain is a step of the loan protocol, or none of it.
LoanSafety == Loan!Spec

\* The client settles every image it holds: it shows it, returns or frees it.
LoanSettles == Loan!Settles
=============================================================================
