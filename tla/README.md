# Specification of egl-wayland

TLA+ modules for NVIDIA's EGL external platform for Wayland: the library
`libnvidia-egl-wayland`, which sits between an application, the EGL driver and a
Wayland compositor.  The modules are translated from the C code under `src/src`;
comments in them name the functions, and `PROJECT.json` maps each definition to its
lines.

## 1. Inventory

An application calls EGL; the driver forwards display- and surface-level calls to the
hooks of this library (`wayland-external-exports.c`).  For each `wl_display` the library
keeps a `WlEglDisplay`, for each window a `WlEglSurface`.  A surface has a *context*
(`WlEglSurfaceCtx`): an `EGLStream` into which the driver renders, and an `EGLSurface` that
produces into it.  The consumer end of the stream is either in the compositor (server
streams, `wl_eglstream`) or in the client (local streams), where the library takes
EGLImages out of the stream, wraps them in `wl_buffer`s and commits them itself.

| Component | State | Operations | What is hard | What makes it correct |
|---|---|---|---|---|
| **Local-stream swapchain** (`wayland-eglsurface.c` 458-623, 1061-1653, 2585-2696) | `ctx.streamImages`, `acquiredImages`, `currentBuffer`, per image `buffer`, `attached`, `destructionPending`; the release thread, its pipe and `wlBufferEventQueue` | add/acquire/remove image, commit, `wl_buffer.release` callback, reallocation, destruction, start and stop of the thread | two threads and a compositor; an image may be destroyed while lent; `ctx.eglStream` is written without the mutex; failed reallocation | an image is never reused or freed while the compositor has it; a callback never runs on freed memory; teardown leaves nothing; swaps return |
| **Surface and display lifetime** (`wayland-egldisplay.c`, `-eglsurface.c`, `-eglswap.c`, `-eglhandle.c`) | `wlEglDisplayList`, `refCount`, `initCount`, `wlEglSurfaceList`, `isDestroyed`, three levels of locks | initialize, create, swap, destroy, terminate, unload, getInternalHandle | any interleaving of application threads; locks dropped in the middle of a swap | nothing is used after it is freed, nothing leaks, no lock cycle, every call returns |
| **Frame pacing** (`-eglsurface.c` 109-159, 244-456; `-eglswap.c` 94-171) | `framesProduced/Finished/Processed`, flush and shutdown flags, `damageThreadSync`, `throttleCallback`, `condFrameSync` | swap, damage thread loop, frame callback, flush at a resize, shutdown | lost wakeups, counters read under different locks, exit of the damage thread on errors | one frame ahead, no commit before its pacing, no dropped frame, no hang |
| **Explicit sync** (`-eglsurface.c` 161-242, 1113-1268) | `syncPoint`, `releasePoint`, `releasePending` | send acquire and release points, poll for signalled points | out-of-order release, import failures after the image left the list, unbounded wait | an image goes back to the stream exactly when its point is signalled |
| **Stream creation and server-stream contexts** (`-eglsurface.c` 673-1058, 1757-2099) | `wlStreamResource`, `isAttached`, `oldCtxList` | the fallback local, unix socket, fd, inet; discard and late release of a context | release event before or after the discard; accept thread of the inet handshake | each old context destroyed exactly once |
| **Swap interval** (`-eglswap.c` 77-92, 189-253; `-egldisplay.c` 859-881) | `swapInterval`, `pendingSwapIntervalUpdate` | hook, override event of the compositor | the flag outlives the stream it was set for | requests only for server streams |
| **Presentation feedback** (`-eglswap.c` 256-445; `-eglsurface.c` 2111-2176) | in-flight and landed counters, a private event queue | send, presented/discarded, wait | nested counters, events dispatched by another waiter | counters balance, waits return |
| **Internal (device) display** (`wayland-egldevice.c`) | `initCount` per device | initialize, terminate | shared by displays that lock different mutexes | terminated once, with the last user |
| **dma-buf feedback and PRIME** (`-egldisplay.c` 137-450, 556-800; `-eglsurface.c` 2299-2347) | format tables, tranches, `feedbackDone`, `unprocessedFeedback` | the protocol's events | bursts split over dispatches | tables used only when complete |
| **Device selection** (`-egldisplay.c` 1127-1430) | none afterwards | `eglGetPlatformDisplay` | case analysis | - |
| **Server side: `wl_eglstream_display`** (`wayland-eglstream-server.c`, `wayland-eglstream.c`) | list of bound displays, per stream handle and resource | bind, unbind, create_stream, attach, connect with timeout | handle ownership on error paths, unbind with live resources | each fd closed once, one EGLStream per handle |
| **Server side: `wl_drm`** | none | constant answers | - | - |
| **Hook table, utilities** | constants | lookup | - | - |

How they interact: the swap path (`wlEglSwapBuffersWithDamageHook`) references display and
surface (lifetime), waits for pacing, calls the driver, which blocks until the swapchain
gives it an image, then commits through `wlEglSendDamageEvent`, or leaves that to the
damage thread; a resize or new dma-buf feedback makes it call `wlEglReallocSurface`, which
flushes the damage thread, discards the context and creates a new one.  The release
thread returns images, the compositor drives frame callbacks and releases.  The lock order
is `wlMutex > display->mutex > surface->mutexLock > {mutexFrameSync, streamImagesMutex}`.

`PROJECT.json` lists the hazards of this code, each at its line, with the properties that
cover it or the reason why none does yet.

## 2. Plan

1. `StreamImages`, the swapchain with implicit sync, and `ImageLoan`, what it promises about
   a buffer: *done*, with the inductive invariant and the refinement proved.
2. `SurfaceLifecycle`, lifetime and locks; `SurfaceRealloc`, the same with the callback
   that a reallocation provokes: *done*, safety of the former proved.
3. `DamageThread`, frame pacing: *done*, safety proved.
4. `ExplicitSync`, acquire and release points, the wait for release points, failures between
   pop and commit: *done*, safety proved.
5. `PresentFeedback`, composed with `DamageThread`: *done*, safety and refinement proved.
6. `SurfaceStreams`, the contexts of a surface, the four creation methods and the
   swap-interval update, composed with `ServerStreams`, the compositor's side, and with
   `DmaBufFeedback`, the feedback parser, over the ordered `Connection`: *done*, safety
   proved.
7. `DeviceDisplay`: `initCount` as a non-atomic read-modify-write of two displays, and the
   off-screen surfaces, whose creation relies on it instead of the display's own count.
8. Extensions: the window callbacks in `SurfaceLifecycle`; the override value of the swap
   interval; bind and unbind of `wl_eglstream_display`; an operator-level module for device
   selection.

Every safety invariant of a passing run is a theorem; section 5 gives the arguments.  What
is left to prove: that `SurfaceRealloc` keeps the properties of `SurfaceLifecycle` other than
the lock order; that each `wl_eglstream` of `SurfaceStreams` goes through one abstract life
(named, created, shown, let go, destroyed); and the safety of `DeviceDisplay` once it is
written.  No module of the project declares a RECURSIVE operator, so that each stays open to
proof.

## 3. Modules and the code

### StreamImages, ImageLoan

The actors are the application thread in `pc` (swap, reallocation, teardown; all under
`surface->mutexLock`, hence one thread), the release thread in `relPc`, the compositor
(`held`, `onscreen`) and the driver's stream (`driver`, `adds`).  Image structures are slots
of `Image`; `streamImages` are the allocated ones, `buffer`, `attached` and `pending` are
the three fields of the structure that matter.  `streamImagesMutex` is not a variable: a
critical section of the application is one step whose guard is `MutexFree`, and the
callback's section is the interval in which `relPc = "release"`, because it
reads `ctx.eglStream`, which the application writes outside the mutex.  A callback that has
been dispatched but waits for the mutex is `relPc = "callback"`: that is the interval in which
the application may destroy the image under it.  `destroy_surface_context` is three steps
(`DestroySurfaceContext`, `DestroyStream`, `DestroyImages`) and `wlEglDestroySurface`
six.  `MayFail` lets images, buffers, streams and surfaces fail to be created, and the driver's
calls in `wlEglHandleImageStreamEvents` fail: `EventsFail` is a query that fails anywhere in the
loop, after which `wlEglSendDamageEvent` returns at once, with an acquired image left in
`acquiredImages` and events left unread for the next swap; `AcquireFails` leaves the frame in
the stream (`"missed"`).

`ImageLoan` is the protocol the swapchain promises: an image is free, lent to the
compositor, returned, and only then reused or freed.  `LoanSafety` in `StreamImages`
instantiates it.  `Learn` is its step for an image whose `IMAGE_ADD` event the surface reads
only after a failed query, when the driver may already have rendered into it.

External: the driver's decision which image to use or remove, the compositor's release.
What libwayland does with an event whose queue was destroyed is not modelled (`orphaned`
buffers get no release).

### SurfaceLifecycle, SurfaceRealloc

Each thread runs one entry point at a time, `pc[t]`, with arguments `dpy[t]` and
`surf[t]`.  Surfaces are *addresses*: `parent[s] = None` is freed memory and `CreateSurface`
may reuse it.  A block of code under one lock is a step; taking a lock is a step of its own
whenever the thread holds another one.  `wlEglSwapBuffersWithDamageHook` is the sequence
`SwapRef`, `SwapLock`, `SwapCheck`, `SwapDriver`, `SwapUnlock`, `SwapRelock`, `SwapUnref`.
Unload iterates over the displays with `wlMutex` held (`UnloadNext`, `UnloadDisplay`,
`UnloadDetach`).  `InitRefCounted` says which displays count initializations
(`EGL_KHR_display_reference`).  A call the API forbids (unloading while another thread is
about to enter with a stale display) is safe in the model as in the code, since
`wlEglAcquireDisplay` looks the pointer up; a call that was already waiting for
`display->mutex` when the library was unloaded is not, and `UseAfterUnload` ends the process
(`crashed`): `eglInitialize` dereferences a NULL `devDpy`, the others read freed platform data
on their error paths.  A creation that fails after its structure is allocated leaves it
behind (`abandoned`), because the error path's `wlEglDestroySurface` refuses it.

`driverRefs` is the set of displays counted in `devDpy->initCount`: `eglInitialize` adds its
display, and `InternalTerminate` (`wlInternalTerminate`, the first thing `terminateDisplay`
does, and so the first thing an unload does with every display) takes it out and, with the last
one, terminates the driver's display.  No surface's lock is held at that point, so a swap may be
between `SwapCheck` and `SwapDriver`.  The displays of the model share one device, as all
displays of a process do that are on one GPU.  `DriverRefuses` is a failing `eglTerminate` of
the driver: `eglTerminate` then returns with everything as it was, an unload goes on.

`SurfaceRealloc` extends it with the reallocation at the end of a swap: `eglMakeCurrent`,
called with `surface->mutexLock` held, has the driver resolve the handles through
`wlEglGetInternalHandleExport`.  It is a module of its own because it violates the lock order
that the other properties establish.

### DamageThread

`app` is the thread that holds `surface->mutexLock`, `thread` the damage thread, `frameLock`
the holder of `mutexFrameSync`; the counters and flags carry their names in the code;
`submitted` and `producerFrame` are the driver's: frames taken by `eglSwapBuffers` and
`EGL_PRODUCER_FRAME_KHR`.  `sync` is `damageThreadSync`.  `throttle` follows the frame
callback from the request through the commit to `done`.  `failed` is a history variable, set by
a failing call; the liveness properties and `FlushedBeforeRealloc` speak of behaviours without
such a call.

### ExplicitSync

One application thread (`mutexLock` is held throughout), the driver's stream and the
compositor.  A fence is the number of the frame it belongs to.  `timeline` is the surface's
syncobj, filled at `syncPoint` when a commit imports the fence of the acquired image;
`releasePoint`, `releasePending` and `acquireSync` are the fields of the image of these names;
`available` is how far the image's own release timeline has got.  `check` is
`wlEglSurfaceCheckReleasePoints`: below `WaitAt` pending points it polls (`NothingReleased`),
from there on it has no step until a point has a fence.  Reallocation and teardown go through
`DestroyStreamImages`, which with explicit sync destroys an image whatever the compositor does
with it.  `MaxFailures` counts failed calls of the driver and of `drmSyncobj...`: `EventsFail`
and `AcquireFails` are those of `StreamImages`, where a failed `createSync` (1301-1305) leaves
the frame in the stream as a failed acquisition does; `SendFails` is
`send_explicit_sync_points` after the image was popped, `ReleaseFails` the return of an
image.  `pop_acquired_image` takes the `Oldest`, since a failed query may leave several.
`ReplaceFrame` is a frame that finds one left in the stream: a mailbox stream replaces it, a
FIFO stream need not.  External: which image the driver uses or removes, and when the
compositor puts its fence at a release point.

### PresentFeedback

EXTENDS `DamageThread` and adds to its steps those of the feedback protocol: the swap is cut
into `wlEglPrePresent`, the driver's present and `wlEglPostPresent2` (`RequestFeedback`, then
`PostFrame` and the commit).  `requested`, `committed` and `answered` follow a request from
`wp_presentation.feedback` over the commit that takes it along to the event on
`presentFeedbackQueue`; the two counters keep their names.  `collector` is a thread in
`wlEglWaitAllPresentationFeedbacks`, which keeps `surface->mutexLock` while it dispatches
and so excludes `wlEglPostPresent2` and destruction, but not the damage thread.
`WaitAllFails` and `ProcessFails` are the returns after a dispatch that failed: the presents
that landed stay in `landedPresentFeedbackCount` (`lost`), and the assertion at the head of the
next collecting call ends the process (`aborted`).  A dispatch fails when the connection is
broken, so the compositor answers nothing afterwards.

### Connection, ServerStreams, DmaBufFeedback, SurfaceStreams

`Connection` is what the other three share: `wire`, the requests, and `sent`, the events of
the surface's queue, in order.  `ServerStreams` handles the requests as
`wayland-eglstream-server.c` does; `wlStream[id]` is `struct wl_eglstream` (type, whether
`handle` is not -1, `eglStream`), `fd[id]` what has become of the descriptor, and
`CreateStream` the `EGL_WAYLAND_EGLSTREAM_WL` case of `wlEglCreateStreamAttribHook`.
`DmaBufFeedback` is the
parser, one action per event handler; a burst of events, of one or two tranches, may be cut by
the end of a dispatch anywhere.  A tranche's modifiers are abstracted to the number of the
format table they were looked up in, so that a tranche assembled from two bursts is visible.
`Reading` says where a parser can be: between two bursts, or in the middle of one burst with
exactly the beginning of it applied and exactly its rest on the queue.

`SurfaceStreams` is the client.  `create_surface_context` tries `methods` one after the other
(`CreateStreamLocal`, `CreateStreamFd`, `CreateStreamRemote`; `MethodFails`, `ConnectFails`),
attaches the consumer or commits the stream on its own if there is no controller
(`platform.legacy`), and makes the producer after a round trip.  `ctx`, `old` and `proxies`
are `surface->ctx`, `oldCtxList` and the live `wl_buffer`s.  `DiscardSurfaceContext` and
`WlBufferRelease` are the two ways out of a context; both are atomic, since the locks that
make them so are the subject of other modules.  `broken` is a history variable: the streams
that a failed creation destroyed after a legacy attach had committed them (2042, then 2096).
`Modifiers` and `PrimeState` say what a local stream takes from the feedback.  The accept
thread of the inet handshake is part of `Connect`.

External: the compositor, which creates the consumer's stream on request, or for a
committed `wl_eglstream` that has none, and sends `wl_buffer.release` when the surface gets
other content.  A compositor that released the stream it still shows is outside the model;
the release would be ignored and, unless another one follows, the context would stay on
`oldCtxList` until the surface is destroyed (eglsurface.c:699).

## 4. Runs

| Run | Configuration | Question |
|---|---|---|
| `images_safety` | 3 images, 4 streams, failures, symmetry; 510k states | no callback outlives what it touches, `attached` is exact, the assertion on `attached`, refinement of `ImageLoan` |
| `images_live` | 3 images, 2 streams, no failures, `FairSpec`; 65k states | swaps and destruction return, deferred destructions happen, loans settle, one image at a time is acquired, nothing is left at the end |
| `images_orphans` | 2 images, 2 streams, failures | **violated**: `assert(wl_list_empty(...))`, eglsurface.c:2688 |
| `lifecycle_safety` | 3 threads, 1 reference-counted display (`MaxInit` 2), 2 surface addresses; 783k states | no use after free, what a swap gives the driver exists, exact counts, no lock cycle, no leak after unload, except what failed creations leave |
| `lifecycle_live` | 2 threads, 1 display, 1 surface; `FairSpec` | every call returns |
| `realloc_lock_order` | 2 threads, 1 surface | **violated**: lock cycle between a swap that reallocates and a destroy |
| `frames` | 3 frames per context, with and without damage thread; 9k states | pacing, flush (by a swap or `resize_callback`), no lost wakeup |
| `frames_cond_wait` | the same as `frames` | **violated**: the wait on `condFrameSync` never ends after the damage thread failed |
| `explicit_sync` | 4 images, `WaitAt` 3, 5 frames, 1 failure, `FairSpec`; 769k states | no image rendered into while the compositor uses it, acquire points keep their fences, the driver gets an image, swaps return |
| `present_feedback` | 3 presents, with and without protocol, damage thread and fifo, failures, also of dispatches, `PFairSpec`; 128k states | each present is reported once; without a damage thread the wait for all feedback ends |
| `surface_streams` | 8 platforms, 3 kinds of bursts of which 2 are sent, 6 streams, 2 reallocations besides those for feedback, 2 failures; 1.07M states | contexts live as long as they are shown (but for failed legacy creations) and no longer, a whole burst of feedback is in force after the next swap, descriptors owned once (but for late producers) |
| `inet_accepted` | the same platforms, no failures | **violated**: server.c:164, an inet stream with address and port is refused |

Why the bounds suffice.  Three images give one on screen, one queued and one in the
driver's hands; four streams give a reallocation while images of two older
streams are still lent.  Three threads are what a lock cycle over three levels needs, and
two surface addresses let one be freed and reused while the other is in a swap.
Properties of displays do not relate two of them (each display has its own lock, list and
counts), so one is enough for safety; `wlMutex` is shared but held for list operations and
unload only.  Three frames per context reach every order of the counters, which differ by
at most one (`OneFrameAhead`).  With explicit sync the swap waits from three pending points;
four images are one more, so that a failure can cost one, and five frames
bring each image round at least once.  `Platform`s cover every method, first and
as the fallback of another, with and without a stream controller, and the dma-buf
protocol without feedback (3), with feedback (5) and with sampling flags (6).  Two bursts are
what it takes for one to interfere with the next; two reallocations put two contexts on
`oldCtxList`; two failures let a method and its fallback fail.  `MaxUnhandled` (2) keeps
the client from running ahead of the compositor for ever: a frame is committed only when
fewer requests than that are unhandled.

Four runs do not check deadlock.  In `images_safety` and `images_orphans` a failure may leave
the driver waiting for ever in `eglSwapBuffers`: images orphaned by failed creations use up
the slots of `Image`, and so do images whose REMOVE event a failed query left unread.  The
second holds in `explicit_sync` too, where a frame that a failed call left in a FIFO stream
also blocks the next swap (`ReplaceFrame` is not fair); `SwapReturns` states from which states
a swap returns. In `present_feedback` there are real hangs, and the abort, described below.
In every other run deadlock is checked.

### Fairness

* `StreamImages`: a call that has begun and the release thread are scheduled (weak
  fairness).  `RelDispatch(i)` is strongly fair, as `wl_display_dispatch_queue_pending`
  takes events in order.  The compositor releases a buffer that is no longer the content of
  the surface; it need not release the one on screen.  Failures, removals and the
  application's next call are not fair.
* `SurfaceLifecycle`: threads inside the library run; a mutex that becomes free again and
  again is not withheld for ever (strong fairness on lock steps).  POSIX does not promise
  the latter for the default scheduling; without it no call on a shared lock
  can be said to return.  Starting a call is not fair.
* `DamageThread`: both threads run; the GPU finishes frames; the compositor answers the
  callback of a committed frame, that is, the window is visible.
* `ExplicitSync`: a swap that has begun goes on; the compositor gives the release fence of
  every image that is no longer the surface's content.
* `PresentFeedback`: that of `DamageThread`; a call collecting feedback dispatches what has
  arrived, and the compositor answers the feedback of a commit.
* `SurfaceStreams` has safety properties only.

### Disagreements found

* `images_orphans`: a reallocation that fails after images were lent stops the release thread
  and destroys its queue (`create_surface_context`, fail path).  The lent images are then
  never destroyed: `wlEglDestroySurface` skips the clean-up because
  `wlBufferEventQueue` is NULL, and its assertion fails.
* `realloc_lock_order`: eglswap.c:130 releases the display's lock "so other threads using the
  external platform are allowed to progress", but the reallocation takes it again below the
  surface's lock through `eglMakeCurrent`.  The run relies on the driver resolving handles
  of the external surface in that call, which is what the comment at eglsurface.c:2379
  counts on.
* `frames_cond_wait`: the wait at eglswap.c:115 relies on the damage thread, which ends
  silently on an error.
* `inet_accepted`: `handle_create_stream` compares the mask of all attributes for equality
  (eglstream-server.c:165), but the client adds `y_inverted` to every remote stream
  (eglsurface.c:987).  An inet stream ends the connection with the error "Malformed attributes
  list" (eglstream-server.c:208), though both address and port are set, as the comment at line
  164 and the protocol ask.

The models reach some states that no comment speaks of, and therefore have no run:

* With a damage thread `wlEglWaitAllPresentationFeedbacks` can wait for ever.
  `wlEglPostPresent2` requests the feedback of present *n* when the driver has already taken
  frame *n*; the damage thread does not need `mutexLock`, and on a frame the stream
  already holds it may commit before the request.  The request is then taken along by the
  *next* commit, which the waiting thread, holding `mutexLock`, keeps from happening.  A send
  that fails after the request has the same effect.  Hence `WaitAllReturnsUnthreaded`
  speaks of surfaces without a damage thread in behaviours without failures.
* `pendingSwapIntervalUpdate` outlives the stream it was set for.  When a server stream's
  surface is reallocated to a local one, or the reallocation fails, before the next swap,
  that swap runs into the assertion at eglswap.c:81 (`pc = "aborted"`).
* A producer that connects to a socket stream after the one-second timeout: the stream is
  destroyed with its socket, while `wlStream->handle` still holds it, and the resource closes
  it again. This supposes that a stream owns its socket once created, as the code does
  elsewhere when it sets `handle` to -1.  `HandlesOwned` exempts these streams (`timedOut`).
* When `queryStreamConsumerEvent` fails after the loop has acquired an image
  (eglsurface.c:1625-1631, 262-264), the image waits in `acquiredImages` and the next swap adds
  its own behind it.  `wlEglSendDamageEvent` pops one image per swap: from then on the surface
  shows every frame one swap late, until its context is made anew.  `NoBacklog` is therefore
  checked without failures (`images_live`).
* When `streamAcquireImage` (or, with explicit sync, `createSync`) fails, its event has been
  read and the frame stays in the stream.  A FIFO stream has no room for the next one, and the
  next `eglSwapBuffers` waits for ever in the driver.
* `terminateDisplay` terminates the driver's display (egldisplay.c:918) before it takes the
  lock of any surface: a swap that has passed its check of `isDestroyed` then gives the driver
  handles of a display that is terminated.  `DriverContextLive` says what still holds: the
  context is not destroyed, and the termination returns only after the swap has let the
  surface go.
* After a failed dispatch (eglsurface.c:2124-2129, 2158-2163) `landedPresentFeedbackCount` is
  not reset.  Those presents are not returned, and the next collecting call fails its
  assertion (2120, 2155; `aborted`).  The assertions are taken to be compiled in, as
  everywhere in the models.
* Without `wl_eglstream_controller` the consumer is attached by a commit of the new stream.
  When the producer cannot be created afterwards, the stream is destroyed while the compositor
  shows it or soon will (`broken`); `KeptWhileShown` exempts these.
* A reallocation in the middle of a burst of dma-buf feedback uses the tranches read so far
  (nothing looks at `feedbackDone`).  `FeedbackSettled` says that this does not outlast the
  burst: its `done` makes the next swap look again.  A burst without a sampling tranche leaves
  the PRIME state as it was (2340-2346).
* With explicit sync, two failed sends leave two of four images with nobody.  The driver may
  then wait for ever for an image; `DriverHasImage` states how many failures are survived.

## 5. Proofs

`StreamImages_proofs` proves, for every set of images, any number of streams, with or without
failures of creations, queries and acquisitions (assumptions: `NoImage \notin Image`,
`MaxStreams \in Nat \ {0}`, `MayFail \in BOOLEAN`):

* `Invariance`: `IInv` is inductive.  It strengthens type correctness by five facts:
  `LoanTracked` (`attached` is held, released, in a callback, or orphaned), `OnePlace`,
  `ThreadOwnsQueue` (the release thread lives exactly as long as its queue, except while it is
  being joined), `CallbackImage` (the image of a running callback is allocated and still
  marked attached, and once the callback holds the mutex nobody else has it) and
  `CurrentImages` (images not waiting for destruction belong to the current stream, and where
  in the teardown what is left).  `CallbackSafe` alone is not inductive: a callback is safe
  because its image is attached, so that everybody who destroys images only marks it.
* `TypeCorrect`, `CallbackSafety`, `ReleaseToItsStream`, `Loans`, `AttachedAssertion`: the
  safety properties of `images_safety`, from `IInv`.
* `CleanTeardown`: without failures `StreamImagesEmpty` and `QueueOutlivesProxies`, from
  `CleanInv`, which adds that the queue lives until the teardown and nothing is orphaned.
* `AcquiredAtMostOne`: without failures `NoBacklog`, from `OneFrame`: a frame is under way,
  presented or acquired, only while the swap handles the stream's events, and only one.
* `QueueOutlives`: `QueueOutlivesProxies` on its own.
* `ImplementsLoan`, `Untouched`: every step is a step of `ImageLoan` or stutters, and a lent
  buffer leaves the compositor only by its release or by `eglDestroySurface`.

`DamageThread_proofs` proves, for any `MaxFrames \in Nat \ {0}`, with and without a damage
thread, the safety properties of `frames`, from `IInv` of `DamageThread`: who exists when
(`ThreadState`), how far each counter may lag behind the one before it (`Counting`: a swap
that has waited finds them all equal, so the damage thread is idle while the swapping thread
dispatches the frame callback), when a frame callback may be outstanding (`Pacing`), and why
the thread ends (`Flushing`).

`SurfaceLifecycle_proofs` proves every safety property of `lifecycle_safety`, for any finite
set of threads and any sets of displays and surfaces (assumptions: `Calls \subseteq
EntryPoints`, `None` is none of the other values, `IsFiniteSet(Thread)`, `MaxInit \in Nat \
{0}`), from `IInv`, whose parts build on each other:

* `Control` ties the place of a thread to the entry point it has called, and `LockOwners`
  says who holds which lock from the places alone: a lock is held exactly by the thread that
  is in its critical section.  `NoDeadlock` follows: the holder of a surface's lock waits for
  nothing, that of a display's lock at most for a surface's, that of `wlMutex` for either.
* `SurfaceStates` (an allocated surface is listed, destroyed or abandoned, and whoever
  swaps or destroys it sees it allocated) and `Contexts` (a context outlives the listing of
  its surface only until its destroyer has the surface's lock) give `NoUseAfterFree`, which is
  not inductive alone: that a surface is freed by the last thread that uses it
  (`LastReference`) needs the counts and the locks.
* `DisplayStates` (a display whose `initCount` is 0 has no surface, but while it is being
  terminated; an initialized one is in `driverRefs`) gives `TerminationComplete`.
* `SwapHandlesLive` combines the last two.  The surface of a swap that is in the driver has a
  context, and is listed or has a destroyer.  If it is listed, its display is initialized, and
  so in `driverRefs`, or being terminated.  If not, its destroyer is in `terminateDisplay`, or
  in `eglDestroySurface` under the lock of a display that is initialized.
* `SurfaceCounts` and `DisplayCounts` are equalities with the size of the set of threads
  that hold a reference; `SurfaceRefsKept` and `DisplayRefsKept` show that all but four, and
  all but three, actions leave these sets alone, and the others add or remove one thread
  (`FiniteSetTheorems`).  `UnloadLeaksNothing` follows with `DisplayStates`.

`ExplicitSync_proofs` proves `ReleasedIdle`, `AcquireFenceKept` and `DriverHasImage` for any
finite set of images, any `WaitAt` below their number and any number of frames and failures
(`ImageAssumption`, `WaitAssumption`, `FramesAssumption`, `FailuresAssumption`), from `IInv`:
`Places` (an image is the stream's, acquired or pending, and the compositor owes a fence
exactly while its last release point has none), `Points` (points are sent in order, and an
image that is pending still carries the fence it was committed with), `LastFrame` and
`FramesInOrder` (the fences on the surface's timeline rise, and the frames that wait for their
commit, of which failed queries and acquisitions may leave several, are later and all
different) and `Counts` (each failure costs one image at most, whether it leaves a frame in the
stream, an image acquired or one with nobody, and a swap that returns leaves at most
`WaitAt - 1` of the others out).  `ReleasedIdle` is not inductive:
that a point with a fence is the point of the last commit follows from the equality in
`Places`, which needs every use of an image to remove it from `releasePending` first.

`PointsStay` proves an action property, `PointsKept`: a point of the surface's timeline,
once sent, keeps its fence across failures and reallocations.

`PresentFeedback_proofs` proves, for any number of presents, with and without the protocol, a
damage thread and a fifo:

* `PresentsArePaced`: every step is a step of `DamageThread` or leaves its state alone, so that
  the properties of `frames` hold of Vulkan surfaces too.
* `FeedbackInvariance`, `PresentsReported`: `EveryPresentReported`, from `FeedbackInv`, which
  adds that the feedback of a present is requested, committed and answered in turn and never
  before `wlEglPostPresent2` (`1..Posted`), and that presents land only while a collecting
  call runs, or stay counted after a dispatch has failed.  The counters balance with failed
  dispatches too; that nothing has landed when a call begins holds until the first of them.
  The balance alone is not inductive: `inFlight` stays the size of the union of the three sets
  only because a feedback is in one of them at a time.

`SurfaceStreams_proofs` proves the properties of `surface_streams` for any set of platforms,
any bursts of feedback, any number of streams, reallocations, failures and unhandled
requests (`StreamsAssumption`, `FailuresAssumption`, `BurstsAssumption`, `PlatformsAssumption`),
in two stages.

* `Invariance`, from `IInv`: `Control` (what the surface has at each place of the creation),
  `LegacyAttached` (only without `wlStreamCtl` is a context attached before it has a producer,
  so that only there a stream can be `broken`), `Contexts`, `Handles` and the parser's
  `Parsing`.  `KeptWhileShown` is about what the compositor *will* show, so `Contexts` has to
  speak of the requests on the wire: `Ids` (only names that were given out are used),
  `Existing` (a live `wl_buffer` has its resource, or its creation is on the wire, and before
  its first commit: `CreatedFirst`) and `Showing`, whose core is `Contiguous`: the commits of
  one stream follow one another, so that a stream the compositor lets go is not shown again.
  Without it the release of a reallocated context could come while a commit of it is still
  unhandled.  `TypeCorrect`, `StreamsKept` and `DescriptorsOwned` follow.
* `SettledInvariance`, `FeedbackTaken`: `FeedbackSettled`, from `SettledInv`.  `Reading` says
  that the parser is between two bursts or inside one, has applied exactly the beginning of
  that one, and finds exactly its rest on the queue; `Taken`, that what a
  creation made of the last whole burst is in force until the next.  `Taken` is weaker than
  the property on PRIME, where a burst may leave the old state: `FeedbackSettled` is about
  bursts with a sampling tranche (`Sampled`), of which `Taken` determines it.

They rest on lemmas about operators, in modules of their own.  `Connection_proofs`: sending and
taking keep a queue a queue, and change the set of arguments of one operation by the
message sent or taken.  `DmaBufFeedback_proofs`: what `Burst` returns, that other messages do
not break a burst up, what the first event of the rest of a burst can be, and that its
handler moves the parser on by that event.

Only model-checked: the properties expected to be violated; and all
liveness properties (`SwapReturns`, `PendingDestroyed`, `DestroyReturns`, `LoanSettles`,
`CallsReturn`, `JoinReturns`, `FrameCommitted`, `WaitAllReturnsUnthreaded`), because TLAPS does
not handle fairness and ENABLED.

## 6. Not modelled

`PROJECT.json` gives the reason for each component.  In short: the internal device display
(`wayland-egldevice.c`) is on the plan; device selection is a one-time case analysis over what
compositor and kernel report; `wl_drm`, the hook table and the utilities keep no state.

Left out of modelled components:

* lifetime: the native-window callbacks (`destroy_callback`; `resize_callback` outside
  `StreamImages`, `ExplicitSync` and `DamageThread`), off-screen surfaces, entry points that
  only query;
* swap interval: the value an override event gives `swapInterval`;
* server side: bind and unbind of `wl_eglstream_display`, attribute queries of a stream, and
  running out of memory, where `handle_create_stream` leaks the descriptor it received;
* the refusals of `handle_create_stream` that this client never provokes: `BAD_HANDLE`, as it
  sends the three types the server knows, and the failures of `socket` and `connect` for an inet
  stream, which come after the test of the attributes that no inet request of this client
  passes (`inet_accepted`);
* inet streams: a failed handshake leaves the descriptor of `/dev/null` open or the accept
  thread unjoined (a leak, not a change of any modelled state);
* presentation feedback: the proxies, which the client never destroys, and the timestamps;
* explicit sync: the handle of the surface's timeline, which `wlEglDestroySurface` does
  not destroy;
* a broken connection outside `SurfaceStreams`, which ends the release thread;
* the content of frames: damage rectangles, formats, sizes.
