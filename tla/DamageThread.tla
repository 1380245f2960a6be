---------------------------- MODULE DamageThread ----------------------------
(***************************************************************************)
(* Frame pacing of a window surface: how a frame handed to the driver by    *)
(* eglSwapBuffers becomes a commit of the wl_surface, and what holds back   *)
(* the next one (wayland-eglsurface.c, wayland-eglswap.c).                   *)
(*                                                                         *)
(* Without a damage thread the swapping thread commits the frame itself.    *)
(* With one (FIFO-synchronous streams) the frame is committed by            *)
(* damage_thread once the stream reports that the GPU has finished it, and  *)
(* the next swap waits on condFrameSync for that.  In both cases a frame    *)
(* callback (throttleCallback) paces the commits while swapInterval > 0.    *)
(*                                                                         *)
(* app is the thread that holds surface->mutexLock, which serialises swap,  *)
(* realloc and destroy.  The stream, its sync object and the compositor are  *)
(* external.                                                                *)
(***************************************************************************)
EXTENDS Naturals

CONSTANT MaxFrames   \* bound on the frames of one surface context

ASSUME FramesAssumption == MaxFrames \in Nat \ {0}

VARIABLES
    app,              \* where the thread holding surface->mutexLock is
    useDamageThread,
    thread,           \* where damage_thread is
    frameLock,        \* holder of mutexFrameSync
    framesProduced, framesFinished, framesProcessed,
    flush, shutdown,  \* damageThreadFlush, damageThreadShutdown
    sync,             \* damageThreadSync
    stream,           \* ctx.eglStream # EGL_NO_STREAM_KHR
    submitted,        \* frames the driver took with eglSwapBuffers
    producerFrame,    \* EGL_PRODUCER_FRAME_KHR: frames the GPU finished
    throttle,         \* the frame callback of throttleCallback
    swapInterval,     \* 0, or 1 for any positive interval
    failed            \* history: a call on the stream or connection failed

counters == <<framesProduced, framesFinished, framesProcessed>>
flags    == <<flush, shutdown>>
driver   == <<stream, submitted, producerFrame>>
vars == <<app, useDamageThread, thread, frameLock, counters, flags, sync, driver,
          throttle, swapInterval, failed>>

\* A surface is created: a new context, and its damage thread if it uses one.
NewContext ==
    /\ framesProduced' = 0 /\ framesFinished' = 0 /\ framesProcessed' = 0
    /\ flush' = FALSE /\ shutdown' = FALSE
    /\ stream' = TRUE /\ submitted' = 0 /\ producerFrame' = 0
    /\ IF useDamageThread THEN thread' = "unsignal" /\ sync' = "unsignaled"
                          ELSE thread' = "none" /\ sync' = "none"

Init ==
    /\ app = "idle"
    /\ useDamageThread \in BOOLEAN
    /\ framesProduced = 0 /\ framesFinished = 0 /\ framesProcessed = 0
    /\ flush = FALSE /\ shutdown = FALSE
    /\ stream = TRUE /\ submitted = 0 /\ producerFrame = 0
    /\ thread = (IF useDamageThread THEN "unsignal" ELSE "none")
    /\ sync = (IF useDamageThread THEN "unsignaled" ELSE "none")
    /\ frameLock = "none"
    /\ throttle = "none"
    /\ swapInterval = 1
    /\ failed = FALSE

\* wlEglCreateFrameSync: request a frame callback for the next commit.
CreateFrameSync ==
    throttle' = IF swapInterval > 0 THEN "requested" ELSE throttle

\* The wl_surface_commit at the end of wlEglSendDamageEvent.
Commit == throttle' = IF throttle = "requested" THEN "committed" ELSE throttle

-----------------------------------------------------------------------------
(* eglSwapBuffers: wlEglSwapBuffersWithDamageHook with mutexLock held.       *)

\* Mutant: the swap does not look at the damage thread's progress.
SwapBeginUnchecked ==
    /\ app = "idle"
    /\ submitted < MaxFrames
    /\ app' = "throttle"
    /\ UNCHANGED <<useDamageThread, thread, frameLock, counters, flags, sync,
                   driver, throttle, swapInterval, failed>>

SwapBegin ==
    /\ app = "idle"
    /\ submitted < MaxFrames
    /\ app' = IF useDamageThread THEN "check" ELSE "throttle"
    /\ UNCHANGED <<useDamageThread, thread, frameLock, counters, flags, sync,
                   driver, throttle, swapInterval, failed>>

\* Mutant: the counters are read, and nothing waited for.
CheckWithoutWait ==
    /\ app = "check"
    /\ frameLock = "none"
    /\ app' = "throttle"
    /\ UNCHANGED <<useDamageThread, thread, frameLock, counters, flags, sync,
                   driver, throttle, swapInterval, failed>>

\* Under mutexFrameSync: has the damage thread submitted the previous frame?
CheckProcessed ==
    /\ app = "check"
    /\ frameLock = "none"
    /\ app' = IF framesProduced = framesProcessed THEN "throttle" ELSE "condWait"
    /\ UNCHANGED <<useDamageThread, thread, frameLock, counters, flags, sync,
                   driver, throttle, swapInterval, failed>>

\* wlEglWaitFrameSync: dispatch until throttleCallback is NULL.
DispatchFrameDone ==
    /\ app = "throttle"
    /\ throttle = "done"
    /\ throttle' = "none"
    /\ UNCHANGED <<app, useDamageThread, thread, frameLock, counters, flags, sync,
                   driver, swapInterval, failed>>

\* Mutant: with swapInterval 0 an older frame callback is not waited for.
FrameSyncOverUnpaced ==
    /\ app = "throttle"
    /\ throttle = "none" \/ swapInterval = 0
    /\ app' = "driver"
    /\ UNCHANGED <<useDamageThread, thread, frameLock, counters, flags, sync,
                   driver, throttle, swapInterval, failed>>

FrameSyncOver ==
    /\ app = "throttle"
    /\ throttle = "none"
    /\ app' = "driver"
    /\ UNCHANGED <<useDamageThread, thread, frameLock, counters, flags, sync,
                   driver, throttle, swapInterval, failed>>

\* wl_display_dispatch_queue returned -1.
DispatchFails ==
    /\ app = "throttle"
    /\ throttle # "none"
    /\ app' = "driver"
    /\ failed' = TRUE
    /\ UNCHANGED <<useDamageThread, thread, frameLock, counters, flags, sync,
                   driver, throttle, swapInterval>>

DriverSwap ==
    /\ app = "driver"
    /\ stream
    /\ submitted' = submitted + 1
    /\ app' = "swapped"
    /\ UNCHANGED <<useDamageThread, thread, frameLock, counters, flags, sync,
                   stream, producerFrame, throttle, swapInterval, failed>>

DriverSwapFails ==
    /\ app = "driver"
    /\ app' = "resize"
    /\ UNCHANGED <<useDamageThread, thread, frameLock, counters, flags, sync,
                   driver, throttle, swapInterval, failed>>

\* framesProduced is incremented after the driver has the frame, so the damage
\* thread may have processed it already.
FrameProduced ==
    /\ app = "swapped"
    /\ IF useDamageThread
       THEN /\ framesProduced' = framesProduced + 1
            /\ app' = "resize"
            /\ UNCHANGED throttle
       ELSE /\ CreateFrameSync
            /\ app' = "send"
            /\ UNCHANGED framesProduced
    /\ UNCHANGED <<useDamageThread, thread, frameLock, framesFinished,
                   framesProcessed, flags, sync, driver, swapInterval, failed>>

\* wlEglSendDamageEvent by the swapping thread.
SendCommits ==
    /\ app = "send"
    /\ Commit
    /\ app' = "resize"
    /\ UNCHANGED <<useDamageThread, thread, frameLock, counters, flags, sync,
                   driver, swapInterval, failed>>

\* It fails before its commit when there is no image to attach.
SendFails ==
    /\ app = "send"
    /\ failed' = TRUE
    /\ app' = "resize"
    /\ UNCHANGED <<useDamageThread, thread, frameLock, counters, flags, sync,
                   driver, throttle, swapInterval>>

SendDamageEvent == SendCommits \/ SendFails

SwapReturn ==
    /\ app = "resize"
    /\ app' = "idle"
    /\ UNCHANGED <<useDamageThread, thread, frameLock, counters, flags, sync,
                   driver, throttle, swapInterval, failed>>

-----------------------------------------------------------------------------
(* wlEglReallocSurface, by a swap or resize_callback, and wlEglDestroySurface *)
(* both finish the damage thread first.                                      *)

\* Mutant: the resize ends the damage thread at once.
ReallocImmediately ==
    /\ app \in {"idle", "resize"}
    /\ app' = "reallocJoin"
    /\ IF sync # "none" THEN shutdown' = TRUE /\ sync' = "signaled"
                        ELSE UNCHANGED <<shutdown, sync>>
    /\ UNCHANGED <<useDamageThread, thread, frameLock, counters, flush, driver,
                   throttle, swapInterval, failed>>

\* finish_wl_eglstream_damage_thread(surface, ctx, 0), up to pthread_join; from
\* a swap or from resize_callback.
ReallocSurface ==
    /\ app \in {"idle", "resize"}
    /\ app' = "reallocJoin"
    /\ IF sync # "none" THEN flush' = TRUE /\ sync' = "signaled"
                        ELSE UNCHANGED <<flush, sync>>
    /\ UNCHANGED <<useDamageThread, thread, frameLock, counters, shutdown, driver,
                   throttle, swapInterval, failed>>

\* finish_wl_eglstream_damage_thread(surface, ctx, 1), up to pthread_join.
DestroySurface ==
    /\ app = "idle"
    /\ app' = "destroyJoin"
    /\ IF sync # "none" THEN shutdown' = TRUE /\ sync' = "signaled"
                        ELSE UNCHANGED <<shutdown, sync>>
    /\ UNCHANGED <<useDamageThread, thread, frameLock, counters, flush, driver,
                   throttle, swapInterval, failed>>

\* Join and destroy the sync; realloc then discards the context, destroy also
\* destroys the frame callback and its queue.
FinishDamageThread ==
    /\ app \in {"reallocJoin", "destroyJoin"}
    /\ thread \in {"none", "exited"}
    /\ thread' = "none"
    /\ sync' = "none"
    /\ stream' = FALSE
    /\ IF app = "reallocJoin"
       THEN app' = "create" /\ UNCHANGED throttle
       ELSE app' = "destroyed" /\ throttle' = "none"
    /\ UNCHANGED <<useDamageThread, frameLock, counters, flags, submitted,
                   producerFrame, swapInterval, failed>>

\* create_surface_context.
CreateContext ==
    /\ app = "create"
    /\ \/ NewContext
       \/ UNCHANGED <<counters, flags, driver, thread, sync>>
    /\ app' = "idle"
    /\ UNCHANGED <<useDamageThread, frameLock, throttle, swapInterval, failed>>

\* The application creates another surface.
CreateSurface ==
    /\ app = "destroyed"
    /\ NewContext
    /\ app' = "idle"
    /\ swapInterval' = 1
    /\ failed' = FALSE
    /\ UNCHANGED <<useDamageThread, frameLock, throttle>>

-----------------------------------------------------------------------------
(* damage_thread                                                             *)

UnsignalSync ==
    /\ thread = "unsignal"
    /\ sync' = "unsignaled"
    /\ thread' = "query"
    /\ UNCHANGED <<app, useDamageThread, frameLock, counters, flags, driver,
                   throttle, swapInterval, failed>>

QueryStream ==
    /\ thread = "query"
    /\ framesFinished' = producerFrame
    /\ thread' = "flags"
    /\ UNCHANGED <<app, useDamageThread, frameLock, framesProduced,
                   framesProcessed, flags, sync, driver, throttle, swapInterval,
                   failed>>

\* A call on the sync or the stream failed, the stream is disconnected, or the
\* window is gone: the thread ends.
ThreadFails ==
    /\ thread \in {"unsignal", "query", "flags", "wait"}
    /\ thread' = "exited"
    /\ failed' = TRUE
    /\ UNCHANGED <<app, useDamageThread, frameLock, counters, flags, sync, driver,
                   throttle, swapInterval>>

\* Mutant: the sync is unsignaled after the flags are read.
CheckFlagsThenUnsignal ==
    /\ thread = "flags"
    /\ shutdown' = (shutdown \/ (flush /\ framesProcessed = framesProduced))
    /\ thread' = IF shutdown' THEN "exited" ELSE "lock"
    /\ sync' = "unsignaled"
    /\ UNCHANGED <<app, useDamageThread, frameLock, counters, flush, driver,
                   throttle, swapInterval, failed>>

\* A flush becomes a shutdown once the last produced frame is processed.
CheckFlags ==
    /\ thread = "flags"
    /\ shutdown' = (shutdown \/ (flush /\ framesProcessed = framesProduced))
    /\ thread' = IF shutdown' THEN "exited" ELSE "lock"
    /\ UNCHANGED <<app, useDamageThread, frameLock, counters, flush, sync, driver,
                   throttle, swapInterval, failed>>

\* Mutant: a frame is sent although none is unprocessed.
LockFrameSyncAlways ==
    /\ thread = "lock"
    /\ frameLock = "none"
    /\ frameLock' = "thread" /\ thread' = "create"
    /\ UNCHANGED <<app, useDamageThread, counters, flags, sync, driver, throttle,
                   swapInterval, failed>>

\* Take mutexFrameSync; keep it if there is a frame to process.
LockFrameSync ==
    /\ thread = "lock"
    /\ frameLock = "none"
    /\ IF framesFinished # framesProcessed
       THEN frameLock' = "thread" /\ thread' = "create"
       ELSE thread' = "wait" /\ UNCHANGED frameLock
    /\ UNCHANGED <<app, useDamageThread, counters, flags, sync, driver, throttle,
                   swapInterval, failed>>

ThreadFrameSync ==
    /\ thread = "create"
    /\ CreateFrameSync
    /\ thread' = "send"
    /\ UNCHANGED <<app, useDamageThread, frameLock, counters, flags, sync, driver,
                   swapInterval, failed>>

\* Mutant: condFrameSync is not signalled.
ProcessSilently ==
    /\ thread = "send"
    /\ \/ Commit /\ thread' = "unsignal" /\ UNCHANGED failed
       \/ failed' = TRUE /\ thread' = "exited" /\ UNCHANGED throttle
    /\ framesProcessed' = framesProcessed + 1
    /\ frameLock' = "none"
    /\ UNCHANGED <<app, useDamageThread, framesProduced, framesFinished, flags,
                   sync, driver, swapInterval>>

\* wlEglSendDamageEvent, ++framesProcessed, signal condFrameSync, unlock; the
\* frame counts as processed even when it could not be sent.
ProcessFrame ==
    /\ thread = "send"
    /\ \/ Commit /\ thread' = "unsignal" /\ UNCHANGED failed
       \/ failed' = TRUE /\ thread' = "exited" /\ UNCHANGED throttle
    /\ framesProcessed' = framesProcessed + 1
    /\ app' = IF app = "condWait" THEN "check" ELSE app
    /\ frameLock' = "none"
    /\ UNCHANGED <<useDamageThread, framesProduced, framesFinished, flags, sync,
                   driver, swapInterval>>

\* eglClientWaitSync returns.
WaitSync ==
    /\ thread = "wait"
    /\ sync = "signaled"
    /\ thread' = "unsignal"
    /\ UNCHANGED <<app, useDamageThread, frameLock, counters, flags, sync, driver,
                   throttle, swapInterval, failed>>

-----------------------------------------------------------------------------
(* The rest of the world                                                     *)

\* The GPU finishes a frame: the stream counts it and signals its sync.
FinishFrame ==
    /\ stream
    /\ producerFrame < submitted
    /\ producerFrame' = producerFrame + 1
    /\ sync' = IF sync = "none" THEN sync ELSE "signaled"
    /\ UNCHANGED <<app, useDamageThread, thread, frameLock, counters, flags,
                   stream, submitted, throttle, swapInterval, failed>>

\* The compositor answers the frame callback of the last commit.
FrameDone ==
    /\ throttle = "committed"
    /\ throttle' = "done"
    /\ UNCHANGED <<app, useDamageThread, thread, frameLock, counters, flags, sync,
                   driver, swapInterval, failed>>

\* eglSwapInterval, under display->mutex only.
SwapInterval ==
    /\ app # "destroyed" /\ stream
    /\ swapInterval' = 1 - swapInterval
    /\ UNCHANGED <<app, useDamageThread, thread, frameLock, counters, flags, sync,
                   driver, throttle, failed>>

\* The steps of the swapping thread once it is in the library, those of the
\* damage thread, and the failures of calls on the stream or the connection.
Swapping ==
    \/ CheckProcessed \/ DispatchFrameDone \/ FrameSyncOver
    \/ DriverSwap \/ DriverSwapFails \/ FrameProduced \/ SendDamageEvent
    \/ SwapReturn \/ (app = "resize" /\ ReallocSurface) \/ FinishDamageThread \/ CreateContext
Damaging ==
    \/ UnsignalSync \/ QueryStream \/ CheckFlags \/ LockFrameSync
    \/ ThreadFrameSync \/ ProcessFrame \/ WaitSync
Failing == DispatchFails \/ ThreadFails

\* Nothing moves any more: the damage thread has failed, a reallocation has left
\* the surface without a stream, and a swap waits for the thread.
Hung ==
    /\ app = "condWait" /\ thread \in {"none", "exited"} /\ ~stream
    /\ UNCHANGED vars

Next ==
    \/ Hung
    \/ SwapBegin \/ DestroySurface \/ CreateSurface \/ Swapping \/ Damaging
    \/ ReallocSurface \/ Failing \/ FinishFrame \/ FrameDone \/ SwapInterval

Spec == Init /\ [][Next]_vars

\* Both threads run, the GPU finishes its frames and the compositor shows the
\* window, so that it answers frame callbacks.  No failure is bound to happen.
FairSpec ==
    /\ Spec
    /\ WF_vars(Swapping) /\ WF_vars(Damaging)
    /\ WF_vars(FinishFrame) /\ WF_vars(FrameDone)

-----------------------------------------------------------------------------
(* Properties                                                                *)

\* Types, and the range the frame counters keep to.
TypeOK ==
    /\ app \in {"idle", "check", "condWait", "throttle", "driver", "swapped", "send",
                "resize", "reallocJoin", "destroyJoin", "create", "destroyed"}
    /\ useDamageThread \in BOOLEAN
    /\ thread \in {"none", "unsignal", "query", "flags", "lock", "create", "send",
                   "wait", "exited"}
    /\ frameLock \in {"none", "thread"}
    /\ framesProduced \in 0..MaxFrames /\ framesFinished \in 0..MaxFrames
    /\ framesProcessed \in 0..MaxFrames
    /\ flush \in BOOLEAN /\ shutdown \in BOOLEAN
    /\ sync \in {"none", "unsignaled", "signaled"}
    /\ stream \in BOOLEAN
    /\ submitted \in 0..MaxFrames /\ producerFrame \in 0..submitted
    /\ throttle \in {"none", "requested", "committed", "done"}
    /\ swapInterval \in {0, 1}
    /\ failed \in BOOLEAN

\* throttleCallback and the surface's event queue have no lock: the swapping
\* thread dispatches frame callbacks, or tears the surface down, only while the
\* damage thread is not creating a frame callback or committing.
FrameSyncExclusive ==
    app \in {"throttle", "create", "destroyed"} => thread \notin {"create", "send"}

\* With a damage thread the driver is given a frame only when the one before
\* has been processed, although framesProduced lags behind the driver: at most
\* one frame of the stream is ever uncommitted.
OneFrameAhead ==
    useDamageThread /\ stream =>
        /\ framesProcessed <= submitted /\ submitted <= framesProcessed + 1
        /\ app = "driver" => submitted = framesProcessed

\* wlEglCreateFrameSync never overwrites a frame callback still to be answered
\* (which would leak its proxy and unpace a commit), unless the connection or
\* the stream has failed, whatever eglSwapInterval does meanwhile.
ThrottleKept ==
    thread = "create" \/ (app = "swapped" /\ ~useDamageThread)
        => throttle = "none" \/ failed

\* A resize drops no frame: when wlEglReallocSurface has flushed the damage
\* thread, every frame swapped into the old stream was committed.
FlushedBeforeRealloc ==
    app = "create" /\ useDamageThread => submitted = framesProcessed \/ failed

\* eglSwapBuffers returns, unless a call on the stream or connection failed.
SwapReturns ==
    app \notin {"idle", "destroyJoin", "destroyed"} ~> app \in {"idle", "destroyed"} \/ failed

\* pthread_join in finish_wl_eglstream_damage_thread returns, even after a
\* failure: damage_thread never misses the flag and the signal that end it.
JoinReturns ==
    app \in {"reallocJoin", "destroyJoin"} ~> app \in {"create", "destroyed"}

\* A frame the driver took is committed although no other swap follows.
FrameCommitted ==
    useDamageThread /\ submitted # framesProcessed
        ~> submitted = framesProcessed \/ app = "destroyed" \/ failed

\* wayland-eglswap.c:113: "Wait for damage thread to submit the previous frame
\* and generate frame sync".  The wait on condFrameSync ends.
CondWaitEnds == app = "condWait" ~> app # "condWait"

-----------------------------------------------------------------------------
(* The inductive invariant behind the safety properties.                     *)

\* The damage thread holds mutexFrameSync exactly while it processes a frame; it
\* exists as long as the stream does, and its sync with it.
ThreadState ==
    /\ frameLock = "thread" <=> thread \in {"create", "send"}
    /\ thread = "none" <=> ~(useDamageThread /\ stream)
    /\ sync = "none" <=> thread = "none"
    /\ app \in {"create", "destroyed"} => ~stream
    /\ app = "swapped" => stream
    /\ app = "send" => ~useDamageThread

\* The counters follow the driver's, each a little behind the one before, and a
\* swap that has waited for the damage thread finds them all equal.
Counting ==
    /\ app \in {"check", "condWait", "throttle", "driver"} => submitted < MaxFrames
    /\ IF useDamageThread
       THEN /\ submitted = framesProduced + (IF app = "swapped" THEN 1 ELSE 0)
            /\ framesProcessed <= framesFinished /\ framesFinished <= producerFrame
            /\ submitted <= framesProcessed + 1
            /\ app \in {"throttle", "driver"} => submitted = framesProcessed
            /\ thread \in {"create", "send"} => framesProcessed < framesFinished
       ELSE framesProduced = 0 /\ framesFinished = 0 /\ framesProcessed = 0

\* A frame callback is outstanding only between the processing of a frame and
\* the next call of the driver.
Pacing ==
    /\ app = "destroyed" => throttle = "none"
    /\ app = "driver" \/ (app = "swapped" /\ ~useDamageThread)
          => throttle = "none" \/ failed
    /\ useDamageThread /\ framesProcessed # submitted /\ thread # "send"
          /\ app # "destroyed"
          => throttle = "none" \/ failed

\* The thread ends without a failure only if the surface is destroyed, or once a
\* flush finds that the last frame has been processed.
Flushing ==
    /\ flush /\ stream => app = "reallocJoin"
    /\ shutdown /\ stream =>
          \/ app = "destroyJoin"
          \/ (app = "reallocJoin" /\ framesProcessed = submitted)
    /\ thread = "exited" => shutdown \/ failed
    /\ useDamageThread /\ ~stream /\ app # "destroyed"
          => framesProcessed = submitted \/ failed \/ app = "destroyJoin"

IInv == TypeOK /\ ThreadState /\ Counting /\ Pacing /\ Flushing
=============================================================================
