--------------------------- MODULE SurfaceRealloc ---------------------------
(***************************************************************************)
(* SurfaceLifecycle with the part of wlEglReallocSurface that leaves the    *)
(* library: eglMakeCurrent on the external handles, called with             *)
(* surface->mutexLock held.  The driver resolves the handles it is given    *)
(* through wlEglGetInternalHandleExport, which locks the display.           *)
(***************************************************************************)
EXTENDS SurfaceLifecycle

\* The surface was resized, or feedback came: the swap reallocates it and makes
\* it current, and the driver asks for its internal handle.
ReallocSurface(t) ==
    /\ pc[t] = "driver"
    /\ Goto(t, "resolve")
    /\ UNCHANGED <<callVars, lockVars, dpyVars, surfVars>>

\* wlEglGetInternalHandleExport(display, EGL_OBJECT_SURFACE_KHR, surface).
ResolveAcquire(t) ==
    /\ pc[t] = "resolve"
    /\ apiLock = None
    /\ IF dpy[t] \in dpyListed
       THEN /\ dpyRefs' = [dpyRefs EXCEPT ![dpy[t]] = @ + 1]
            /\ Goto(t, "resolveLock")
       ELSE Goto(t, "swapUnlock") /\ UNCHANGED dpyRefs
    /\ UNCHANGED <<callVars, lockVars, dpyListed, dpyFreed, devDpy, initCount,
                   driverRefs, surfVars>>

\* The list is looked at under the lock and the lock dropped.
ResolveLock(t) ==
    /\ pc[t] = "resolveLock"
    /\ dpyLock[dpy[t]] = None
    /\ Goto(t, "resolveRelease")
    /\ UNCHANGED <<callVars, lockVars, dpyVars, surfVars>>

ResolveRelease(t) ==
    /\ pc[t] = "resolveRelease"
    /\ apiLock = None
    /\ UnrefDisplay(dpy[t])
    /\ Goto(t, "swapUnlock")
    /\ UNCHANGED <<callVars, lockVars, dpyListed, devDpy, initCount,
                   driverRefs, surfVars>>

ReallocNext ==
    \/ Next
    \/ \E t \in Thread : Alive(\/ ReallocSurface(t) \/ ResolveAcquire(t)
                             \/ ResolveLock(t) \/ ResolveRelease(t))

ReallocSpec == Init /\ [][ReallocNext]_vars

-----------------------------------------------------------------------------
\* The thread that holds the lock t waits for, getInternalHandle included.
ReallocWaitsFor(t) ==
    CASE pc[t] \in {"resolve", "resolveRelease"} -> apiLock
      [] pc[t] = "resolveLock" -> dpyLock[dpy[t]]
      [] OTHER -> WaitsFor(t)

\* A thread in a blocking call of eglSwapBuffers lets other threads progress
\* (wayland-eglswap.c:130): no threads wait for each other in a circle, the call
\* to eglMakeCurrent included.
ReallocNoWaitCycle ==
    \A S \in (SUBSET Thread) \ {{}} : \E t \in S : ReallocWaitsFor(t) \notin S
=============================================================================
