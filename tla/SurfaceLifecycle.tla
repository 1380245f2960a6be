-------------------------- MODULE SurfaceLifecycle --------------------------
(***************************************************************************)
(* Lifetime of external displays and surfaces, and the locks around them,   *)
(* when several application threads call into the library: the reference    *)
(* counts and isDestroyed flag of wayland-egldisplay.c, wayland-eglsurface.c*)
(* and wayland-eglswap.c, under the locks                                   *)
(*                                                                         *)
(*     wlMutex (external API lock)  >  display->mutex  >  surface->mutexLock *)
(*                                                                         *)
(* A thread runs one entry point at a time.  A block of code under one lock *)
(* that reads and writes only what that lock protects is one step; taking a *)
(* lock is a step of its own when the thread may hold another one.          *)
(***************************************************************************)
EXTENDS Naturals, FiniteSets

CONSTANTS
    Thread,           \* application threads
    Display,          \* WlEglDisplay structures
    Surface,          \* slots (addresses) for WlEglSurface structures
    None,
    Calls,            \* the entry points the threads call
    InitRefCounted,   \* the displays created with EGL_TRACK_REFERENCES_KHR
    MaxInit           \* bound on initCount

EntryPoints == {"initialize", "create", "swap", "destroy", "terminate", "unload"}

ASSUME CallsAssumption    == Calls \subseteq EntryPoints
ASSUME NoneAssumption     == None \notin Thread \union Display \union Surface
ASSUME FiniteAssumption   == IsFiniteSet(Thread)
ASSUME InitAssumption     == InitRefCounted \subseteq Display /\ MaxInit \in Nat \ {0}

VARIABLES
    pc, call, dpy, surf,   \* per thread: place, entry point, its arguments
    apiLock,               \* holder of wlMutex
    dpyLock,               \* holder of each display->mutex
    surfLock,              \* holder of each surface->mutexLock
    dpyListed,             \* displays in wlEglDisplayList
    dpyRefs,               \* display->refCount
    dpyFreed,              \* displays whose memory is gone
    devDpy,                \* displays with display->devDpy # NULL
    initCount,             \* display->initCount
    driverRefs,            \* displays counted in devDpy->initCount (one device):
                           \* the driver's EGLDisplay is initialized while # {}
    parent,                \* surface->wlEglDpy; None: the slot is free memory
    surfListed,            \* surfaces in their display's wlEglSurfaceList
    surfRefs,              \* surface->refCount
    isDestroyed,           \* surfaces with isDestroyed set
    context,               \* surfaces with a live ctx (EGLSurface, EGLStream)
    abandoned,             \* structures a failed creation has left allocated
    crashed                \* the process has ended on a NULL or dangling pointer

callVars == <<call, dpy, surf>>
lockVars == <<apiLock, dpyLock, surfLock>>
dpyVars  == <<dpyListed, dpyRefs, dpyFreed, devDpy, initCount, driverRefs>>
surfVars == <<parent, surfListed, surfRefs, isDestroyed, context, abandoned>>
vars == <<pc, callVars, lockVars, dpyVars, surfVars, crashed>>

Init ==
    /\ pc = [t \in Thread |-> "idle"]
    /\ call = [t \in Thread |-> None]
    /\ dpy = [t \in Thread |-> None]
    /\ surf = [t \in Thread |-> None]
    /\ apiLock = None
    /\ dpyLock = [d \in Display |-> None]
    /\ surfLock = [s \in Surface |-> None]
    /\ dpyListed = Display
    /\ dpyRefs = [d \in Display |-> 1]
    /\ dpyFreed = {}
    /\ devDpy = Display
    /\ initCount = [d \in Display |-> 0]
    /\ driverRefs = {}
    /\ parent = [s \in Surface |-> None]
    /\ surfListed = {} /\ isDestroyed = {} /\ context = {}
    /\ surfRefs = [s \in Surface |-> 0]
    /\ abandoned = {}
    /\ crashed = FALSE

Goto(t, to) == pc' = [pc EXCEPT ![t] = to]

\* The surfaces of wlEglSurfaceList of display d.
SurfacesOf(d) == {s \in surfListed : parent[s] = d}

-----------------------------------------------------------------------------
(* Lock and reference helpers                                                *)

LockDisplay(t)   == /\ dpyLock[dpy[t]] = None
                    /\ dpyLock' = [dpyLock EXCEPT ![dpy[t]] = t]
UnlockDisplay(t) == dpyLock' = [dpyLock EXCEPT ![dpy[t]] = None]
LockSurface(t)   == /\ surfLock[surf[t]] = None
                    /\ surfLock' = [surfLock EXCEPT ![surf[t]] = t]
UnlockSurface(t) == surfLock' = [surfLock EXCEPT ![surf[t]] = None]

\* wlEglUnrefDisplay: --refCount, free the structure at zero.
UnrefDisplay(d) ==
    /\ dpyRefs' = [dpyRefs EXCEPT ![d] = @ - 1]
    /\ dpyFreed' = IF dpyRefs[d] = 1 THEN dpyFreed \union {d} ELSE dpyFreed

\* wlEglSurfaceUnref: --refCount, free the structure at zero.
SurfaceUnref(s) ==
    /\ surfRefs' = [surfRefs EXCEPT ![s] = @ - 1]
    /\ parent' = IF surfRefs[s] = 1 THEN [parent EXCEPT ![s] = None] ELSE parent
    /\ isDestroyed' = IF surfRefs[s] = 1 THEN isDestroyed \ {s} ELSE isDestroyed

-----------------------------------------------------------------------------
(* Entry: wlEglAcquireDisplay, then display->mutex.                          *)

\* The handles may be stale: any display and any surface address.
Call(t) ==
    /\ pc[t] = "idle"
    /\ \E c \in Calls, d \in Display, s \in Surface :
          /\ call' = [call EXCEPT ![t] = c]
          /\ dpy' = [dpy EXCEPT ![t] = d]
          /\ surf' = [surf EXCEPT ![t] = s]
          /\ Goto(t, IF c = "unload" THEN "unloadLock" ELSE "acquire")
    /\ UNCHANGED <<lockVars, dpyVars, surfVars>>

AcquireDisplay(t) ==
    /\ pc[t] = "acquire"
    /\ apiLock = None
    /\ IF dpy[t] \in dpyListed
       THEN /\ dpyRefs' = [dpyRefs EXCEPT ![dpy[t]] = @ + 1]
            /\ Goto(t, "lockDisplay")
       ELSE /\ Goto(t, "idle")
            /\ UNCHANGED dpyRefs
    /\ UNCHANGED <<callVars, lockVars, dpyListed, dpyFreed, devDpy, initCount,
                   driverRefs, surfVars>>

EnterDisplay(t) ==
    /\ pc[t] = "lockDisplay"
    /\ LockDisplay(t)
    /\ Goto(t, call[t])
    /\ UNCHANGED <<callVars, apiLock, surfLock, dpyVars, surfVars>>

\* Leave: unlock the display, then wlEglReleaseDisplay.
LeaveDisplay(t) ==
    /\ pc[t] = "unlockDisplay"
    /\ UnlockDisplay(t)
    /\ Goto(t, "release")
    /\ UNCHANGED <<callVars, apiLock, surfLock, dpyVars, surfVars>>

ReleaseDisplay(t) ==
    /\ pc[t] = "release"
    /\ apiLock = None
    /\ UnrefDisplay(dpy[t])
    /\ Goto(t, "idle")
    /\ UNCHANGED <<callVars, lockVars, dpyListed, devDpy, initCount,
                   driverRefs, surfVars>>

-----------------------------------------------------------------------------
(* eglInitialize, eglCreatePlatformWindowSurface, eglTerminate                *)

\* wlInternalInitialize on the first call.  An eglInitialize that fails later
\* undoes it with terminateDisplay, which may leave the display initialized if
\* the driver refuses (the first disjunct).
Initialize(t) ==
    LET d == dpy[t] IN
    /\ pc[t] = "initialize"
    /\ \/ /\ initCount[d] = 0 /\ d \in devDpy
          /\ initCount' = [initCount EXCEPT ![d] = 1]
          /\ driverRefs' = driverRefs \union {d}
       \/ /\ initCount[d] > 0 /\ d \in InitRefCounted /\ initCount[d] < MaxInit
          /\ initCount' = [initCount EXCEPT ![d] = @ + 1]
          /\ UNCHANGED driverRefs
       \/ /\ \/ initCount[d] = 0 /\ d \in devDpy   \* it failed
             \/ initCount[d] > 0 /\ d \notin InitRefCounted
             \/ initCount[d] = MaxInit           \* (bound)
          /\ UNCHANGED <<initCount, driverRefs>>
    /\ Goto(t, "unlockDisplay")
    /\ UNCHANGED <<callVars, lockVars, dpyListed, dpyRefs, dpyFreed, devDpy,
                   surfVars>>

\* Mutant: the surface is created without testing initCount.
CreateUninitialized(t) ==
    /\ pc[t] = "create"
    /\ \E s \in Surface :
          /\ parent[s] = None
          /\ parent' = [parent EXCEPT ![s] = dpy[t]]
          /\ surfRefs' = [surfRefs EXCEPT ![s] = 1]
          /\ surfListed' = surfListed \union {s}
          /\ context' = context \union {s}
    /\ Goto(t, "unlockDisplay")
    /\ UNCHANGED <<callVars, lockVars, dpyVars, isDestroyed, abandoned>>

\* The new surface may get any free address.  A creation that fails after the
\* structure is allocated leaves it behind: the error path's
\* wlEglDestroySurface refuses a surface that is not in wlEglSurfaceList.
CreateSurface(t) ==
    LET d == dpy[t] IN
    /\ pc[t] = "create"
    /\ \/ /\ initCount[d] > 0
          /\ \E s \in Surface :
                /\ parent[s] = None
                /\ parent' = [parent EXCEPT ![s] = d]
                /\ surfRefs' = [surfRefs EXCEPT ![s] = 1]
                /\ surfListed' = surfListed \union {s}
                /\ context' = context \union {s}
          /\ UNCHANGED abandoned
       \/ /\ initCount[d] > 0
          /\ \E s \in Surface :
                /\ parent[s] = None
                /\ parent' = [parent EXCEPT ![s] = d]
                /\ surfRefs' = [surfRefs EXCEPT ![s] = 1]
                /\ abandoned' = abandoned \union {s}
          /\ UNCHANGED <<surfListed, context>>
       \/ UNCHANGED <<parent, surfRefs, surfListed, context, abandoned>>
    /\ Goto(t, "unlockDisplay")
    /\ UNCHANGED <<callVars, lockVars, dpyVars, isDestroyed>>

\* Mutant: terminateDisplay without its early return for initCount == 0.
TerminateUncounted(t) ==
    /\ pc[t] = "terminate"
    /\ initCount' = [initCount EXCEPT ![dpy[t]] = @ - 1]
    /\ Goto(t, IF initCount[dpy[t]] = 1 THEN "destroyAll" ELSE "unlockDisplay")
    /\ UNCHANGED <<callVars, lockVars, dpyListed, dpyRefs, dpyFreed, devDpy,
                   driverRefs, surfVars>>

\* wlInternalTerminate: the driver's display ends with the last reference.  Only
\* then is the driver called, and only then can it refuse.
InternalTerminate(d) == driverRefs' = driverRefs \ {d}
DriverRefuses(d)     == driverRefs = {d} /\ UNCHANGED driverRefs

\* terminateDisplay up to wlEglDestroyAllSurfaces.  The driver's display is
\* terminated first, with none of the surfaces' locks held: a swap may be at it.
Terminate(t) ==
    LET d == dpy[t] IN
    /\ pc[t] = "terminate"
    /\ \/ /\ initCount[d] = 1
          /\ InternalTerminate(d)
          /\ initCount' = [initCount EXCEPT ![d] = 0]
          /\ Goto(t, "destroyAll")
       \/ /\ initCount[d] > 1
          /\ initCount' = [initCount EXCEPT ![d] = @ - 1]
          /\ Goto(t, "unlockDisplay") /\ UNCHANGED driverRefs
       \/ /\ initCount[d] = 1 /\ DriverRefuses(d)
          /\ Goto(t, "unlockDisplay") /\ UNCHANGED initCount
       \/ /\ initCount[d] = 0
          /\ Goto(t, "unlockDisplay") /\ UNCHANGED <<initCount, driverRefs>>
    /\ UNCHANGED <<callVars, lockVars, dpyListed, dpyRefs, dpyFreed, devDpy,
                   surfVars>>

-----------------------------------------------------------------------------
(* eglDestroySurface and wlEglDestroyAllSurfaces, under display->mutex.       *)

\* Unlink the surface and flag it before waiting for its lock.
BeginDestroy(t, s) ==
    /\ surf' = [surf EXCEPT ![t] = s]
    /\ surfListed' = surfListed \ {s}
    /\ isDestroyed' = isDestroyed \union {s}
    /\ Goto(t, "destroyLock")
    /\ UNCHANGED <<call, dpy, lockVars, dpyVars, parent, surfRefs, context,
                   abandoned>>

DestroySurface(t) ==
    /\ pc[t] = "destroy"
    /\ initCount[dpy[t]] > 0
    /\ surf[t] \in SurfacesOf(dpy[t])
    /\ BeginDestroy(t, surf[t])

DestroyRefused(t) ==
    /\ pc[t] = "destroy"
    /\ initCount[dpy[t]] = 0 \/ surf[t] \notin SurfacesOf(dpy[t])
    /\ Goto(t, "unlockDisplay")
    /\ UNCHANGED <<callVars, lockVars, dpyVars, surfVars>>

DestroyNext(t) ==
    /\ pc[t] = "destroyAll"
    /\ \E s \in SurfacesOf(dpy[t]) : BeginDestroy(t, s)

DestroyedAll(t) ==
    /\ pc[t] = "destroyAll"
    /\ SurfacesOf(dpy[t]) = {}
    /\ Goto(t, IF call[t] = "unload" THEN "unloadDetach" ELSE "unlockDisplay")
    /\ UNCHANGED <<callVars, lockVars, dpyVars, surfVars>>

DestroyLock(t) ==
    /\ pc[t] = "destroyLock"
    /\ LockSurface(t)
    /\ Goto(t, "destroyContext")
    /\ UNCHANGED <<callVars, apiLock, dpyLock, dpyVars, surfVars>>

DestroyContext(t) ==
    /\ pc[t] = "destroyContext"
    /\ context' = context \ {surf[t]}
    /\ UnlockSurface(t)
    /\ Goto(t, "destroyUnref")
    /\ UNCHANGED <<callVars, apiLock, dpyLock, dpyVars, parent, surfListed,
                   surfRefs, isDestroyed, abandoned>>

DestroyUnref(t) ==
    /\ pc[t] = "destroyUnref"
    /\ SurfaceUnref(surf[t])
    /\ Goto(t, IF call[t] = "destroy" THEN "unlockDisplay" ELSE "destroyAll")
    /\ UNCHANGED <<callVars, lockVars, dpyVars, surfListed, context, abandoned>>

-----------------------------------------------------------------------------
(* eglSwapBuffers                                                             *)

\* Mutant: the swap leaves the display's lock without a reference.
SwapNoRef(t) ==
    /\ pc[t] = "swap"
    /\ initCount[dpy[t]] > 0
    /\ surf[t] \in SurfacesOf(dpy[t])
    /\ UnlockDisplay(t)
    /\ Goto(t, "swapLock")
    /\ UNCHANGED <<callVars, apiLock, surfLock, dpyVars, surfVars>>

\* wlEglSurfaceRef, then the display's lock is dropped.
SwapRef(t) ==
    /\ pc[t] = "swap"
    /\ initCount[dpy[t]] > 0
    /\ surf[t] \in SurfacesOf(dpy[t])
    /\ surfRefs' = [surfRefs EXCEPT ![surf[t]] = @ + 1]
    /\ UnlockDisplay(t)
    /\ Goto(t, "swapLock")
    /\ UNCHANGED <<callVars, apiLock, surfLock, dpyVars, parent, surfListed,
                   isDestroyed, context, abandoned>>

\* Mutant: the error path returns without wlEglReleaseDisplay.
SwapRefusedKeepsDisplay(t) ==
    /\ pc[t] = "swap"
    /\ initCount[dpy[t]] = 0 \/ surf[t] \notin SurfacesOf(dpy[t])
    /\ UnlockDisplay(t)
    /\ Goto(t, "idle")
    /\ UNCHANGED <<callVars, apiLock, surfLock, dpyVars, surfVars>>

SwapRefused(t) ==
    /\ pc[t] = "swap"
    /\ initCount[dpy[t]] = 0 \/ surf[t] \notin SurfacesOf(dpy[t])
    /\ Goto(t, "unlockDisplay")
    /\ UNCHANGED <<callVars, lockVars, dpyVars, surfVars>>

\* The request for the pending swap interval failed (the reference that was
\* taken is dropped in the same critical section).
SwapUpdateFails(t) ==
    /\ pc[t] = "swap"
    /\ initCount[dpy[t]] > 0 /\ surf[t] \in SurfacesOf(dpy[t])
    /\ Goto(t, "unlockDisplay")
    /\ UNCHANGED <<callVars, lockVars, dpyVars, surfVars>>

SwapLock(t) ==
    /\ pc[t] = "swapLock"
    /\ LockSurface(t)
    /\ Goto(t, "swapCheck")
    /\ UNCHANGED <<callVars, apiLock, dpyLock, dpyVars, surfVars>>

\* Mutant: isDestroyed is not looked at.
SwapUnchecked(t) ==
    /\ pc[t] = "swapCheck"
    /\ Goto(t, "driver")
    /\ UNCHANGED <<callVars, lockVars, dpyVars, surfVars>>

\* isDestroyed is read under the surface's lock, written under the display's.
SwapCheck(t) ==
    /\ pc[t] = "swapCheck"
    /\ Goto(t, IF surf[t] \in isDestroyed THEN "swapUnlock" ELSE "driver")
    /\ UNCHANGED <<callVars, lockVars, dpyVars, surfVars>>

\* The blocking driver call, the damage and, at times, wlEglReallocSurface.
SwapDriver(t) ==
    /\ pc[t] = "driver"
    /\ Goto(t, "swapUnlock")
    /\ UNCHANGED <<callVars, lockVars, dpyVars, surfVars>>

\* Mutant: the display's lock is taken again with the surface's still held.
SwapKeepsLock(t) ==
    /\ pc[t] = "swapUnlock"
    /\ Goto(t, "swapRelock")
    /\ UNCHANGED <<callVars, lockVars, dpyVars, surfVars>>

SwapUnlock(t) ==
    /\ pc[t] = "swapUnlock"
    /\ UnlockSurface(t)
    /\ Goto(t, "swapRelock")
    /\ UNCHANGED <<callVars, apiLock, dpyLock, dpyVars, surfVars>>

SwapRelock(t) ==
    /\ pc[t] = "swapRelock"
    /\ LockDisplay(t)
    /\ Goto(t, "swapUnref")
    /\ UNCHANGED <<callVars, apiLock, surfLock, dpyVars, surfVars>>

\* Mutant: no unref on the path of a surface destroyed meanwhile.
SwapUnrefLive(t) ==
    /\ pc[t] = "swapUnref"
    /\ IF surf[t] \in isDestroyed THEN UNCHANGED <<surfRefs, parent, isDestroyed>>
                                  ELSE SurfaceUnref(surf[t])
    /\ Goto(t, "unlockDisplay")
    /\ UNCHANGED <<callVars, lockVars, dpyVars, surfListed, context, abandoned>>

SwapUnref(t) ==
    /\ pc[t] = "swapUnref"
    /\ SurfaceUnref(surf[t])
    /\ Goto(t, "unlockDisplay")
    /\ UNCHANGED <<callVars, lockVars, dpyVars, surfListed, context, abandoned>>

-----------------------------------------------------------------------------
(* wlEglDestroyAllDisplays: the library is unloaded.  It holds wlMutex from   *)
(* beginning to end.                                                          *)

UnloadLock(t) ==
    /\ pc[t] = "unloadLock"
    /\ apiLock = None
    /\ apiLock' = t
    /\ Goto(t, "unloadNext")
    /\ UNCHANGED <<callVars, dpyLock, surfLock, dpyVars, surfVars>>

UnloadNext(t) ==
    /\ pc[t] = "unloadNext"
    /\ \E d \in dpyListed :
          /\ dpy' = [dpy EXCEPT ![t] = d]
          /\ Goto(t, "unloadDisplay")
    /\ UNCHANGED <<call, surf, lockVars, dpyVars, surfVars>>

\* wlFreeAllInternalDisplays ends what the driver refused to terminate.
UnloadedAll(t) ==
    /\ pc[t] = "unloadNext"
    /\ dpyListed = {}
    /\ driverRefs' = {}
    /\ apiLock' = None
    /\ Goto(t, "idle")
    /\ UNCHANGED <<callVars, dpyLock, surfLock, dpyListed, dpyRefs, dpyFreed,
                   devDpy, initCount, surfVars>>

\* Mutant: unloading honours initCount, as eglTerminate does.
UnloadCounted(t) ==
    /\ pc[t] = "unloadDisplay"
    /\ LockDisplay(t)
    /\ initCount' = [initCount EXCEPT ![dpy[t]] = IF @ = 0 THEN 0 ELSE @ - 1]
    /\ Goto(t, IF initCount[dpy[t]] = 1 THEN "destroyAll" ELSE "unloadDetach")
    /\ UNCHANGED <<callVars, apiLock, surfLock, dpyListed, dpyRefs, dpyFreed,
                   devDpy, driverRefs, surfVars>>

\* terminateDisplay(display, EGL_TRUE) ignores the count and the driver's answer.
UnloadDisplay(t) ==
    LET d == dpy[t] IN
    /\ pc[t] = "unloadDisplay"
    /\ LockDisplay(t)
    /\ \/ /\ initCount[d] > 0
          /\ InternalTerminate(d) \/ DriverRefuses(d)
          /\ Goto(t, "destroyAll")
       \/ /\ initCount[d] = 0
          /\ Goto(t, "unloadDetach") /\ UNCHANGED driverRefs
    /\ initCount' = [initCount EXCEPT ![d] = 0]
    /\ UNCHANGED <<callVars, apiLock, surfLock, dpyListed, dpyRefs, dpyFreed,
                   devDpy, surfVars>>

\* Mutant: the display stays in the list the loop goes through.
UnloadKeepsListed(t) ==
    /\ pc[t] = "unloadDetach"
    /\ devDpy' = devDpy \ {dpy[t]}
    /\ UnlockDisplay(t)
    /\ Goto(t, "unloadNext")
    /\ UNCHANGED <<callVars, apiLock, surfLock, dpyListed, dpyRefs, dpyFreed,
                   initCount, driverRefs, surfVars>>

UnloadDetach(t) ==
    /\ pc[t] = "unloadDetach"
    /\ devDpy' = devDpy \ {dpy[t]}
    /\ UnlockDisplay(t)
    /\ dpyListed' = dpyListed \ {dpy[t]}
    /\ UnrefDisplay(dpy[t])
    /\ Goto(t, "unloadNext")
    /\ UNCHANGED <<callVars, apiLock, surfLock, initCount, driverRefs, surfVars>>

\* A call that waited for display->mutex while the library was unloaded:
\* eglInitialize dereferences display->devDpy, which is NULL, and the error
\* paths of the others read the WlEglPlatformData that unloading has freed.
UseAfterUnload(t) ==
    /\ dpy[t] \notin devDpy
    /\ \/ pc[t] = "initialize"
       \/ pc[t] \in {"create", "swap", "destroy"} /\ apiLock = None
    /\ crashed' = TRUE
    /\ UNCHANGED <<pc, callVars, lockVars, dpyVars, surfVars>>

-----------------------------------------------------------------------------
\* The steps that wait for a lock, and the others.
Locks(t) ==
    \/ AcquireDisplay(t) \/ EnterDisplay(t) \/ ReleaseDisplay(t)
    \/ DestroyLock(t) \/ SwapLock(t) \/ SwapRelock(t)
    \/ UnloadLock(t) \/ UnloadDisplay(t)

Runs(t) ==
    \/ LeaveDisplay(t) \/ Initialize(t) \/ CreateSurface(t) \/ Terminate(t)
    \/ DestroySurface(t) \/ DestroyRefused(t) \/ DestroyNext(t)
    \/ DestroyedAll(t) \/ DestroyContext(t) \/ DestroyUnref(t)
    \/ SwapRef(t) \/ SwapRefused(t) \/ SwapUpdateFails(t) \/ SwapCheck(t) \/ SwapDriver(t)
    \/ SwapUnlock(t) \/ SwapUnref(t)
    \/ UnloadNext(t) \/ UnloadedAll(t) \/ UnloadDetach(t)

\* A step of a thread in a process that is alive and stays alive.
Alive(A) == ~crashed /\ A /\ UNCHANGED crashed

Next ==
    \/ \E t \in Thread : Alive(Call(t) \/ Locks(t) \/ Runs(t))
    \/ \E t \in Thread : ~crashed /\ UseAfterUnload(t)
    \/ crashed /\ UNCHANGED vars

Spec == Init /\ [][Next]_vars

\* A thread inside the library is scheduled, and a mutex that becomes free again
\* and again is not withheld from it for ever.
Fairness ==
    \A t \in Thread : /\ WF_vars(Alive(Runs(t)))
                      /\ WF_vars(~crashed /\ UseAfterUnload(t))
                      /\ SF_vars(Alive(Locks(t)))
FairSpec == Spec /\ Fairness

-----------------------------------------------------------------------------
(* Properties                                                                *)

\* Where a thread is in between taking a reference or a lock and dropping it.
Swapping   == {"swapLock", "swapCheck", "driver", "swapUnlock", "swapRelock",
               "swapUnref"}
Destroying == {"destroyLock", "destroyContext", "destroyUnref"}
Unloading  == {"unloadNext", "unloadDisplay", "unloadDetach"}
InDisplay  == EntryPoints \union {"unlockDisplay", "destroyAll", "swapUnref",
               "unloadDetach"} \union Destroying
Places     == InDisplay \union Swapping \union Unloading
                 \union {"idle", "acquire", "lockDisplay", "release", "unloadLock"}

\* Types of all variables.
TypeOK ==
    /\ pc \in [Thread -> Places]
    /\ call \in [Thread -> Calls \union {None}]
    /\ dpy \in [Thread -> Display \union {None}]
    /\ surf \in [Thread -> Surface \union {None}]
    /\ apiLock \in Thread \union {None}
    /\ dpyLock \in [Display -> Thread \union {None}]
    /\ surfLock \in [Surface -> Thread \union {None}]
    /\ dpyListed \subseteq Display /\ dpyFreed \subseteq Display
    /\ devDpy \subseteq Display
    /\ dpyRefs \in [Display -> Nat]
    /\ initCount \in [Display -> 0..MaxInit]
    /\ driverRefs \subseteq Display
    /\ parent \in [Surface -> Display \union {None}]
    /\ surfListed \subseteq Surface /\ isDestroyed \subseteq Surface
    /\ context \subseteq Surface
    /\ surfRefs \in [Surface -> Nat]
    /\ abandoned \subseteq Surface
    /\ crashed \in BOOLEAN

\* The threads with a reference on display d for their whole call (the unloading
\* thread uses the list's), and those with one on surface s for their swap.
CallersOf(d) ==
    {t \in Thread : dpy[t] = d /\ call[t] # "unload" /\ pc[t] \notin {"idle", "acquire"}}
HoldersOf(s) == {t \in Thread : pc[t] \in Swapping /\ surf[t] = s}

\* A thread between wlEglSurfaceRef and wlEglSurfaceUnref, or destroying the
\* surface, never uses a freed WlEglSurface, whatever destroy, terminate or
\* unload other threads run meanwhile.
SurfaceHeldAlive ==
    \A t \in Thread : pc[t] \in Swapping \union Destroying => parent[surf[t]] = dpy[t]

\* surface->refCount is the creation reference, until wlEglDestroySurface drops
\* it, and one for each swap in progress: never a leaked or a double unref (a
\* failed creation never drops the first).
SurfaceCounts ==
    \A s \in Surface :
       surfRefs[s] = Cardinality(HoldersOf(s))
          + (IF s \in surfListed \union abandoned
                \/ \E t \in Thread : pc[t] \in Destroying /\ surf[t] = s
             THEN 1 ELSE 0)

\* A thread past wlEglAcquireDisplay never uses a freed WlEglDisplay, and
\* refCount is the list's reference and those of the calls in progress.
DisplayCounts ==
    \A d \in Display :
       /\ dpyRefs[d] = Cardinality(CallersOf(d))
                         + (IF d \in dpyListed THEN 1 ELSE 0)
       /\ d \in dpyFreed <=> dpyRefs[d] = 0

\* t is in terminateDisplay, past wlInternalTerminate and the reset of initCount.
Terminating(t) ==
    pc[t] = "destroyAll" \/ (pc[t] \in Destroying /\ call[t] # "destroy")

\* A swap past its check of isDestroyed works on the EGLSurface and EGLStream of a
\* context that is not destroyed, display->devDpy is set, and the display still
\* has its reference on the driver's EGLDisplay -- or a thread is inside
\* terminateDisplay for that very display, which drops that reference before it
\* waits for the surface's lock.  So the driver's EGLDisplay may be terminated
\* under a swap, but the eglTerminate or the unloading that does so returns only
\* after the swap has let the surface go.
DriverContextLive ==
    \A t \in Thread : pc[t] = "driver" =>
       /\ surf[t] \in context /\ dpy[t] \in devDpy
       /\ \/ dpy[t] \in driverRefs
          \/ \E u \in Thread : dpy[u] = dpy[t] /\ Terminating(u)

\* Once a display is terminated and its lock is free, no surface of it is left
\* in wlEglSurfaceList, so no later eglInitialize finds an old surface.
TerminatedEmpty ==
    \A d \in Display : initCount[d] = 0 /\ dpyLock[d] = None => SurfacesOf(d) = {}

\* After the library is unloaded and every call has returned, every display,
\* surface and context is gone, but for those of failed creations: no
\* interleaving leaks one.
NothingLeaked ==
    (dpyListed = {} /\ \A t \in Thread : pc[t] = "idle")
       => /\ dpyFreed = Display /\ context = {}
          /\ \A s \in Surface \ abandoned : parent[s] = None

\* The thread that holds the lock t waits for, if any.
WaitsFor(t) ==
    CASE pc[t] \in {"acquire", "release", "unloadLock"}
           -> apiLock
      [] pc[t] \in {"lockDisplay", "swapRelock", "unloadDisplay"}
           -> dpyLock[dpy[t]]
      [] pc[t] \in {"destroyLock", "swapLock"} -> surfLock[surf[t]]
      [] OTHER -> None

\* No set of threads each waiting for a lock another of them holds: the order
\* wlMutex, display->mutex, surface->mutexLock is kept.  wayland-eglswap.c:130
\* says why the display's lock is dropped for a swap: "so other threads using
\* the external platform are allowed to progress".
NoWaitCycle == \A S \in (SUBSET Thread) \ {{}} : \E t \in S : WaitsFor(t) \notin S

\* Every entry point returns, or the process has ended: no call waits for a lock
\* for ever.
CallsReturn == \A t \in Thread : pc[t] # "idle" ~> pc[t] = "idle" \/ crashed

-----------------------------------------------------------------------------
(* The inductive invariant behind the safety properties.                     *)

InSurface == {"swapCheck", "driver", "swapUnlock", "destroyContext"}

UnloadRunning(t) == call[t] = "unload" /\ pc[t] \notin {"idle", "unloadLock"}

\* The entry point a thread has called agrees with the place where it is.
Control ==
    \A t \in Thread :
       /\ pc[t] # "idle" => /\ call[t] \in Calls /\ dpy[t] \in Display
                            /\ surf[t] \in Surface
       /\ pc[t] \in EntryPoints => call[t] = pc[t]
       /\ pc[t] \in Swapping => call[t] = "swap"
       /\ pc[t] \in Destroying => call[t] \in {"destroy", "terminate", "unload"}
       /\ pc[t] = "destroyAll" => call[t] \in {"terminate", "unload"}
       /\ pc[t] \in Unloading \union {"unloadLock"} => call[t] = "unload"
       /\ call[t] = "unload" => pc[t] \in {"idle", "unloadLock", "destroyAll"}
                                            \union Unloading \union Destroying

\* Who holds which lock follows from where the threads are.
LockOwners ==
    /\ \A t \in Thread : apiLock = t <=> UnloadRunning(t)
    /\ \A t \in Thread, d \in Display :
          dpyLock[d] = t <=> dpy[t] = d /\ pc[t] \in InDisplay
    /\ \A t \in Thread, s \in Surface :
          surfLock[s] = t <=> surf[t] = s /\ pc[t] \in InSurface

\* An allocated surface is listed, destroyed or abandoned, and only one of these;
\* the threads using it know that it is allocated.
SurfaceStates ==
    /\ \A s \in Surface :
          /\ parent[s] = None <=> surfRefs[s] = 0
          /\ parent[s] = None <=> s \notin surfListed \union isDestroyed \union abandoned
    /\ surfListed \intersect isDestroyed = {}
    /\ abandoned \intersect (surfListed \union isDestroyed) = {}
    /\ \A t \in Thread :
          /\ pc[t] \in Swapping \union Destroying => parent[surf[t]] = dpy[t]
          /\ pc[t] \in Swapping => surf[t] \notin abandoned
          /\ pc[t] \in Destroying => surf[t] \in isDestroyed

\* A context lives while its surface is listed, and until its destroyer, who has
\* unlinked it, holds the surface's lock.
Contexts ==
    /\ surfListed \subseteq context
    /\ \A s \in context :
          /\ parent[s] \in devDpy
          /\ \/ s \in surfListed
             \/ \E t \in Thread : pc[t] \in {"destroyLock", "destroyContext"} /\ surf[t] = s
    /\ \A t \in Thread : pc[t] = "driver" => surf[t] \in context

\* A display that is not initialized has no listed surface, but while it is being
\* terminated; a display is listed until it is unloaded.
DisplayStates ==
    /\ dpyListed = devDpy
    /\ \A d \in Display :
          /\ d \notin devDpy => initCount[d] = 0
          /\ initCount[d] > 0 => d \in driverRefs
          /\ initCount[d] = 0 => \/ SurfacesOf(d) = {}
                                 \/ \E t \in Thread : dpy[t] = d /\ Terminating(t)
    /\ \A t \in Thread :
          /\ UnloadRunning(t) /\ pc[t] # "unloadNext" => dpy[t] \in dpyListed
          /\ Terminating(t) => initCount[dpy[t]] = 0
          /\ pc[t] \in Destroying /\ call[t] = "destroy" => initCount[dpy[t]] > 0
          /\ pc[t] = "unloadDetach" => /\ initCount[dpy[t]] = 0
                                       /\ SurfacesOf(dpy[t]) = {}

IInv ==
    /\ TypeOK /\ Control /\ LockOwners
    /\ SurfaceStates /\ Contexts /\ DisplayStates
    /\ SurfaceCounts /\ DisplayCounts
=============================================================================
