--------------------------- MODULE PresentFeedback ---------------------------
(***************************************************************************)
(* Presentation feedback of a surface of the Vulkan driver (wayland-eglswap.c *)
(* and the wlEgl...PresentationFeedbacksExport calls of wayland-eglsurface.c), *)
(* on top of the frame pacing of DamageThread.                               *)
(*                                                                         *)
(* The driver brackets each present with wlEglPrePresent, which is the first *)
(* half of DamageThread's swap, and wlEglPostPresent2, which asks the        *)
(* compositor for feedback on the surface's next commit and then hands the   *)
(* frame on.  Feedback objects answer on a queue of their own, dispatched    *)
(* only by wlEglWaitAllPresentationFeedbacks and                             *)
(* wlEglProcessPresentationFeedbacks.                                        *)
(*                                                                         *)
(* Unlike eglSwapBuffers the driver does not hold mutexLock between the two  *)
(* calls, and another thread may collect feedback then.  Such a surface has  *)
(* no wl_egl_window and is never resized: there is no reallocation.          *)
(* A present is numbered as its frame; its presentInfo is never NULL.        *)
(* The library is built with its assertions.                                 *)
(***************************************************************************)
EXTENDS DamageThread, FiniteSets

VARIABLES
    presentation, \* display->wpPresentation # NULL
    posting,      \* wlEglPostPresent2 holds mutexLock and has asked for feedback
    collector,    \* a thread in wlEglWaitAllPresentationFeedbacks, or none
    requested,    \* presents whose feedback request awaits a commit
    committed,    \* presents whose feedback request a commit has taken along
    answered,     \* presents with an event on presentFeedbackQueue
    inFlight,     \* surface->inFlightPresentFeedbackCount
    landed,       \* surface->landedPresentFeedbackCount
    returned,     \* history: the sum of what the collecting calls returned
    overwritten,  \* history: LANDED updates that came too late for their info
    lost,         \* a dispatch of presentFeedbackQueue has failed: for libwayland
                  \* the connection is lost, and every later dispatch fails
    aborted       \* an assertion of a collecting call has ended the process

feedback == <<requested, committed, answered>>
counts   == <<inFlight, landed, returned, overwritten, lost>>
pvars    == <<vars, presentation, posting, collector, feedback, counts, aborted>>

Present == 1..MaxFrames

PInit ==
    /\ Init
    /\ presentation \in BOOLEAN
    /\ posting = FALSE /\ collector = FALSE
    /\ requested = {} /\ committed = {} /\ answered = {}
    /\ inFlight = 0 /\ landed = 0 /\ returned = 0 /\ overwritten = 0
    /\ lost = FALSE /\ aborted = FALSE

\* The presenting thread, or the one that destroys the surface, has mutexLock.
PresenterLocks ==
    posting \/ app \in {"check", "condWait", "throttle", "send", "destroyJoin"}

LockFree == ~PresenterLocks /\ ~collector

-----------------------------------------------------------------------------
(* wlEglPrePresent, and what the driver does between the two calls.           *)

PrePresent ==
    \/ ~collector /\ SwapBegin
    \/ CheckProcessed \/ DispatchFrameDone \/ FrameSyncOver

DriverPresent == DriverSwap \/ DriverSwapFails

PresentReturns == posting' = FALSE /\ SwapReturn

-----------------------------------------------------------------------------
(* wlEglPostPresent2                                                          *)

\* A commit takes the feedback requests of the surface along.
TakeFeedback == committed' = committed \union requested /\ requested' = {}

\* Lock, ask for feedback and tell the driver KICKED_OFF; without the protocol
\* the present counts as landed at once.
RequestFeedback ==
    /\ app = "swapped" /\ ~posting
    /\ LockFree
    /\ posting' = TRUE
    /\ IF presentation
       THEN /\ requested' = requested \union {submitted}
            /\ inFlight' = inFlight + 1
            /\ UNCHANGED landed
       ELSE /\ landed' = landed + 1
            /\ UNCHANGED <<requested, inFlight>>
    /\ UNCHANGED <<vars, presentation, collector, committed, answered, returned,
                   overwritten, lost>>

\* framesProduced, or wlEglCreateFrameSync.
PostFrame == posting /\ FrameProduced

\* wlEglSendDamageEvent, by either thread.
PostSend ==
    \/ SendCommits /\ TakeFeedback /\ UNCHANGED answered
    \/ SendFails /\ UNCHANGED feedback

DamageSend ==
    /\ ProcessFrame
    /\ IF thread' = "exited" THEN UNCHANGED feedback
                             ELSE TakeFeedback /\ UNCHANGED answered

-----------------------------------------------------------------------------
(* Collecting feedback                                                        *)

\* Mutant: an update that comes too late for its info is not counted down.
LandedIfCurrent(S) ==
    /\ answered' = answered \ S
    /\ \E late \in 0..Cardinality(S) :
          /\ landed' = landed + Cardinality(S) - late
          /\ overwritten' = overwritten + late
          /\ inFlight' = inFlight - (Cardinality(S) - late)

\* present_feedback_discarded, also for presented, for each event of S: the
\* driver's callback tells whether the info still belongs to that present.
Landed(S) ==
    /\ answered' = answered \ S
    /\ inFlight' = inFlight - Cardinality(S)
    /\ \E late \in 0..Cardinality(S) :
          /\ landed' = landed + Cardinality(S) - late
          /\ overwritten' = overwritten + late

\* Mutant: what the call returns is counted again by the next one.
ReturnWithoutReset == returned' = returned + landed /\ UNCHANGED landed

\* The number of landed presents, which the calls return, starts again.
ReturnLanded == returned' = returned + landed /\ landed' = 0

Exists == app \notin {"destroyJoin", "destroyed"}

\* What both calls assert when they begin.
NothingLanded == presentation => landed = 0

\* wlEglWaitAllPresentationFeedbacks: take mutexLock and keep it.
WaitAll ==
    /\ Exists /\ LockFree
    /\ NothingLanded
    /\ collector' = TRUE
    /\ UNCHANGED <<vars, presentation, posting, feedback, counts>>

\* wl_display_dispatch_queue blocks until the queue has an event.
WaitAllDispatch ==
    /\ collector /\ inFlight > 0
    /\ ~lost /\ answered # {}
    /\ Landed(answered)
    /\ UNCHANGED <<vars, presentation, posting, collector, requested, committed,
                   returned, lost>>

\* A dispatch fails, when it may have run the handlers of some events: the call
\* returns the error, and what has landed stays counted.
DispatchError ==
    /\ \E S \in SUBSET answered : (lost => S = {}) /\ Landed(S)
    /\ lost' = TRUE
    /\ UNCHANGED returned

WaitAllFails ==
    /\ collector /\ inFlight > 0
    /\ DispatchError
    /\ collector' = FALSE
    /\ UNCHANGED <<vars, presentation, posting, requested, committed>>

WaitAllReturn ==
    /\ collector /\ inFlight = 0
    /\ ReturnLanded
    /\ collector' = FALSE
    /\ UNCHANGED <<vars, presentation, posting, feedback, inFlight, overwritten,
                   lost>>

\* wlEglProcessPresentationFeedbacks dispatches the events that are there.
ProcessPending ==
    /\ Exists /\ LockFree
    /\ NothingLanded
    /\ \/ ~lost /\ answered # {}
       \/ landed > 0
    /\ answered' = {}
    /\ inFlight' = inFlight - Cardinality(answered)
    /\ \E late \in 0..Cardinality(answered) :
          /\ overwritten' = overwritten + late
          /\ returned' = returned + landed + Cardinality(answered) - late
    /\ landed' = 0
    /\ UNCHANGED <<vars, presentation, posting, collector, requested, committed,
                   lost>>

ProcessFails ==
    /\ Exists /\ LockFree
    /\ presentation /\ NothingLanded
    /\ DispatchError
    /\ UNCHANGED <<vars, presentation, posting, collector, requested, committed>>

\* Either call, when an earlier one has failed and left presents counted.
CollectAborts ==
    /\ Exists /\ LockFree
    /\ ~NothingLanded
    /\ aborted' = TRUE
    /\ UNCHANGED <<vars, presentation, posting, collector, feedback, counts>>

\* The compositor shows the commit, or knows that it never will.
Answer(p) ==
    /\ p \in committed /\ ~lost
    /\ committed' = committed \ {p}
    /\ answered' = answered \union {p}
    /\ UNCHANGED <<vars, presentation, posting, collector, requested, counts>>

-----------------------------------------------------------------------------
(* wlEglDestroySurface; presentFeedbackQueue goes with all that is on it.      *)

PDestroySurface == ~collector /\ DestroySurface

FinishSurface ==
    /\ FinishDamageThread
    /\ requested' = {} /\ committed' = {} /\ answered' = {}
    /\ UNCHANGED <<presentation, posting, collector, counts>>

PTerminated == app = "destroyed" /\ UNCHANGED pvars

-----------------------------------------------------------------------------
\* The steps of frame pacing that feedback has no part in.
PacingStep ==
    /\ \/ PrePresent \/ DriverPresent \/ PostFrame
       \/ UnsignalSync \/ QueryStream \/ CheckFlags \/ LockFrameSync
       \/ ThreadFrameSync \/ WaitSync
    /\ UNCHANGED <<presentation, posting, collector, feedback, counts>>

Presenting ==
    \/ PacingStep
    \/ PresentReturns /\ UNCHANGED <<presentation, collector, feedback, counts>>
    \/ RequestFeedback
    \/ (PostSend \/ DamageSend) /\ UNCHANGED <<presentation, posting, collector, counts>>
    \/ FinishSurface

External ==
    /\ FinishFrame \/ FrameDone
    /\ UNCHANGED <<presentation, posting, collector, feedback, counts>>

\* A surface created with fifo_length 0 has swapInterval 0: commits are not paced.
NoFifo == ~useDamageThread /\ app = "idle" /\ submitted = 0 /\ SwapInterval

Optional ==
    /\ PDestroySurface \/ DispatchFails \/ ThreadFails \/ NoFifo
    /\ UNCHANGED <<presentation, posting, collector, feedback, counts>>

Collecting ==
    WaitAll \/ WaitAllDispatch \/ WaitAllFails \/ WaitAllReturn
      \/ ProcessPending \/ ProcessFails

\* A step in a process that no assertion has ended, and that ends it neither.
Alive(A) == ~aborted /\ A /\ UNCHANGED aborted

PNext ==
    \/ Alive(Presenting \/ External \/ Optional \/ Collecting \/ PTerminated)
    \/ \E p \in Present : Alive(Answer(p))
    \/ ~aborted /\ CollectAborts

PSpec == PInit /\ [][PNext]_pvars

\* As in FairSpec; a call that collects feedback goes on dispatching, or fails
\* again once the connection is lost, and the compositor answers the feedback of
\* what was committed.
PFairSpec ==
    /\ PSpec
    /\ WF_pvars(Alive(Presenting)) /\ WF_pvars(Alive(External))
    /\ WF_pvars(Alive(WaitAllDispatch \/ WaitAllReturn \/ (lost /\ WaitAllFails)))
    /\ \A p \in Present : WF_pvars(Alive(Answer(p)))

-----------------------------------------------------------------------------
(* Properties                                                                *)

\* The frames wlEglPostPresent2 has been called for.
Posted == IF app = "swapped" /\ ~posting THEN submitted - 1 ELSE submitted

\* Every present is returned once by the calls that collect feedback, or was
\* overwritten, or is still counted as landed or in flight: none is counted twice
\* or lost, whichever thread commits, whichever call collects, and when dispatches
\* fail.  The assertions of both calls hold until a dispatch has failed: nothing
\* has landed when they begin, with the protocol, and without it nothing is in
\* flight.  (A failed dispatch leaves presents counted as landed, and then the
\* next collecting call does abort.)
EveryPresentReported ==
    /\ aborted => lost
    /\ Exists =>
        /\ inFlight = Cardinality(requested \union committed \union answered)
        /\ returned + overwritten + landed + inFlight = Posted
        /\ presentation /\ LockFree => landed = 0 \/ lost
        /\ ~presentation => inFlight = 0

\* Without a damage thread wlEglWaitAllPresentationFeedbacks returns, with an error
\* if the connection is lost: every feedback request was followed by a commit under
\* the same lock.
WaitAllReturnsUnthreaded ==
    ~useDamageThread /\ collector ~> ~collector \/ failed
-----------------------------------------------------------------------------
(* The inductive invariant behind EveryPresentReported, besides the one of    *)
(* frame pacing.                                                             *)

\* A feedback is where it is once: requested, committed or answered, and only for
\* presents wlEglPostPresent2 has been called for.  Presents land only while a
\* collecting call runs, or stay counted after one has failed, unless the protocol
\* is missing.
FeedbackInv ==
    /\ presentation \in BOOLEAN /\ posting \in BOOLEAN /\ collector \in BOOLEAN
    /\ lost \in BOOLEAN
    /\ aborted => lost
    /\ posting => app \in {"swapped", "send", "resize"}
    /\ app \notin {"reallocJoin", "create"}
    /\ app # "destroyed" =>
          /\ landed \in Nat /\ returned \in Nat /\ overwritten \in Nat
          /\ requested \union committed \union answered \subseteq 1..Posted
          /\ requested \intersect committed = {}
          /\ answered \intersect (requested \union committed) = {}
          /\ inFlight = Cardinality(requested \union committed \union answered)
          /\ returned + overwritten + landed + inFlight = Posted
          /\ presentation => landed = 0 \/ collector \/ lost
          /\ ~presentation => requested = {} /\ committed = {} /\ answered = {}
=============================================================================
