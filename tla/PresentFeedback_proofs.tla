----------------------- MODULE PresentFeedback_proofs -----------------------
EXTENDS PresentFeedback, DamageThread_proofs, FiniteSetTheorems

-----------------------------------------------------------------------------
(* Presenting through the Vulkan driver is frame pacing.                      *)

\* Asking for feedback and collecting it add no step to frame pacing.
LEMMA PacingOnly == [PNext]_pvars => [Next]_vars
  <1>1. PrePresent \/ DriverPresent \/ PostFrame \/ PresentReturns => Next
    BY DEF PrePresent, DriverPresent, PostFrame, PresentReturns, Next, Swapping
  <1>2. UnsignalSync \/ QueryStream \/ CheckFlags \/ LockFrameSync
        \/ ThreadFrameSync \/ WaitSync \/ DamageSend => Next
    BY DEF DamageSend, Next, Damaging
  <1>3. PostSend \/ FinishSurface => Next
    BY DEF PostSend, FinishSurface, Next, Swapping, SendDamageEvent
  <1>4. PDestroySurface \/ DispatchFails \/ ThreadFails \/ NoFifo => Next
    BY DEF PDestroySurface, NoFifo, Next, Failing
  <1>5. FinishFrame \/ FrameDone => Next
    BY DEF Next
  <1>6. RequestFeedback \/ Collecting \/ CollectAborts \/ PTerminated
        \/ UNCHANGED pvars => UNCHANGED vars
    BY DEF RequestFeedback, Collecting, WaitAll, WaitAllDispatch, WaitAllFails,
       WaitAllReturn, ProcessPending, ProcessFails, CollectAborts, PTerminated,
       pvars
  <1>7. ASSUME NEW p \in Present PROVE Answer(p) => UNCHANGED vars
    BY DEF Answer
  <1> QED
    BY <1>1, <1>2, <1>3, <1>4, <1>5, <1>6, <1>7
       DEF PNext, Alive, Presenting, PacingStep, External, Optional

\* The presents of a Vulkan surface are paced like the swaps of a GL surface:
\* what is proved of DamageThread holds of wlEglPrePresent and wlEglPostPresent2
\* too, although mutexLock is released between the two.
THEOREM PresentsArePaced == PSpec => Spec
  <1>1. PInit => Init
    BY DEF PInit
  <1> QED
    BY <1>1, PacingOnly, PTL DEF PSpec, Spec

\* Hence the inductive invariant of frame pacing holds here too.
LEMMA PacingInvariance == PSpec => []IInv
  BY PresentsArePaced, Invariance, PTL

-----------------------------------------------------------------------------
(* No feedback is lost.                                                       *)

\* The presents asked for are finitely many: their sets have a size.
LEMMA FinitePresents ==
    ASSUME NEW n \in Int, NEW S, S \subseteq 1..n
    PROVE  IsFiniteSet(S) /\ Cardinality(S) \in Nat
  <1>1. IsFiniteSet(1..n)
    BY FS_Interval
  <1>2. IsFiniteSet(S)
    BY <1>1, FS_Subset
  <1> QED
    BY <1>2, FS_CardinalityType

\* Two disjoint finite sets are together as large as both.
LEMMA DisjointSizes ==
    ASSUME NEW S, NEW T, IsFiniteSet(S), IsFiniteSet(T), S \intersect T = {}
    PROVE  Cardinality(S \union T) = Cardinality(S) + Cardinality(T)
  <1>2. Cardinality(S \union T)
          = Cardinality(S) + Cardinality(T) - Cardinality(S \intersect T)
    BY FS_Union
  <1>3. Cardinality(S \intersect T) = 0
    BY FS_EmptySet
  <1>4. Cardinality(S) \in Nat /\ Cardinality(T) \in Nat
    BY FS_CardinalityType
  <1> QED
    BY <1>2, <1>3, <1>4

\* The counters of a surface that exists are numbers of presents.
LEMMA CountTypes ==
    ASSUME IInv, FeedbackInv, app # "destroyed"
    PROVE  /\ submitted \in Nat /\ Posted \in Nat /\ inFlight \in Nat
           /\ Cardinality(answered) \in Nat
           /\ Cardinality(requested \union committed) \in Nat
           /\ inFlight = Cardinality(requested \union committed) + Cardinality(answered)
  <1>1. submitted \in Nat
    BY FramesAssumption DEF IInv, TypeOK, FramesAssumption
  <1>2. Posted \in Int
    BY <1>1 DEF Posted
  <1> DEFINE waiting == requested \union committed
  <1>3. waiting \subseteq 1..Posted /\ answered \subseteq 1..Posted
    BY DEF FeedbackInv
  <1>4. /\ IsFiniteSet(waiting) /\ IsFiniteSet(answered)
        /\ Cardinality(waiting) \in Nat /\ Cardinality(answered) \in Nat
    BY <1>2, <1>3, FinitePresents
  <1>5. Cardinality(waiting \union answered)
          = Cardinality(waiting) + Cardinality(answered)
    <2>1. waiting \intersect answered = {}
      BY DEF FeedbackInv
    <2> HIDE DEF waiting
    <2> QED
      BY <1>4, <2>1, DisjointSizes
  <1>6. inFlight = Cardinality(waiting \union answered)
    BY DEF FeedbackInv
  <1>7. inFlight \in Nat
    BY <1>4, <1>5, <1>6
  <1>8. Posted \in Nat
    BY <1>7 DEF FeedbackInv
  <1> QED
    BY <1>1, <1>4, <1>5, <1>6, <1>7, <1>8

\* A step of frame pacing leaves the number of presents posted alone, and the
\* presenting thread goes from one place to the next only when it should.
LEMMA PacingKeepsPosted ==
    ASSUME IInv, FeedbackInv,
           \/ PacingStep
           \/ (PostSend \/ DamageSend) /\ UNCHANGED posting
           \/ (PDestroySurface \/ DispatchFails \/ ThreadFails \/ NoFifo
               \/ FinishFrame \/ FrameDone) /\ UNCHANGED posting
    PROVE  /\ posting' => app' \in {"swapped", "send", "resize"}
           /\ app # "destroyed" => Posted' = Posted
           /\ app = "destroyed" => app' = "destroyed"
          /\ app' \notin {"reallocJoin", "create"}
           /\ app' \notin {"reallocJoin", "create"}
  <1>0. submitted \in Nat
    BY FramesAssumption DEF IInv, TypeOK, FramesAssumption
  <1> USE DEF FeedbackInv, Posted, counters, driver, flags
  <1>1. CASE (SwapBegin \/ CheckProcessed \/ DispatchFrameDone \/ FrameSyncOver)
             /\ UNCHANGED posting
    BY <1>1 DEF SwapBegin, CheckProcessed, DispatchFrameDone, FrameSyncOver
  <1>2. CASE (DriverSwap \/ DriverSwapFails) /\ UNCHANGED posting
    BY <1>0, <1>2 DEF DriverSwap, DriverSwapFails
  <1>3. CASE PostFrame /\ UNCHANGED posting
    BY <1>3 DEF PostFrame, FrameProduced
  <1>4. CASE (UnsignalSync \/ QueryStream \/ CheckFlags \/ LockFrameSync
              \/ ThreadFrameSync \/ WaitSync) /\ UNCHANGED posting
    BY <1>4 DEF UnsignalSync, QueryStream, CheckFlags, LockFrameSync,
       ThreadFrameSync, WaitSync
  <1>5. CASE (PostSend \/ DamageSend) /\ UNCHANGED posting
    BY <1>5 DEF PostSend, SendCommits, SendFails, DamageSend, ProcessFrame
  <1>6. CASE (PDestroySurface \/ DispatchFails \/ ThreadFails) /\ UNCHANGED posting
    BY <1>6 DEF PDestroySurface, DestroySurface, DispatchFails, ThreadFails
  <1>7. CASE (NoFifo \/ FinishFrame \/ FrameDone) /\ UNCHANGED posting
    BY <1>7 DEF NoFifo, SwapInterval, FinishFrame, FrameDone
  <1> QED
    BY <1>1, <1>2, <1>3, <1>4, <1>5, <1>6, <1>7
       DEF PacingStep, PrePresent, DriverPresent

\* A step that moves no feedback keeps the invariant.
LEMMA NoFeedbackMoved ==
    ASSUME FeedbackInv, posting' \in BOOLEAN,
           UNCHANGED <<presentation, collector, feedback, counts, aborted>>,
           posting' => app' \in {"swapped", "send", "resize"},
           app # "destroyed" => Posted' = Posted,
           app = "destroyed" => app' = "destroyed",
           app' \notin {"reallocJoin", "create"}
    PROVE  FeedbackInv'
  <1>1. UNCHANGED <<presentation, collector, requested, committed, answered,
                    inFlight, landed, returned, overwritten, lost, aborted>>
    BY DEF feedback, counts
  <1>2. CASE app' = "destroyed"
    BY <1>1, <1>2 DEF FeedbackInv
  <1>3. CASE app' # "destroyed"
    <2>1. app # "destroyed" /\ Posted' = Posted
      BY <1>3
    <2> HIDE DEF Posted
    <2> QED
      BY <1>1, <1>3, <2>1 DEF FeedbackInv
  <1> QED
    BY <1>2, <1>3

\* A commit moves the requests of the surface, and nothing else.
LEMMA FeedbackTaken ==
    ASSUME FeedbackInv,
           UNCHANGED <<presentation, posting, collector, counts, aborted>>,
           TakeFeedback, UNCHANGED answered,
           posting' => app' \in {"swapped", "send", "resize"},
           app # "destroyed" => Posted' = Posted,
           app = "destroyed" => app' = "destroyed",
           app' \notin {"reallocJoin", "create"}
    PROVE  FeedbackInv'
  <1>1. UNCHANGED <<presentation, posting, collector, answered,
                    inFlight, landed, returned, overwritten, lost, aborted>>
    BY DEF counts
  <1>2. requested' = {} /\ committed' = committed \union requested
    BY DEF TakeFeedback
  <1>3. CASE app' = "destroyed"
    BY <1>1, <1>3 DEF FeedbackInv
  <1>4. CASE app' # "destroyed"
    <2>1. app # "destroyed" /\ Posted' = Posted
      BY <1>4
    <2>2. (requested \union committed \union answered)'
            = requested \union committed \union answered
      BY <1>1, <1>2
    <2>3. inFlight' = Cardinality(requested \union committed \union answered)'
      BY <1>1, <2>1, <2>2, Zenon DEF FeedbackInv
    <2>4. /\ requested' \intersect committed' = {}
          /\ answered' \intersect (requested' \union committed') = {}
          /\ requested' \union committed' \union answered' \subseteq 1..Posted'
      BY <1>1, <1>2, <2>1, <2>2 DEF FeedbackInv
    <2>5. ~presentation' => requested' = {} /\ committed' = {} /\ answered' = {}
      BY <1>1, <1>2, <2>1 DEF FeedbackInv
    <2> QED
      BY <1>1, <1>4, <2>1, <2>3, <2>4, <2>5 DEF FeedbackInv
  <1> QED
    BY <1>3, <1>4

\* wlEglPostPresent2 asks for the feedback of a present that has none yet.
LEMMA RequestCounted ==
    ASSUME IInv, FeedbackInv, RequestFeedback, UNCHANGED aborted
    PROVE  FeedbackInv'
  <1>1. /\ app = "swapped" /\ app' = app /\ submitted' = submitted
        /\ posting = FALSE /\ posting' = TRUE
        /\ UNCHANGED <<presentation, collector, committed, answered, returned,
                       overwritten, lost, aborted>>
    BY DEF RequestFeedback, FeedbackInv, vars, driver
  <1>2. Posted = submitted - 1 /\ Posted' = submitted
    BY <1>1 DEF Posted
  <1>3. submitted \in Nat /\ Posted \in Nat /\ inFlight \in Nat
    BY <1>1, CountTypes
  <1> DEFINE asked == requested \union committed \union answered
  <1>4. asked \subseteq 1..Posted /\ IsFiniteSet(asked)
    BY <1>1, <1>3, FinitePresents DEF FeedbackInv
  <1>5. submitted \notin asked
    BY <1>2, <1>3, <1>4
  <1>6. submitted \in 1..submitted /\ 1..Posted \subseteq 1..submitted
    BY <1>2, <1>3
  <1>7. CASE presentation
    <2>1. /\ requested' = requested \union {submitted}
          /\ inFlight' = inFlight + 1 /\ landed' = landed
      BY <1>7 DEF RequestFeedback
    <2>2. asked' = asked \union {submitted}
      BY <1>1, <2>1
    <2>3. Cardinality(asked \union {submitted}) = Cardinality(asked) + 1
      BY <1>4, <1>5, FS_AddElement
    <2>4. inFlight' = Cardinality(asked')
      BY <1>1, <2>1, <2>2, <2>3 DEF FeedbackInv
    <2>5. /\ asked' \subseteq 1..Posted'
          /\ requested' \intersect committed' = {}
          /\ answered' \intersect (requested' \union committed') = {}
      BY <1>1, <1>2, <1>4, <1>5, <1>6, <2>1 DEF FeedbackInv
    <2>6. returned' + overwritten' + landed' + inFlight' = Posted'
      BY <1>1, <1>2, <1>3, <2>1 DEF FeedbackInv
    <2> QED
      BY <1>1, <1>7, <2>1, <2>4, <2>5, <2>6 DEF FeedbackInv
  <1>8. CASE ~presentation
    <2>1. landed' = landed + 1 /\ requested' = requested /\ inFlight' = inFlight
      BY <1>8 DEF RequestFeedback
    <2>2. returned' + overwritten' + landed' + inFlight' = Posted'
      BY <1>1, <1>2, <1>3, <2>1 DEF FeedbackInv
    <2>3. requested' \union committed' \union answered' \subseteq 1..Posted'
      BY <1>1, <1>2, <1>4, <1>6, <2>1
    <2> QED
      BY <1>1, <1>8, <2>1, <2>2, <2>3 DEF FeedbackInv
  <1> QED
    BY <1>1, <1>7, <1>8 DEF FeedbackInv

\* Dispatching events of the queue takes their number off the presents in flight,
\* whether they come in time for their info or not.
LEMMA Dispatched ==
    ASSUME IInv, FeedbackInv, app # "destroyed",
           NEW S, S \subseteq answered, answered' = answered \ S,
           inFlight' = inFlight - Cardinality(S),
           UNCHANGED <<requested, committed>>
    PROVE  /\ inFlight' \in Nat /\ Cardinality(S) \in Nat
           /\ inFlight' = Cardinality(requested' \union committed' \union answered')
  <1>1. Posted \in Int
    BY CountTypes
  <1> DEFINE asked == requested \union committed \union answered
             rest  == requested' \union committed' \union answered'
  <1>2. asked \subseteq 1..Posted /\ inFlight = Cardinality(asked)
    BY DEF FeedbackInv
  <1>3. rest \intersect S = {} /\ rest \union S = asked
    BY DEF FeedbackInv
  <1> HIDE DEF asked, rest
  <1>4. /\ IsFiniteSet(rest) /\ Cardinality(rest) \in Nat
        /\ IsFiniteSet(S) /\ Cardinality(S) \in Nat
    <2>1. rest \subseteq 1..Posted /\ S \subseteq 1..Posted
      BY <1>2, <1>3
    <2> HIDE DEF Posted
    <2> QED
      BY <1>1, <2>1, FinitePresents
  <1>5. Cardinality(rest \union S) = Cardinality(rest) + Cardinality(S)
    BY <1>3, <1>4, DisjointSizes
  <1>6. Cardinality(asked) = Cardinality(rest) + Cardinality(S)
    BY <1>3, <1>5, Zenon
  <1>7. inFlight' = Cardinality(rest)
    BY <1>2, <1>4, <1>6
  <1> QED
    BY <1>4, <1>7 DEF rest

\* The handlers of the events of S keep the invariant while a collecting call
\* runs, and when that call fails.
LEMMA LandedCounted ==
    ASSUME IInv, FeedbackInv, app # "destroyed",
           NEW S, S \subseteq answered, Landed(S),
           UNCHANGED <<app, submitted, presentation, posting, requested, committed,
                       returned, aborted>>,
           collector' \in BOOLEAN, lost' \in BOOLEAN,
           collector' \/ lost', lost => lost'
    PROVE  FeedbackInv'
  <1>1. Posted' = Posted
    BY DEF Posted
  <1>2. PICK late \in 0..Cardinality(S) :
          /\ landed' = landed + Cardinality(S) - late
          /\ overwritten' = overwritten + late
    BY DEF Landed
  <1>3. /\ answered' = answered \ S /\ inFlight' = inFlight - Cardinality(S)
        /\ UNCHANGED <<requested, committed>>
    BY DEF Landed
  <1>4. /\ inFlight' \in Nat /\ Cardinality(S) \in Nat
        /\ inFlight' = Cardinality(requested' \union committed' \union answered')
    BY <1>3, Dispatched
  <1>5. /\ landed \in Nat /\ returned \in Nat /\ overwritten \in Nat
        /\ inFlight \in Nat
    BY CountTypes DEF FeedbackInv
  <1>6. /\ landed' \in Nat /\ returned' \in Nat /\ overwritten' \in Nat
        /\ returned' + overwritten' + landed' + inFlight' = Posted
    <2> HIDE DEF Posted
    <2> QED
      BY <1>2, <1>3, <1>4, <1>5 DEF FeedbackInv
  <1>7. /\ requested' \union committed' \union answered' \subseteq 1..Posted
        /\ requested' \intersect committed' = {}
        /\ answered' \intersect (requested' \union committed') = {}
        /\ ~presentation' => requested' = {} /\ committed' = {} /\ answered' = {}
    <2> HIDE DEF Posted
    <2> QED
      BY <1>3 DEF FeedbackInv
  <1> HIDE DEF Posted
  <1> QED
    BY <1>1, <1>4, <1>6, <1>7 DEF FeedbackInv

\* Neither collecting call loses a present or counts one twice, whether it
\* returns a number or an error.
LEMMA CollectCounted ==
    ASSUME IInv, FeedbackInv, Collecting, UNCHANGED aborted
    PROVE  FeedbackInv'
  <1> USE DEF vars, driver
  <1>1. UNCHANGED <<app, submitted, presentation, posting>> /\ Posted' = Posted
    BY DEF Collecting, WaitAll, WaitAllDispatch, WaitAllFails, WaitAllReturn,
       ProcessPending, ProcessFails, Posted
  <1>2. CASE app # "destroyed" /\ WaitAll
    <2>1. collector' = TRUE /\ UNCHANGED <<feedback, counts, aborted>>
      BY <1>2 DEF WaitAll
    <2> HIDE DEF Posted
    <2> QED
      BY <1>1, <1>2, <2>1 DEF FeedbackInv, feedback, counts
  <1>3. CASE app # "destroyed" /\ WaitAllReturn
    <2>1. /\ collector' = FALSE /\ landed' = 0 /\ returned' = returned + landed
          /\ UNCHANGED <<requested, committed, answered, inFlight, overwritten,
                         lost, aborted>>
      BY <1>3 DEF WaitAllReturn, ReturnLanded, feedback
    <2>2. landed \in Nat /\ returned \in Nat /\ overwritten \in Nat /\ inFlight \in Nat
      BY <1>3, CountTypes DEF FeedbackInv
    <2>3. returned' + overwritten' + landed' + inFlight' = Posted /\ returned' \in Nat
      BY <1>3, <2>1, <2>2 DEF FeedbackInv
    <2>4. lost' \in BOOLEAN /\ (aborted' => lost')
      <3>1. lost' = lost /\ aborted' = aborted
        BY <2>1
      <3>2. lost \in BOOLEAN /\ (aborted => lost)
        BY DEF FeedbackInv
      <3>3. lost' \in BOOLEAN
        BY <3>1, <3>2, Zenon
      <3>4. aborted' => lost'
        BY <3>1, <3>2, SMT
      <3> QED
        BY <3>3, <3>4
    <2>5. landed' \in Nat /\ overwritten' \in Nat
      BY <2>1, <2>2
    <2> HIDE DEF Posted
    <2> QED
      BY <1>1, <1>3, <2>1, <2>3, <2>4, <2>5 DEF FeedbackInv
  <1>4. CASE app # "destroyed" /\ WaitAllDispatch
    <2>1. /\ Landed(answered) /\ collector' = TRUE
          /\ UNCHANGED <<requested, committed, returned, lost>>
      BY <1>4 DEF WaitAllDispatch, FeedbackInv
    <2>2. lost' \in BOOLEAN
      BY <2>1 DEF FeedbackInv
    <2> QED
      BY <1>1, <1>4, <2>1, <2>2, LandedCounted
  <1>5. CASE app # "destroyed" /\ (WaitAllFails \/ ProcessFails)
    <2>1. PICK S \in SUBSET answered : Landed(S)
      BY <1>5 DEF WaitAllFails, ProcessFails, DispatchError
    <2>2. /\ lost' = TRUE /\ collector' \in BOOLEAN
          /\ UNCHANGED <<requested, committed, returned>>
      BY <1>5 DEF WaitAllFails, ProcessFails, DispatchError, FeedbackInv
    <2> QED
      BY <1>1, <1>5, <2>1, <2>2, LandedCounted
  <1>6. CASE app # "destroyed" /\ ProcessPending
    <2>1. PICK late \in 0..Cardinality(answered) :
            /\ overwritten' = overwritten + late
            /\ returned' = returned + landed + Cardinality(answered) - late
      BY <1>6 DEF ProcessPending
    <2>2. /\ answered' = {} /\ inFlight' = inFlight - Cardinality(answered)
          /\ landed' = 0
          /\ UNCHANGED <<requested, committed, collector, lost, aborted>>
      BY <1>6 DEF ProcessPending
    <2>3. /\ inFlight' \in Nat
          /\ inFlight' = Cardinality(requested' \union committed' \union answered')
      BY <1>6, <2>2, Dispatched
    <2>4. /\ landed \in Nat /\ returned \in Nat /\ overwritten \in Nat
          /\ inFlight \in Nat /\ Cardinality(answered) \in Nat
      BY <1>6, CountTypes DEF FeedbackInv
    <2>5. /\ returned' \in Nat /\ overwritten' \in Nat
          /\ returned' + overwritten' + landed' + inFlight' = Posted
      BY <1>6, <2>1, <2>2, <2>4 DEF FeedbackInv
    <2> HIDE DEF Posted
    <2> QED
      BY <1>1, <1>6, <2>2, <2>3, <2>5 DEF FeedbackInv
  <1>7. CASE app = "destroyed"
    <2>1. lost' \in BOOLEAN /\ collector' \in BOOLEAN /\ (lost => lost')
      BY DEF Collecting, WaitAll, WaitAllDispatch, WaitAllFails, WaitAllReturn,
         ProcessPending, ProcessFails, DispatchError, counts, FeedbackInv
    <2> QED
      BY <1>1, <1>7, <2>1 DEF FeedbackInv
  <1> QED
    BY <1>2, <1>3, <1>4, <1>5, <1>6, <1>7 DEF Collecting

\* An answer moves one feedback from the compositor to the queue.
LEMMA AnswerCounted ==
    ASSUME FeedbackInv, NEW p \in Present, Answer(p), UNCHANGED aborted
    PROVE  FeedbackInv'
  <1>1. /\ p \in committed /\ committed' = committed \ {p}
        /\ answered' = answered \union {p}
        /\ UNCHANGED <<app, submitted, presentation, posting, collector, requested,
                       inFlight, landed, returned, overwritten, lost, aborted>>
    BY DEF Answer, vars, driver, counts
  <1>2. Posted' = Posted
    BY <1>1 DEF Posted
  <1>3. CASE app = "destroyed"
    BY <1>1, <1>3 DEF FeedbackInv
  <1>4. CASE app # "destroyed"
    <2>1. requested' \union committed' \union answered'
            = requested \union committed \union answered
      BY <1>1
    <2>2. /\ requested' \union committed' \union answered' \subseteq 1..Posted'
          /\ requested' \intersect committed' = {}
          /\ answered' \intersect (requested' \union committed') = {}
          /\ ~presentation' => requested' = {} /\ committed' = {} /\ answered' = {}
      BY <1>1, <1>2, <1>4, <2>1 DEF FeedbackInv
    <2>3. inFlight' = Cardinality(requested' \union committed' \union answered')
      BY <1>1, <1>4, <2>1 DEF FeedbackInv
    <2> HIDE DEF Posted
    <2> QED
      BY <1>1, <1>2, <1>4, <2>2, <2>3 DEF FeedbackInv
  <1> QED
    BY <1>3, <1>4

\* Every step of presenting, collecting and answering keeps the invariant.
LEMMA AliveStep ==
    ASSUME IInv, FeedbackInv, UNCHANGED aborted,
           \/ Presenting \/ External \/ Optional \/ Collecting \/ PTerminated
           \/ UNCHANGED pvars
           \/ \E p \in Present : Answer(p)
    PROVE  FeedbackInv'
  <1>0. posting \in BOOLEAN
    BY DEF FeedbackInv
  <1>1. CASE PacingStep \/ External \/ Optional
    <2>1. UNCHANGED <<presentation, posting, collector, feedback, counts>>
      BY <1>1 DEF PacingStep, External, Optional
    <2>2. /\ posting' => app' \in {"swapped", "send", "resize"}
          /\ app # "destroyed" => Posted' = Posted
          /\ app = "destroyed" => app' = "destroyed"
          /\ app' \notin {"reallocJoin", "create"}
      BY <1>1, <2>1, PacingKeepsPosted DEF External, Optional
    <2> QED
      BY <1>0, <2>1, <2>2, NoFeedbackMoved
  <1>2. CASE PresentReturns /\ UNCHANGED <<presentation, collector, feedback, counts>>
    <2>1. posting' = FALSE /\ app = "resize" /\ app' = "idle" /\ submitted' = submitted
      BY <1>2 DEF PresentReturns, SwapReturn, driver
    <2>2. Posted' = Posted
      BY <2>1 DEF Posted
    <2> QED
      BY <1>2, <2>1, <2>2, NoFeedbackMoved
  <1>3. CASE (PostSend \/ DamageSend) /\ UNCHANGED <<presentation, posting, collector, counts>>
    <2>1. /\ posting' => app' \in {"swapped", "send", "resize"}
          /\ app # "destroyed" => Posted' = Posted
          /\ app = "destroyed" => app' = "destroyed"
          /\ app' \notin {"reallocJoin", "create"}
      BY <1>3, PacingKeepsPosted
    <2>2. CASE TakeFeedback /\ UNCHANGED answered
      BY <1>3, <2>1, <2>2, FeedbackTaken
    <2>3. CASE UNCHANGED feedback
      BY <1>0, <1>3, <2>1, <2>3, NoFeedbackMoved
    <2> QED
      BY <1>3, <2>2, <2>3 DEF PostSend, DamageSend
  <1>4. CASE FinishSurface
    <2>1. app = "destroyJoin" => app' = "destroyed"
      BY <1>4 DEF FinishSurface, FinishDamageThread
    <2>2. app = "destroyJoin"
      BY <1>4 DEF FinishSurface, FinishDamageThread, FeedbackInv
    <2> QED
      BY <1>4, <2>1, <2>2 DEF FinishSurface, FeedbackInv, counts
  <1>5. CASE RequestFeedback
    BY <1>5, RequestCounted
  <1>6. CASE Collecting
    BY <1>6, CollectCounted
  <1>7. ASSUME NEW p \in Present, Answer(p) PROVE FeedbackInv'
    BY <1>7, AnswerCounted
  <1>8. CASE PTerminated \/ UNCHANGED pvars
    <2>1. /\ UNCHANGED <<app, submitted, presentation, posting, collector, feedback, counts>>
      BY <1>8 DEF PTerminated, pvars, vars, driver
    <2>2. Posted' = Posted
      BY <2>1 DEF Posted
    <2>3. /\ posting => app \in {"swapped", "send", "resize"}
          /\ app \notin {"reallocJoin", "create"}
      BY DEF FeedbackInv
    <2> QED
      BY <1>0, <2>1, <2>2, <2>3, NoFeedbackMoved
  <1> QED
    BY <1>1, <1>2, <1>3, <1>4, <1>5, <1>6, <1>7, <1>8 DEF Presenting

\* An assertion of a collecting call fails only after a dispatch has.
LEMMA FeedbackStep == IInv /\ FeedbackInv /\ [PNext]_pvars => FeedbackInv'
  <1> SUFFICES ASSUME IInv, FeedbackInv, [PNext]_pvars PROVE FeedbackInv'
    OBVIOUS
  <1>1. CASE CollectAborts
    <2>1. /\ UNCHANGED <<app, submitted, presentation, posting, collector, requested,
                         committed, answered, inFlight, landed, returned,
                         overwritten, lost>>
          /\ app # "destroyed" /\ ~collector /\ presentation /\ landed # 0
      BY <1>1 DEF CollectAborts, Exists, LockFree, NothingLanded, vars, driver,
         feedback, counts
    <2>2. Posted' = Posted
      BY <2>1 DEF Posted
    <2>3. lost'
      BY <2>1 DEF FeedbackInv
    <2> HIDE DEF Posted
    <2> QED
      BY <2>1, <2>2, <2>3 DEF FeedbackInv
  <1>2. CASE UNCHANGED pvars
    BY <1>2, AliveStep DEF pvars
  <1>3. CASE Alive(Presenting \/ External \/ Optional \/ Collecting \/ PTerminated)
    BY <1>3, AliveStep DEF Alive
  <1>4. ASSUME NEW p \in Present, Alive(Answer(p))
        PROVE  FeedbackInv'
    BY <1>4, AliveStep DEF Alive
  <1> QED
    BY <1>1, <1>2, <1>3, <1>4 DEF PNext

\* The invariant of presentation feedback, for any number of presents and for
\* collecting calls at any time.
THEOREM FeedbackInvariance == PSpec => []FeedbackInv
  <1>1. PInit => FeedbackInv
    <2> SUFFICES ASSUME PInit PROVE FeedbackInv
      OBVIOUS
    <2>1. app = "idle" /\ submitted = 0
      BY DEF PInit, Init
    <2>2. requested \union committed \union answered = {}
      BY DEF PInit
    <2>3. Cardinality(requested \union committed \union answered) = 0
      BY <2>2, FS_EmptySet
    <2>4. Posted = 0
      BY <2>1 DEF Posted
    <2>5. /\ presentation \in BOOLEAN /\ posting \in BOOLEAN /\ collector \in BOOLEAN
          /\ ~posting
          /\ lost \in BOOLEAN /\ (aborted => lost)
      BY DEF PInit
    <2>6. landed = 0 /\ returned = 0 /\ overwritten = 0 /\ inFlight = 0
      BY DEF PInit
    <2> HIDE DEF Posted
    <2> QED
      BY <2>1, <2>2, <2>3, <2>4, <2>5, <2>6 DEF FeedbackInv
  <1> QED
    BY <1>1, FeedbackStep, PacingInvariance, PTL DEF PSpec

\* Every present is reported once, was overwritten or is still counted; the
\* assertions of both collecting calls hold until a dispatch has failed.
THEOREM PresentsReported == PSpec => []EveryPresentReported
  <1>1. ASSUME IInv, FeedbackInv PROVE EveryPresentReported
    <2> SUFFICES ASSUME Exists PROVE EveryPresentReported
      BY <1>1 DEF EveryPresentReported, FeedbackInv
    <2>1. app # "destroyed"
      BY DEF Exists
    <2>2. ~presentation => inFlight = 0
      <3> SUFFICES ASSUME ~presentation PROVE inFlight = 0
        OBVIOUS
      <3>1. requested \union committed \union answered = {}
        BY <1>1, <2>1 DEF FeedbackInv
      <3>2. inFlight = Cardinality({})
        BY <1>1, <2>1, <3>1 DEF FeedbackInv
      <3> QED
        BY <3>2, FS_EmptySet
    <2> QED
      BY <1>1, <2>1, <2>2 DEF FeedbackInv, EveryPresentReported, LockFree
  <1> QED
    BY <1>1, FeedbackInvariance, PacingInvariance, PTL
=============================================================================
