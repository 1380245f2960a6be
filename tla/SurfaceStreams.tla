--------------------------- MODULE SurfaceStreams ---------------------------
(***************************************************************************)
(* The contexts of one window surface (wayland-eglsurface.c): how a stream is *)
(* created, method after method, what becomes of the context it replaces, and *)
(* what a local stream takes from the surface's dma-buf feedback.  Composed   *)
(* with the compositor of ServerStreams and the parser of DmaBufFeedback.     *)
(*                                                                         *)
(* A round trip ends when the compositor has answered everything before it    *)
(* and the surface has dispatched its events up to the answer, and perhaps    *)
(* some after it.  Client calls are those of one thread: the other modules    *)
(* are about the locks that make them so.                                    *)
(***************************************************************************)
EXTENDS ServerStreams, DmaBufFeedback

CONSTANTS
    Platforms,      \* the combinations of capabilities, see PlatformsAssumption
    MaxReallocs,    \* bound: reallocations that no feedback asked for
    MaxUnhandled    \* bound: requests not handled when another frame is committed

Methods == <<"local", "socket", "fd", "inet">>
LegacyAttach == "legacy_attach"     \* display->wlStreamCtl = NULL

\* caps are the methods both sides support; dmabuf is dmaBufProtocolVersion;
\* prime is display->primeRenderOffload.
ASSUME PlatformsAssumption ==
    /\ MaxReallocs \in Nat /\ MaxUnhandled \in Nat \ {0}
    /\ \A p \in Platforms :
          /\ p.caps \subseteq {Methods[k] : k \in DOMAIN Methods}
          /\ p.legacy \in BOOLEAN /\ p.prime \in BOOLEAN
          /\ p.dmabuf \in 0..6 /\ ("local" \in p.caps => p.dmabuf > 0)

VARIABLES
    platform,
    pc, then,       \* where the client is, and where it goes after a round trip
    methods,        \* the methods create_surface_stream has not tried
    created,        \* eglCreateWindowSurface has returned the surface
    ctx,            \* surface->ctx: kind, wlStreamResource, isAttached
    old,            \* surface->oldCtxList, by wlStreamResource
    proxies,        \* the client's live wl_buffers of wl_eglstreams
    nextId,
    pendingSwapIntervalUpdate,
    prime,          \* surface->primeRenderOffload
    layout,         \* the modifiers the local stream was created with
    reallocs,
    broken          \* history: streams a failed creation destroyed after attaching

contextVars == <<ctx, old, proxies, nextId, broken>>
streamVars  == <<prime, layout>>
controlVars == <<pc, then, methods, created>>
clientVars  == <<platform, controlVars, contextVars, streamVars,
                 pendingSwapIntervalUpdate, reallocs>>
connection  == <<wire, sent, failures>>
vars == <<clientVars, feedbackVars, serverVars, connection>>

NoContext == [kind |-> "none", id |-> NoStream, attached |-> FALSE]

\* layout: one format table's modifiers, the linear one, the display's, none.
Linear == {0}
Display == {MaxBursts + 1}

HasFeedback == platform.dmabuf >= 4

Init ==
    /\ platform \in Platforms
    /\ pc = "start" /\ then = "start" /\ methods = <<>> /\ created = FALSE
    /\ ctx = NoContext /\ old = {} /\ proxies = {} /\ nextId = 1 /\ broken = {}
    /\ pendingSwapIntervalUpdate = FALSE
    /\ prime = FALSE /\ layout = {} /\ reallocs = 0
    /\ wire = <<>> /\ sent = <<>> /\ failures = 0
    /\ ServerInit /\ FeedbackInit

\* Requests on a connection that is dead go nowhere.
Requests(s) == wire' = IF Connected THEN wire \o s ELSE wire

-----------------------------------------------------------------------------
(* Contexts                                                                  *)

\* destroy_surface_context, for the wl_eglstreams S.
DestroyRequest(S) == IF S = {} THEN <<>> ELSE Request("destroy", S)

CtxStreams == {ctx.id} \ {NoStream}

\* Mutant: the context is destroyed though the compositor may show it.
DiscardNow ==
    /\ old' = old
    /\ proxies' = proxies \ CtxStreams
    /\ Requests(DestroyRequest(CtxStreams))

\* discard_surface_context.
DiscardSurfaceContext ==
    IF ctx.attached /\ ctx.id # NoStream
    THEN /\ old' = old \union {ctx.id}
         /\ UNCHANGED <<proxies, wire>>
    ELSE /\ proxies' = proxies \ CtxStreams
         /\ Requests(DestroyRequest(CtxStreams))
         /\ UNCHANGED old

\* Mutant: the context stays on the list it was found in.
WlBufferReleaseKeepsLink ==
    /\ Dispatch("release")
    /\ LET S == {Arg} \intersect old
       IN  /\ proxies' = proxies \ S
           /\ Requests(DestroyRequest(S))
    /\ UNCHANGED <<failures, ctx, old, nextId, broken>>

\* wl_buffer_release; an event for a destroyed wl_buffer is dropped.
WlBufferRelease ==
    /\ Dispatch("release")
    /\ LET S == {Arg} \intersect old
       IN  /\ old' = old \ S
           /\ proxies' = proxies \ S
           /\ Requests(DestroyRequest(S))
    /\ UNCHANGED <<failures, ctx, nextId, broken>>

-----------------------------------------------------------------------------
(* Dispatching                                                               *)

Dispatching == pc \in {"roundtrip", "synced", "swap"}

DispatchEvent ==
    /\ Dispatching
    /\ \/ /\ HandleFeedback
          /\ UNCHANGED <<wire, failures, contextVars>>
       \/ WlBufferRelease /\ UNCHANGED feedbackVars
    /\ UNCHANGED <<platform, controlVars, streamVars, pendingSwapIntervalUpdate,
                   reallocs, serverVars>>

RoundTripAnswered ==
    /\ pc = "roundtrip" /\ Dispatch("sync")
    /\ pc' = "synced"
    /\ UNCHANGED <<platform, then, methods, created, contextVars, streamVars,
                   pendingSwapIntervalUpdate, reallocs, feedbackVars, serverVars,
                   wire, failures>>

\* wl_display_roundtrip_queue fails once the connection is dead.
RoundTripFails ==
    /\ pc = "roundtrip" /\ ~Connected
    /\ pc' = "failed"
    /\ UNCHANGED <<platform, then, methods, created, contextVars, streamVars,
                   pendingSwapIntervalUpdate, reallocs, feedbackVars, serverVars,
                   connection>>

\* Where a step goes on; RoundTrip(s) after a round trip.
Goto(s)      == pc' = s /\ UNCHANGED then
RoundTrip(s) == pc' = "roundtrip" /\ then' = s
Reached(s)   == pc = s \/ (pc = "synced" /\ then = s)
Lost(s)      == pc = "failed" /\ then = s

-----------------------------------------------------------------------------
(* What a local stream takes from the feedback                               *)

Nvidia == {"primary", "render"}
SamplingTranches == {k \in DOMAIN tranches : tranches[k].sampling}

\* wlEglUpdateSurfacePrimeState.
PrimeState ==
    IF platform.dmabuf < 6 THEN platform.prime
    ELSE IF \E k \in SamplingTranches : tranches[k].dev \in Nvidia THEN FALSE
    ELSE SamplingTranches # {} \/ prime

\* WlEglGetFormatSetForDev: the first tranche of the device with the format.
FormatSetForDev(dev) ==
    LET S == {k \in DOMAIN tranches : tranches[k].dev = dev /\ tranches[k].formats # {}}
    IN  UNION {tranches[k].formats : k \in {j \in S : \A i \in S : j <= i}}

Modifiers ==
    IF prime THEN Linear
    ELSE IF ~HasFeedback THEN Display
    ELSE IF FormatSetForDev("primary") # {} THEN FormatSetForDev("primary")
    ELSE FormatSetForDev("render")

-----------------------------------------------------------------------------
(* create_surface_context                                                    *)

StartContext ==
    methods' = SelectSeq(Methods, LAMBDA m : m \in platform.caps)

\* eglCreateWindowSurface asks for feedback and waits for the first burst.
CreateSurface ==
    /\ pc = "start"
    /\ IF HasFeedback
       THEN /\ Requests(Request("get_feedback", 0) \o Request("sync", 0))
            /\ RoundTrip("prime")
       ELSE UNCHANGED wire /\ Goto("prime")
    /\ UNCHANGED <<platform, methods, created, contextVars, streamVars, reallocs,
                   pendingSwapIntervalUpdate, feedbackVars, serverVars, sent, failures>>

InitialPrimeState ==
    /\ Reached("prime")
    /\ prime' = PrimeState
    /\ unprocessedFeedback' = FALSE
    /\ StartContext
    /\ Goto("create")
    /\ UNCHANGED <<platform, created, contextVars, layout, reallocs,
                   pendingSwapIntervalUpdate, burst, parser, delivered, serverVars,
                   connection>>

Trying(m) == pc = "create" /\ methods # <<>> /\ Head(methods) = m

\* The method destroys what it has made, and the next one is tried.
NextMethod ==
    /\ methods' = Tail(methods)
    /\ ctx' = NoContext
    /\ proxies' = proxies \ CtxStreams
    /\ Requests(DestroyRequest(CtxStreams))
    /\ Goto("create")
    /\ UNCHANGED <<platform, created, old, nextId, broken, streamVars, reallocs,
                   pendingSwapIntervalUpdate, feedbackVars, serverVars, sent>>

\* An error before anything was made or requested.
MethodFails ==
    /\ pc = "create" /\ methods # <<>>
    /\ Fail
    /\ NextMethod

\* create_surface_stream_local.  Without its release thread it has destroyed the
\* stream and reports success.
CreateStreamLocal ==
    /\ Trying("local")
    /\ \/ /\ ctx' = [NoContext EXCEPT !.kind = "local"]
          /\ layout' = Modifiers
          /\ UNCHANGED failures
       \/ Fail /\ UNCHANGED <<ctx, layout>>
    /\ Goto("producer")
    /\ UNCHANGED <<platform, methods, created, old, proxies, nextId, broken, prime,
                   reallocs, pendingSwapIntervalUpdate, feedbackVars, serverVars,
                   wire, sent>>

\* create_wl_eglstream.  A behaviour has MaxStreams of them.
CreateWlEglStream(type, attribs, more) ==
    /\ nextId \in Stream
    /\ ctx' = [NoContext EXCEPT !.kind = "remote", !.id = nextId]
    /\ proxies' = proxies \union {nextId}
    /\ nextId' = nextId + 1
    /\ Requests(Request("create_stream",
                        [id |-> nextId, type |-> type, attribs |-> attribs]) \o more)
    /\ UNCHANGED <<platform, methods, created, old, broken, streamVars, reallocs,
                   pendingSwapIntervalUpdate, feedbackVars, serverVars, sent, failures>>

CreateStreamFd ==
    /\ Trying("fd")
    /\ CreateWlEglStream("fd", {}, <<>>)
    /\ Goto("attach")

RemoteAttribs(type) ==
    {"y_inverted"} \union (IF type = "inet" THEN {"addr", "port"} ELSE {})

CreateStreamRemote(type) ==
    /\ Trying(type)
    /\ CreateWlEglStream(type, RemoteAttribs(type), Request("sync", 0))
    /\ RoundTrip("connect")

\* The producer's endpoint.
Connect ==
    /\ Reached("connect")
    /\ Goto("attach")
    /\ UNCHANGED <<platform, methods, created, contextVars, streamVars, reallocs,
                   pendingSwapIntervalUpdate, feedbackVars, serverVars, connection>>

ConnectFails ==
    /\ \/ Reached("connect") /\ Fail
       \/ Lost("connect") /\ UNCHANGED failures
    /\ NextMethod

AttachConsumer ==
    /\ pc = "attach"
    /\ Requests(Request(IF platform.legacy THEN "commit" ELSE "attach_consumer", ctx.id)
                \o Request("sync", 0))
    /\ ctx' = [ctx EXCEPT !.attached = platform.legacy]
    /\ RoundTrip("producer")
    /\ UNCHANGED <<platform, methods, created, old, proxies, nextId, broken,
                   streamVars, reallocs, pendingSwapIntervalUpdate, feedbackVars,
                   serverVars, sent, failures>>

CreateProducer ==
    /\ Reached("producer")
    /\ ctx.kind # "none"
    /\ created' = TRUE
    /\ pendingSwapIntervalUpdate' = (pendingSwapIntervalUpdate \/ ctx.id # NoStream)
    /\ Goto("idle")
    /\ UNCHANGED <<platform, methods, contextVars, streamVars, reallocs,
                   feedbackVars, serverVars, connection>>

\* No method is left, there is no stream to render to, or a call failed.
CreationFails ==
    /\ \/ pc = "create" /\ methods = <<>> /\ UNCHANGED failures
       \/ Reached("producer") /\ ctx.kind = "none" /\ UNCHANGED failures
       \/ Reached("producer") /\ ctx.kind # "none" /\ Fail
       \/ (Lost("producer") \/ Lost("prime")) /\ UNCHANGED failures
    /\ ctx' = NoContext
    /\ proxies' = proxies \ CtxStreams
    /\ broken' = IF ctx.attached THEN broken \union CtxStreams ELSE broken
    /\ Requests(DestroyRequest(CtxStreams))
    /\ Goto(IF created THEN "idle" ELSE "dead")
    /\ UNCHANGED <<platform, methods, created, old, nextId, streamVars, reallocs,
                   pendingSwapIntervalUpdate, feedbackVars, serverVars, sent>>

-----------------------------------------------------------------------------
(* Swapping and reallocating                                                 *)

\* A pending update is sent for the stream there is; with none the assertion
\* on wlStreamResource ends the process.
SwapBegin ==
    /\ pc = "idle"
    /\ IF ~pendingSwapIntervalUpdate THEN UNCHANGED wire /\ Goto("swap")
       ELSE IF ctx.id = NoStream THEN UNCHANGED wire /\ Goto("aborted")
       ELSE Requests(Request("swap_interval", ctx.id)) /\ Goto("interval")
    /\ UNCHANGED <<platform, methods, created, contextVars, streamVars, reallocs,
                   pendingSwapIntervalUpdate, feedbackVars, serverVars, sent, failures>>

\* The round trip dispatches the display's queue, not the surface's.
SwapIntervalSent ==
    /\ pc = "interval"
    /\ IF Connected
       THEN wire = <<>> /\ pendingSwapIntervalUpdate' = FALSE /\ Goto("swap")
       ELSE UNCHANGED pendingSwapIntervalUpdate /\ Goto("idle")
    /\ UNCHANGED <<platform, methods, created, contextVars, streamVars, reallocs,
                   feedbackVars, serverVars, connection>>

\* The driver swaps and the surface's content is committed, unless there is no
\* surface or a call fails.
SwapFrame ==
    /\ pc = "swap" /\ Len(wire) < MaxUnhandled
    /\ \/ /\ ctx.kind # "none"
          /\ ctx' = [ctx EXCEPT !.attached = TRUE]
          /\ Requests(Request("commit", ctx.id))
          /\ UNCHANGED failures
       \/ /\ IF ctx.kind = "none" THEN UNCHANGED failures ELSE Fail
          /\ UNCHANGED <<ctx, wire>>
    /\ Goto("swapped")
    /\ UNCHANGED <<platform, methods, created, old, proxies, nextId, broken,
                   streamVars, reallocs, pendingSwapIntervalUpdate, feedbackVars,
                   serverVars, sent>>

SwapReturn ==
    /\ pc = "swapped" /\ ~unprocessedFeedback
    /\ Goto("idle")
    /\ UNCHANGED <<platform, methods, created, contextVars, streamVars, reallocs,
                   pendingSwapIntervalUpdate, feedbackVars, serverVars, connection>>

\* wlEglReallocSurface: for feedback, or for a new size or the display's feedback.
ReallocSurface ==
    /\ \/ pc = "swapped" /\ unprocessedFeedback /\ UNCHANGED reallocs
       \/ /\ pc \in {"idle", "swapped"} /\ reallocs < MaxReallocs
          /\ reallocs' = reallocs + 1
    /\ DiscardSurfaceContext
    /\ ctx' = NoContext
    /\ prime' = IF unprocessedFeedback THEN PrimeState ELSE prime
    /\ unprocessedFeedback' = FALSE
    /\ StartContext
    /\ Goto("create")
    /\ UNCHANGED <<platform, created, nextId, broken, layout,
                   pendingSwapIntervalUpdate, burst, parser, delivered, serverVars,
                   sent, failures>>

\* wlEglDestroySurface destroys all contexts, and the queue with its events.
DestroySurface ==
    /\ pc = "idle"
    /\ ctx' = NoContext /\ old' = {}
    /\ proxies' = proxies \ (CtxStreams \union old)
    /\ Requests(DestroyRequest(CtxStreams \union old))
    /\ sent' = <<>>
    /\ Goto("destroyed")
    /\ UNCHANGED <<platform, methods, created, nextId, broken, streamVars, reallocs,
                   pendingSwapIntervalUpdate, feedbackVars, serverVars, failures>>

-----------------------------------------------------------------------------
\* The compositor's feedback: on request, and whenever it changes.
Feedback ==
    /\ Connected
    /\ \/ Handle("get_feedback") /\ wire' = Tail(wire)
       \/ burst > 0 /\ pc # "destroyed" /\ UNCHANGED wire
    /\ \E b \in Bursts : SendBurst(b)
    /\ UNCHANGED <<failures, clientVars, serverVars>>

Compositor == HandleRequest /\ UNCHANGED <<clientVars, feedbackVars>>

Ended == pc \in {"dead", "aborted", "destroyed"} /\ UNCHANGED vars

Client ==
    \/ DispatchEvent \/ RoundTripAnswered \/ RoundTripFails
    \/ CreateSurface \/ InitialPrimeState \/ MethodFails \/ CreateStreamLocal
    \/ CreateStreamFd \/ \E type \in {"socket", "inet"} : CreateStreamRemote(type)
    \/ Connect \/ ConnectFails \/ AttachConsumer \/ CreateProducer \/ CreationFails
    \/ SwapBegin \/ SwapIntervalSent \/ SwapFrame \/ SwapReturn
    \/ ReallocSurface \/ DestroySurface

Next == Client \/ Compositor \/ Feedback \/ Ended

Spec == Init /\ [][Next]_vars

-----------------------------------------------------------------------------
(* Properties                                                                *)

\* The surface's contexts: a remote one has a wl_eglstream, a local or missing one
\* none, and every wl_buffer belongs to one context.
ContextsOK ==
    /\ ctx \in [kind : {"none", "local", "remote"}, id : Stream \union {NoStream},
                attached : BOOLEAN]
    /\ (ctx.id # NoStream) <=> (ctx.kind = "remote")
    /\ proxies = CtxStreams \union old
    /\ ctx.id \notin old
    /\ nextId \in 1..(MaxStreams + 1)

\* Types, and whose wl_buffer is whose.
TypeOK ==
    /\ platform \in Platforms
    /\ ContextsOK
    /\ resource \subseteq 1..(nextId - 1)
    /\ content \in Stream \union {NoStream}
    /\ fd \in [Stream -> {"none", "open", "closed", "stream", "twice"}]
    /\ prime \in BOOLEAN /\ layout \subseteq 0..(MaxBursts + 1)
    /\ formatTable \in 0..burst /\ burst \in 0..MaxBursts

\* What is on its way: the content of commits, streams to be made, wl_buffers to
\* be destroyed, and the buffers of release events.
Committing == Args(wire, "commit")
Creating   == {r.id : r \in Args(wire, "create_stream")}
Destroying == UNION Args(wire, "destroy")
Released   == EventArgs(sent, "release")

\* The wl_eglstreams the compositor shows, or will when it handles a commit.
Shown == ({content} \union Committing) \ {NoStream}

\* A stream the compositor shows is kept with its wl_buffer until the surface
\* goes, whatever reallocations come and fail -- but for one case: without
\* wlStreamCtl a new stream is attached with a commit before its producer is
\* created, and when that fails it is destroyed while the compositor shows it, or
\* soon will (`broken`).  And a context that was put off is destroyed at the
\* latest when the release is dispatched: none stays on oldCtxList that nothing
\* will take off again.
KeptWhileShown ==
    pc # "destroyed" =>
        /\ Shown \subseteq proxies \union (IF platform.legacy THEN broken ELSE {})
        /\ Connected => old \subseteq Shown \union Released

\* The devices of the last burst the surface has got whole that can be sampled.
Sampled ==
    {delivered[k].dev : k \in {j \in DOMAIN delivered : delivered[j].sampling}}

\* Once a burst has been dispatched as a whole and a swap has made something of
\* it, a local stream has the modifiers of exactly that burst, and renders through
\* PRIME if the burst's sampling tranches are all of foreign devices: at whatever
\* event dispatches began and ended, and although a reallocation between them used
\* a part of the burst.  A burst without a sampling tranche says nothing of PRIME
\* and leaves it as it was, and an older compositor does not speak of sampling.
FeedbackSettled ==
    pc = "idle" /\ ctx.kind = "local" /\ HasFeedback
      /\ feedbackDone /\ ~unprocessedFeedback
        => /\ tranches = delivered
           /\ layout = Modifiers
           /\ platform.dmabuf < 6 => prime = platform.prime
           /\ platform.dmabuf >= 6 /\ Sampled # {}
                => prime = (Sampled \intersect Nvidia = {})

\* The compositor closes each descriptor once, or gives it to one stream, and
\* keeps none without a live wl_eglstream that still needs it.  A producer that
\* connects too late is the exception: the socket is closed with its stream, and
\* again with its resource.
HandlesOwned ==
    \A id \in Stream \ timedOut :
        /\ fd[id] # "twice"
        /\ fd[id] = "open" <=> (id \in resource /\ wlStream[id].handle)
        /\ wlStream[id].eglStream => ~wlStream[id].handle

\* wayland-eglstream-server.c:164: "Both address and port should have been set":
\* an inet stream with both is not refused for its attributes.
InetAccepted == error.posted => ~({"addr", "port"} \subseteq error.attribs)
-----------------------------------------------------------------------------
(* The inductive invariant behind TypeOK, KeptWhileShown and HandlesOwned.    *)

\* The client waits for a round trip before it goes on at s.
Waiting(s) == pc \in {"roundtrip", "synced", "failed"} /\ then = s

\* Where the client is, and which context the surface has there.
Control ==
    /\ pc \in {"start", "roundtrip", "synced", "failed", "prime", "create", "attach",
               "producer", "idle", "swap", "interval", "swapped", "dead", "aborted",
               "destroyed"}
    /\ then \in {"start", "prime", "connect", "producer"}
    /\ created \in BOOLEAN
    /\ ctx.kind = "none" => ctx = NoContext
    /\ pc \in {"start", "prime", "create"} \/ Waiting("start") \/ Waiting("prime")
          => ctx = NoContext
    /\ pc = "attach" \/ Waiting("connect") => ctx.kind = "remote" /\ ~ctx.attached

\* Only without wlStreamCtl is a context attached before it has a producer.
LegacyAttached ==
    /\ (pc = "producer" \/ Waiting("producer")) /\ ctx.attached => platform.legacy
    /\ broken # {} => platform.legacy

\* The queues, and what its requests carry.
Queues ==
    /\ IsQueue(wire) /\ IsQueue(sent)
    /\ Args(wire, "create_stream")
          \subseteq [id : Stream, type : {"fd", "socket", "inet"}, attribs : SUBSET Attrib]
    /\ Args(wire, "attach_consumer") \subseteq Stream

\* Only names that have been given to a wl_eglstream are used.
Ids ==
    LET used == 1..(nextId - 1) IN
    /\ {ctx.id, content} \union Committing \subseteq used \union {NoStream}
    /\ old \union broken \union Creating \union Destroying \union Released \subseteq used
    /\ resource \subseteq used

\* The commits of one wl_eglstream follow one another: c is the content, w what
\* is on the wire and x what the surface would commit next.
Contiguous(c, w, x) ==
    LET commits == {k \in DOMAIN w : w[k].op = "commit"} IN
    /\ \A i, j, k \in commits :
          i < j /\ j < k /\ w[i].arg = w[k].arg /\ w[i].arg # NoStream => w[j].arg = w[i].arg
    /\ \A j, k \in commits : j < k /\ w[k].arg = c /\ c # NoStream => w[j].arg = c
    /\ \A i, j \in commits : i < j /\ w[i].arg = x /\ x # NoStream => w[j].arg = x
    /\ \A j \in commits : c = x /\ x # NoStream => w[j].arg = x

\* A wl_eglstream is not committed before it is created.
CreatedFirst(w) ==
    \A j, k \in DOMAIN w :
        j < k /\ w[j].op = "commit" /\ w[k].op = "create_stream" => w[j].arg # w[k].arg.id

\* What the compositor shows of the surface's streams, in order: the context in
\* use is shown from the moment it is attached, and one it lets go never returns.
Showing ==
    pc # "destroyed" =>
        /\ Shown \subseteq proxies \union broken
        /\ ctx.id \in Shown => ctx.attached
        /\ Connected /\ ctx.attached /\ ctx.id # NoStream => ctx.id \in Shown
        /\ Released \intersect (Shown \union {ctx.id}) = {}
        /\ Connected => old \subseteq Shown \union Released
        /\ Contiguous(content, wire, ctx.id)

\* A live wl_buffer has its resource, or will when its creation is handled.
Existing ==
    /\ ~Connected => wire = <<>>
    /\ Connected => proxies \subseteq resource \union Creating
    /\ Destroying \intersect proxies = {}
    /\ content \notin Creating /\ CreatedFirst(wire)

\* The contexts, the connection between them and the compositor's resources.
Contexts == ContextsOK /\ Queues /\ Ids /\ Showing /\ Existing

\* A descriptor that is still to be used is that of a live resource.
Handles ==
    /\ wlStream \in [Stream -> [type : {"fd", "socket", "inet"}, handle : BOOLEAN,
                                eglStream : BOOLEAN]]
    /\ error \in [posted : BOOLEAN, attribs : SUBSET Attrib]
    /\ \A id \in Stream : wlStream[id].handle => id \in resource

\* What was made of the last burst, once a creation has looked at it.
Taken ==
    feedbackDone /\ ~unprocessedFeedback =>
        prime = PrimeState /\ (ctx.kind = "local" => layout = Modifiers)

\* The feedback behind FeedbackSettled; the events go with the surface.
SettledInv == (pc # "destroyed" => Reading) /\ Taken

IInv ==
    /\ TypeOK /\ Parsing /\ Control /\ LegacyAttached
    /\ Contexts /\ Handles /\ HandlesOwned
=============================================================================
