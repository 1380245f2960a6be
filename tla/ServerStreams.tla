---------------------------- MODULE ServerStreams ----------------------------
(***************************************************************************)
(* The compositor's side (wayland-eglstream-server.c, wayland-eglstream.c):   *)
(* wl_eglstream resources, the file descriptor each one owns until a stream   *)
(* is made of it, and the errors that end the connection.                    *)
(*                                                                         *)
(* The compositor itself is external: it creates the consumer's stream when   *)
(* the controller asks for it, and for a committed wl_eglstream that has      *)
(* none, and releases a buffer when the surface gets another one.             *)
(***************************************************************************)
EXTENDS Connection

CONSTANT MaxStreams     \* bound: wl_eglstream objects in a behaviour

ASSUME StreamsAssumption == MaxStreams \in Nat \ {0}

Stream == 1..MaxStreams
NoStream == 0           \* a buffer that is no wl_eglstream, or no buffer at all

VARIABLES
    resource,   \* the live wl_eglstream resources
    wlStream,   \* what each of them has: its type, handle # -1, eglStream
    fd,         \* the descriptor received with it, or connected for it
    timedOut,   \* history: streams the producer connected to too late
    error,      \* the protocol error posted, and the attributes it was for
    content     \* the surface's content: a stream or NoStream

serverVars == <<resource, wlStream, fd, timedOut, error, content>>

Attrib == {"addr", "port", "y_inverted"}
NewStream(type) == [type |-> type, handle |-> TRUE, eglStream |-> FALSE]

ServerInit ==
    /\ resource = {} /\ timedOut = {}
    /\ wlStream = [id \in Stream |-> [NewStream("fd") EXCEPT !.handle = FALSE]]
    /\ fd = [id \in Stream |-> "none"]
    /\ error = [posted |-> FALSE, attribs |-> {}]
    /\ content = NoStream

Connected == ~error.posted

-----------------------------------------------------------------------------
(* Resources                                                                 *)

Closed(state) == IF state = "open" THEN "closed" ELSE "twice"

\* destroy_wl_eglstream_resource, for each of S.
DestroyResources(S) ==
    LET owners == {id \in S \intersect resource : wlStream[id].handle} IN
    /\ resource' = resource \ S
    /\ fd' = [id \in Stream |-> IF id \in owners THEN Closed(fd[id]) ELSE fd[id]]
    /\ wlStream' = [id \in Stream |->
                        IF id \in owners THEN [wlStream[id] EXCEPT !.handle = FALSE]
                                         ELSE wlStream[id]]

\* handle_create_stream.  The dummy descriptor of an inet stream is closed at
\* once and a connected socket takes its place.
HandleCreateStream ==
    /\ Connected /\ Handle("create_stream")
    /\ LET r == RequestArg
       IN  IF r.type = "inet" /\ r.attribs # {"addr", "port"}
           THEN /\ error' = [posted |-> TRUE, attribs |-> r.attribs]
                /\ DestroyResources(resource)
                /\ wire' = <<>>
           ELSE /\ resource' = resource \union {r.id}
                /\ wlStream' = [wlStream EXCEPT ![r.id] = NewStream(r.type)]
                /\ fd' = [fd EXCEPT ![r.id] = "open"]
                /\ wire' = Tail(wire)
                /\ UNCHANGED error
    /\ UNCHANGED <<sent, failures, timedOut, content>>

HandleDestroy ==
    /\ Connected /\ Handle("destroy")
    /\ DestroyResources(RequestArg)
    /\ wire' = Tail(wire)
    /\ UNCHANGED <<sent, failures, timedOut, error, content>>

\* The compositor ends the connection, for a reason of its own.
Disconnect ==
    /\ Connected /\ Fail
    /\ error' = [posted |-> TRUE, attribs |-> {}]
    /\ DestroyResources(resource)
    /\ wire' = <<>>
    /\ UNCHANGED <<sent, timedOut, content>>

-----------------------------------------------------------------------------
(* wlEglCreateStreamAttribHook with EGL_WAYLAND_EGLSTREAM_WL                   *)

\* Mutant: the descriptor is closed and the handle kept.
CreateFromFdKeepsHandle(id) ==
    /\ wlStream[id].type = "fd"
    /\ fd' = [fd EXCEPT ![id] = Closed(@)]
    /\ \/ /\ wlStream' = [wlStream EXCEPT ![id].eglStream = TRUE]
          /\ UNCHANGED failures
       \/ Fail /\ UNCHANGED wlStream
    /\ UNCHANGED timedOut

\* eglCreateStreamFromFileDescriptorKHR; the descriptor is closed either way.  A
\* call refused for an extension or an attribute leaves it as it is.
CreateFromFd(id) ==
    /\ wlStream[id].type = "fd"
    /\ \/ /\ wlStream' = [wlStream EXCEPT ![id].handle = FALSE, ![id].eglStream = TRUE]
          /\ fd' = [fd EXCEPT ![id] = Closed(@)]
          /\ UNCHANGED failures
       \/ /\ Fail
          /\ wlStream' = [wlStream EXCEPT ![id].handle = FALSE]
          /\ fd' = [fd EXCEPT ![id] = Closed(@)]
       \/ Fail /\ UNCHANGED <<wlStream, fd>>
    /\ UNCHANGED timedOut

\* The socket belongs to the stream once there is one.  If the producer has not
\* connected after a second, the stream goes and takes the socket along.  A refused
\* or failed call before that leaves the socket with the wl_eglstream.
CreateFromSocket(id) ==
    /\ wlStream[id].type # "fd"
    /\ \/ /\ wlStream' = [wlStream EXCEPT ![id].handle = FALSE, ![id].eglStream = TRUE]
          /\ fd' = [fd EXCEPT ![id] = "stream"]
          /\ UNCHANGED <<timedOut, failures>>
       \/ Fail /\ UNCHANGED <<wlStream, fd, timedOut>>
       \/ /\ Fail
          /\ fd' = [fd EXCEPT ![id] = Closed(@)]
          /\ timedOut' = timedOut \union {id}
          /\ UNCHANGED wlStream

CreateStream(id) ==
    IF wlStream[id].handle /\ ~wlStream[id].eglStream
    THEN CreateFromFd(id) \/ CreateFromSocket(id)
    ELSE UNCHANGED <<wlStream, fd, timedOut, failures>>

-----------------------------------------------------------------------------
(* The compositor                                                            *)

\* attach_eglstream_consumer.
HandleConsumer ==
    /\ Connected /\ Handle("attach_consumer")
    /\ CreateStream(RequestArg)
    /\ wire' = Tail(wire)
    /\ UNCHANGED <<sent, resource, error, content>>

\* wl_surface.attach and commit.
HandleCommit ==
    /\ Connected /\ Handle("commit")
    /\ content' = RequestArg
    /\ sent' = IF content \in resource \ {RequestArg}
               THEN sent \o Event("release", content) ELSE sent
    /\ IF RequestArg \in resource THEN CreateStream(RequestArg)
       ELSE UNCHANGED <<wlStream, fd, timedOut, failures>>
    /\ wire' = Tail(wire)
    /\ UNCHANGED <<resource, error>>

\* handle_swap_interval: what the override does to surface->swapInterval is not
\* modelled.
HandleSwapInterval ==
    /\ Connected /\ Handle("swap_interval")
    /\ wire' = Tail(wire)
    /\ UNCHANGED <<sent, failures, serverVars>>

HandleSync ==
    /\ Connected /\ Handle("sync")
    /\ sent' = sent \o Event("sync", 0)
    /\ wire' = Tail(wire)
    /\ UNCHANGED <<failures, serverVars>>

HandleRequest ==
    \/ HandleCreateStream \/ HandleDestroy \/ HandleConsumer \/ HandleCommit
    \/ HandleSwapInterval \/ HandleSync \/ Disconnect
=============================================================================
