------------------------- MODULE SurfaceStreams_proofs -------------------------
(* The contexts of a surface, proved for every set of platforms and bursts and *)
(* every bound: IInv is an invariant, and with it TypeOK, KeptWhileShown and   *)
(* HandlesOwned.                                                              *)
EXTENDS SurfaceStreams, DmaBufFeedback_proofs

-----------------------------------------------------------------------------
(* The commits on the wire                                                    *)

\* An empty wire, and a name that is neither content nor committed.
LEMMA ContiguousEmpty ==
    ASSUME NEW c, NEW x
    PROVE  Contiguous(c, <<>>, x) /\ CreatedFirst(<<>>)
  BY DEF Contiguous, CreatedFirst

\* The surface's next context is one it has never committed.
LEMMA ContiguousNew ==
    ASSUME NEW c, NEW w, NEW x, NEW y, Contiguous(c, w, x),
           y = NoStream \/ (y # c /\ y \notin Args(w, "commit"))
    PROVE  Contiguous(c, w, y)
  BY DEF Contiguous, Args

\* The surface commits its context, if any.
LEMMA ContiguousSent ==
    ASSUME NEW c, NEW w, NEW s, NEW x, IsQueue(w), IsQueue(s),
           Contiguous(c, w, x), Args(s, "commit") \subseteq {x}
    PROVE  Contiguous(c, w \o s, x)
  <1> DEFINE n == Len(w)
             m == Len(s)
             u == w \o s
             commits == {k \in DOMAIN u : u[k].op = "commit"}
  <1>1. /\ n \in Nat /\ m \in Nat
        /\ DOMAIN w = 1..n /\ DOMAIN s = 1..m
        /\ DOMAIN u = 1..(n + m)
        /\ \A k \in 1..n : u[k] = w[k]
        /\ \A k \in (n + 1)..(n + m) : u[k] = s[k - n] /\ k - n \in 1..m
    BY Sending, QueueShape
  <1> HIDE DEF n, m, u
  <1>2. \A k \in commits : k \in 1..n \/ (k \in (n + 1)..(n + m) /\ u[k].arg = x)
    <2> SUFFICES ASSUME NEW k \in commits, k \notin 1..n
                 PROVE  k \in (n + 1)..(n + m) /\ u[k].arg = x
      OBVIOUS
    <2>1. k \in (n + 1)..(n + m) /\ u[k].op = "commit"
      BY <1>1
    <2>2. u[k] = s[k - n] /\ k - n \in DOMAIN s
      BY <1>1, <2>1
    <2> QED
      BY <2>1, <2>2 DEF Args
  <1>3. \A k \in commits : k \in 1..n => k \in DOMAIN w /\ w[k].op = "commit" /\ u[k] = w[k]
    BY <1>1
  <1>4. \A k \in commits : k \in Int
    BY <1>1
  <1>5. \A i, j \in commits : i < j /\ j \in 1..n => i \in 1..n
    BY <1>1
  <1> HIDE DEF commits
  <1>6. \A i, j, k \in commits :
          i < j /\ j < k /\ u[i].arg = u[k].arg /\ u[i].arg # NoStream => u[j].arg = u[i].arg
    BY <1>2, <1>3, <1>4, <1>5 DEF Contiguous
  <1>7. \A j, k \in commits : j < k /\ u[k].arg = c /\ c # NoStream => u[j].arg = c
    BY <1>2, <1>3, <1>4, <1>5 DEF Contiguous
  <1>8. \A i, j \in commits : i < j /\ u[i].arg = x /\ x # NoStream => u[j].arg = x
    BY <1>2, <1>3, <1>4, <1>5 DEF Contiguous
  <1>9. \A j \in commits : c = x /\ x # NoStream => u[j].arg = x
    BY <1>2, <1>3 DEF Contiguous
  <1> QED
    BY <1>6, <1>7, <1>8, <1>9 DEF Contiguous, commits, u

\* The compositor handles a request: another one, or the first commit, whose
\* wl_eglstream becomes the content.
LEMMA ContiguousTaken ==
    ASSUME NEW c, NEW w, NEW x, IsQueue(w), w # <<>>, Contiguous(c, w, x)
    PROVE  /\ Head(w).op # "commit" => Contiguous(c, Tail(w), x)
           /\ Head(w).op = "commit" =>
                 /\ Contiguous(Head(w).arg, Tail(w), x)
                 /\ c # Head(w).arg /\ c # NoStream => c \notin Args(Tail(w), "commit")
                 /\ c # Head(w).arg /\ c # NoStream => c # x
  <1> DEFINE n == Len(w)
             t == Tail(w)
             commits == {k \in DOMAIN t : t[k].op = "commit"}
  <1>1. /\ n \in Nat \ {0}
        /\ DOMAIN w = 1..n /\ DOMAIN t = 1..(n - 1)
        /\ Head(w) = w[1]
        /\ \A k \in 1..(n - 1) : t[k] = w[k + 1]
    BY Taking, QueueShape
  <1> HIDE DEF n, t
  <1>2. \A k \in commits : /\ k \in Int /\ 1 < k + 1
                           /\ k + 1 \in {i \in DOMAIN w : w[i].op = "commit"}
                           /\ t[k].arg = w[k + 1].arg
    BY <1>1
  <1>3. Head(w).op = "commit" => 1 \in {i \in DOMAIN w : w[i].op = "commit"}
    BY <1>1
  <1>4. \A i, j \in commits : i < j => i + 1 < j + 1
    BY <1>2
  <1>5. Args(t, "commit") = {t[k].arg : k \in commits}
    BY DEF Args
  <1> HIDE DEF commits
  <1>6. /\ \A i, j, k \in commits :
             i < j /\ j < k /\ t[i].arg = t[k].arg /\ t[i].arg # NoStream => t[j].arg = t[i].arg
        /\ \A j, k \in commits : j < k /\ t[k].arg = c /\ c # NoStream => t[j].arg = c
        /\ \A i, j \in commits : i < j /\ t[i].arg = x /\ x # NoStream => t[j].arg = x
        /\ \A j \in commits : c = x /\ x # NoStream => t[j].arg = x
    BY <1>2, <1>4 DEF Contiguous
  <1>7. ASSUME Head(w).op = "commit"
        PROVE  /\ \A j, k \in commits :
                     j < k /\ t[k].arg = w[1].arg /\ w[1].arg # NoStream => t[j].arg = w[1].arg
               /\ \A j \in commits : w[1].arg = x /\ x # NoStream => t[j].arg = x
               /\ \A j \in commits : t[j].arg = c /\ c # NoStream => w[1].arg = c
               /\ c = x /\ x # NoStream => w[1].arg = x
    BY <1>2, <1>3, <1>4, <1>7 DEF Contiguous
  <1> QED
    BY <1>1, <1>5, <1>6, <1>7 DEF Contiguous, commits, t

\* No wl_eglstream is created after it was committed: on the wire when requests
\* are sent,
LEMMA CreatedFirstSent ==
    ASSUME NEW w, NEW s, IsQueue(w), IsQueue(s), CreatedFirst(w), CreatedFirst(s),
           \A r \in Args(s, "create_stream") : r.id \notin Args(w, "commit")
    PROVE  CreatedFirst(w \o s)
  <1> DEFINE n == Len(w)
             m == Len(s)
             u == w \o s
  <1>1. /\ n \in Nat /\ m \in Nat
        /\ DOMAIN w = 1..n /\ DOMAIN s = 1..m
        /\ DOMAIN u = 1..(n + m)
        /\ \A k \in 1..n : u[k] = w[k]
        /\ \A k \in (n + 1)..(n + m) : u[k] = s[k - n] /\ k - n \in 1..m
    BY Sending, QueueShape
  <1> HIDE DEF n, m, u
  <1> SUFFICES ASSUME NEW j \in 1..(n + m), NEW k \in 1..(n + m), j < k,
                      u[j].op = "commit", u[k].op = "create_stream"
               PROVE  u[j].arg # u[k].arg.id
    BY <1>1 DEF CreatedFirst, u
  <1>2. CASE k \in 1..n
    BY <1>1, <1>2 DEF CreatedFirst
  <1>3. CASE k \in (n + 1)..(n + m) /\ j \in 1..n
    <2>1. u[j].arg \in Args(w, "commit") /\ u[k].arg \in Args(s, "create_stream")
      BY <1>1, <1>3 DEF Args
    <2> QED
      BY <2>1
  <1>4. CASE j \in (n + 1)..(n + m) /\ k \in (n + 1)..(n + m)
    <2>1. /\ j - n \in DOMAIN s /\ k - n \in DOMAIN s /\ j - n < k - n
          /\ u[j] = s[j - n] /\ u[k] = s[k - n]
      BY <1>1, <1>4
    <2> QED
      BY <2>1 DEF CreatedFirst
  <1> QED
    BY <1>1, <1>2, <1>3, <1>4

\* and when one is handled, which is not created any more if it is a commit.
LEMMA CreatedFirstTaken ==
    ASSUME NEW w, IsQueue(w), w # <<>>, CreatedFirst(w)
    PROVE  /\ CreatedFirst(Tail(w))
           /\ Head(w).op = "commit" =>
                 \A r \in Args(Tail(w), "create_stream") : Head(w).arg # r.id
  <1> DEFINE n == Len(w)
             t == Tail(w)
  <1>1. /\ n \in Nat \ {0}
        /\ DOMAIN w = 1..n /\ DOMAIN t = 1..(n - 1)
        /\ Head(w) = w[1]
        /\ \A k \in 1..(n - 1) : t[k] = w[k + 1]
    BY Taking, QueueShape
  <1> HIDE DEF n, t
  <1>2. /\ 1 \in DOMAIN w
        /\ \A k \in DOMAIN t : k + 1 \in DOMAIN w /\ 1 < k + 1 /\ t[k] = w[k + 1]
        /\ \A j, k \in DOMAIN t : j < k => j + 1 < k + 1
    BY <1>1
  <1>3. CreatedFirst(t)
    BY <1>2 DEF CreatedFirst
  <1>4. ASSUME Head(w).op = "commit", NEW r \in Args(t, "create_stream")
        PROVE  Head(w).arg # r.id
    <2>1. PICK k \in DOMAIN t : t[k].op = "create_stream" /\ r = t[k].arg
      BY <1>4 DEF Args
    <2> QED
      BY <1>1, <1>2, <1>4, <2>1 DEF CreatedFirst
  <1> QED
    BY <1>3, <1>4 DEF t

-----------------------------------------------------------------------------
(* The contexts, step by step: what the surface asks for                      *)

\* What is on the wire once requests have been sent.
LEMMA RequestsSent ==
    ASSUME Queues, Existing, NEW s, IsQueue(s), Requests(s)
    PROVE  /\ IsQueue(wire')
           /\ Connected => wire' = wire \o s
           /\ ~Connected => wire' = <<>> /\ wire = <<>>
           /\ \A op : Args(wire', op) \subseteq Args(wire, op) \union Args(s, op)
           /\ \A op : Connected => Args(wire', op) = Args(wire, op) \union Args(s, op)
  <1>1. CASE Connected
    <2>1. wire' = wire \o s /\ IsQueue(wire)
      BY <1>1 DEF Requests, Queues
    <2> QED
      BY <1>1, <2>1, Sending, ArgsSent
  <1>2. CASE ~Connected
    <2>1. wire' = <<>> /\ wire = <<>>
      BY <1>2 DEF Requests, Existing
    <2> QED
      BY <1>2, <2>1, OneMessage, ArgsOne
  <1> QED
    BY <1>1, <1>2

\* Requests with a round trip behind them.
LEMMA SyncSent ==
    ASSUME NEW s, IsQueue(s)
    PROVE  /\ IsQueue(s \o Request("sync", 0))
           /\ \A op : op # "sync" => Args(s \o Request("sync", 0), op) = Args(s, op)
  <1> DEFINE r == Request("sync", 0)
  <1>1. IsQueue(r)
    BY OneMessage
  <1>2. \A op : op # "sync" => Args(r, op) = {}
    BY ArgsOne
  <1> HIDE DEF r
  <1>3. IsQueue(s \o r) /\ \A op : Args(s \o r, op) = Args(s, op) \union Args(r, op)
    BY <1>1, Sending, ArgsSent
  <1> QED
    BY <1>2, <1>3 DEF r

\* The requests that destroy wl_eglstreams.
LEMMA DestroySent ==
    ASSUME NEW S
    PROVE  /\ IsQueue(DestroyRequest(S)) /\ CreatedFirst(DestroyRequest(S))
           /\ UNION Args(DestroyRequest(S), "destroy") = S
           /\ \A op : op # "destroy" => Args(DestroyRequest(S), op) = {}
  <1>1. CASE S = {}
    BY <1>1, OneMessage, ArgsOne, ContiguousEmpty DEF DestroyRequest
  <1>2. CASE S # {}
    <2>1. DestroyRequest(S) = Request("destroy", S)
      BY <1>2 DEF DestroyRequest
    <2>2. CreatedFirst(Request("destroy", S))
      BY DEF Request, CreatedFirst
    <2>3. Args(Request("destroy", S), "destroy") = {S}
      BY ArgsOne
    <2>4. UNION Args(Request("destroy", S), "destroy") = S
      BY <2>3
    <2>5. \A op : op # "destroy" => Args(Request("destroy", S), op) = {}
      BY ArgsOne
    <2>6. IsQueue(Request("destroy", S))
      BY OneMessage
    <2> QED
      BY <2>1, <2>2, <2>4, <2>5, <2>6
  <1> QED
    BY <1>1, <1>2

\* The surface asks for nothing that concerns its contexts, or commits the one it
\* has.
LEMMA ContextSends ==
    ASSUME Contexts, pc # "destroyed",
           UNCHANGED <<old, proxies, nextId, broken, sent, resource, content, error>>,
           NEW s, IsQueue(s), Requests(s), Args(s, "commit") \subseteq {ctx.id},
           Args(s, "create_stream") = {}, Args(s, "destroy") = {},
           Args(s, "attach_consumer") \subseteq Stream,
           NEW a \in BOOLEAN, ctx' = [ctx EXCEPT !.attached = a],
           a = (ctx.attached \/ Args(s, "commit") # {})
    PROVE  Contexts'
  <1> USE StreamsAssumption
  <1>1. ContextsOK /\ Queues /\ Ids /\ Showing /\ Existing
    BY DEF Contexts
  <1>2. /\ IsQueue(wire')
        /\ Connected => wire' = wire \o s
        /\ ~Connected => wire' = <<>> /\ wire = <<>>
        /\ \A op : Args(wire', op) \subseteq Args(wire, op) \union Args(s, op)
        /\ \A op : Connected => Args(wire', op) = Args(wire, op) \union Args(s, op)
    BY <1>1, RequestsSent
  <1>3. ctx'.id = ctx.id /\ ctx'.kind = ctx.kind /\ ctx'.attached = a
    BY <1>1 DEF ContextsOK
  <1>4. ContextsOK'
    BY <1>1, <1>3 DEF ContextsOK, CtxStreams
  <1>5. Queues'
    BY <1>1, <1>2 DEF Queues
  <1>6. Committing' \subseteq Committing \union {ctx.id}
    BY <1>2 DEF Committing
  <1>7. Creating' \subseteq Creating /\ Destroying' \subseteq Destroying
    BY <1>2 DEF Creating, Destroying
  <1>8. Connected => Creating' = Creating
    BY <1>2 DEF Creating
  <1>9. Connected' = Connected /\ Released' = Released
    BY DEF Connected, Released
  <1>10. Ids'
    BY <1>1, <1>3, <1>6, <1>7, <1>9 DEF Ids
  <1>11. CreatedFirst(wire') /\ Contiguous(content, wire', ctx.id)
    <2>1. CASE Connected
      <3>1. CreatedFirst(s)
        BY DEF CreatedFirst, Args
      <3>2. wire' = wire \o s /\ IsQueue(wire) /\ CreatedFirst(wire)
        BY <1>1, <1>2, <2>1 DEF Queues, Existing
      <3>3. CreatedFirst(wire \o s)
        BY <3>1, <3>2, CreatedFirstSent
      <3>4. Contiguous(content, wire, ctx.id)
        BY <1>1 DEF Showing
      <3>5. Contiguous(content, wire \o s, ctx.id)
        BY <3>2, <3>4, ContiguousSent
      <3> QED
        BY <3>2, <3>3, <3>5
    <2>2. CASE ~Connected
      BY <1>2, <2>2, ContiguousEmpty
    <2> QED
      BY <2>1, <2>2
  <1>12. Existing'
    BY <1>1, <1>2, <1>7, <1>8, <1>9, <1>11 DEF Existing
  <1>13. Shown' \subseteq Shown \union ({ctx.id} \ {NoStream})
    BY <1>6 DEF Shown
  <1>14. Connected => /\ Shown \subseteq Shown'
                      /\ Args(s, "commit") # {} /\ ctx.id # NoStream => ctx.id \in Shown'
    BY <1>2 DEF Shown, Committing
  <1>15. ~Connected => Shown' = Shown
    BY <1>2 DEF Shown, Committing
  <1>16. Showing'
    <2>1. Shown' \subseteq proxies \union broken
      BY <1>1, <1>13 DEF Showing, ContextsOK, CtxStreams
    <2>2. ctx'.id \in Shown' => ctx'.attached
      BY <1>1, <1>3, <1>13, <1>14, <1>15, <1>2 DEF Showing, Shown, Committing
    <2>3. Connected /\ ctx'.attached /\ ctx'.id # NoStream => ctx'.id \in Shown'
      BY <1>1, <1>3, <1>14 DEF Showing
    <2>4. Released \intersect (Shown' \union {ctx.id}) = {}
      BY <1>1, <1>13 DEF Showing
    <2>5. Connected => old \subseteq Shown' \union Released
      BY <1>1, <1>14 DEF Showing
    <2> QED
      BY <1>3, <1>9, <1>11, <2>1, <2>2, <2>3, <2>4, <2>5 DEF Showing
  <1> QED
    BY <1>4, <1>5, <1>10, <1>12, <1>16 DEF Contexts

\* A surface without a context has put off all the wl_buffers it has.
LEMMA NoContextOK ==
    ASSUME ContextsOK, ctx' = NoContext, proxies' = old', NoStream \notin old',
           nextId' = nextId
    PROVE  ContextsOK'
  <1>1. ctx' \in [kind : {"none", "local", "remote"}, id : Stream \union {NoStream},
                  attached : BOOLEAN]
    BY DEF NoContext
  <1>2. ctx'.id = NoStream /\ ctx'.kind = "none"
    BY DEF NoContext
  <1>3. proxies' = CtxStreams' \union old'
    BY <1>2 DEF CtxStreams
  <1>4. ctx'.id \notin old' /\ nextId' \in 1..(MaxStreams + 1)
    BY <1>2 DEF ContextsOK
  <1> QED
    BY <1>1, <1>2, <1>3, <1>4 DEF ContextsOK

\* wl_eglstreams S are destroyed, because a context or what was put off goes.
LEMMA LettingGo ==
    ASSUME ContextsOK, Queues, Ids, Existing,
           NEW S, S \subseteq proxies, Requests(DestroyRequest(S)), proxies' = proxies \ S,
           UNCHANGED <<nextId, resource, content, error>>,
           IsQueue(sent'), Released' \subseteq Released,
           ctx'.id \in {ctx.id, NoStream}, old' \subseteq old,
           broken' \subseteq broken \union CtxStreams
    PROVE  /\ Queues' /\ Ids' /\ Existing'
           /\ Connected' = Connected /\ Shown' = Shown
           /\ \A x : Contiguous(content, wire, x) => Contiguous(content, wire', x)
  <1> DEFINE s == DestroyRequest(S)
  <1>1. /\ IsQueue(s) /\ CreatedFirst(s) /\ UNION Args(s, "destroy") = S
        /\ \A op : op # "destroy" => Args(s, op) = {}
    BY DestroySent
  <1>2. /\ IsQueue(wire')
        /\ Connected => wire' = wire \o s
        /\ ~Connected => wire' = <<>> /\ wire = <<>>
        /\ \A op : Args(wire', op) \subseteq Args(wire, op) \union Args(s, op)
        /\ \A op : Connected => Args(wire', op) = Args(wire, op) \union Args(s, op)
    BY <1>1, RequestsSent
  <1> HIDE DEF s
  <1>3. \A op : op # "destroy" => Args(wire', op) = Args(wire, op)
    BY <1>1, <1>2
  <1>4. /\ Committing' = Committing /\ Creating' = Creating
        /\ Args(wire', "attach_consumer") = Args(wire, "attach_consumer")
        /\ Args(wire', "create_stream") = Args(wire, "create_stream")
    BY <1>3 DEF Committing, Creating
  <1>5. Destroying' \subseteq Destroying \union S
    BY <1>1, <1>2 DEF Destroying
  <1>6. Connected' = Connected
    BY DEF Connected
  <1>7. Queues'
    BY <1>2, <1>4 DEF Queues
  <1>8. Ids'
    BY <1>4, <1>5 DEF Ids, ContextsOK, CtxStreams
  <1>9. CreatedFirst(wire') /\ \A x : Contiguous(content, wire, x) => Contiguous(content, wire', x)
    <2>1. CASE Connected
      <3>1. wire' = wire \o s /\ IsQueue(wire) /\ CreatedFirst(wire)
        BY <1>2, <2>1 DEF Queues, Existing
      <3>2. CreatedFirst(wire \o s)
        BY <1>1, <3>1, CreatedFirstSent
      <3>3. \A x : Contiguous(content, wire, x) => Contiguous(content, wire \o s, x)
        BY <1>1, <3>1, ContiguousSent
      <3> QED
        BY <3>1, <3>2, <3>3
    <2>2. CASE ~Connected
      BY <1>2, <2>2, ContiguousEmpty
    <2> QED
      BY <2>1, <2>2
  <1>10. Existing'
    BY <1>2, <1>4, <1>5, <1>6, <1>9 DEF Existing
  <1>11. Shown' = Shown
    BY <1>4 DEF Shown
  <1> QED
    BY <1>6, <1>7, <1>8, <1>9, <1>10, <1>11

\* The surface lets its context go: the compositor does not show it, or never
\* will be told by anyone.
LEMMA ContextDropped ==
    ASSUME Contexts, pc # "destroyed",
           UNCHANGED <<old, nextId, sent, resource, content, error>>,
           ctx' = NoContext, proxies' = proxies \ CtxStreams,
           Requests(DestroyRequest(CtxStreams)),
           broken' = broken \/ broken' = broken \union CtxStreams,
           ctx.attached /\ ctx.id # NoStream => broken' = broken \union CtxStreams
    PROVE  Contexts'
  <1>1. ContextsOK /\ Queues /\ Ids /\ Showing /\ Existing
    BY DEF Contexts
  <1>2. CtxStreams \subseteq proxies /\ ctx'.id = NoStream
    BY <1>1 DEF ContextsOK, NoContext
  <1>3. IsQueue(sent') /\ Released' = Released
    BY <1>1 DEF Queues, Released
  <1>4. broken \subseteq broken' /\ broken' \subseteq broken \union CtxStreams
    OBVIOUS
  <1>5. /\ Queues' /\ Ids' /\ Existing'
        /\ Connected' = Connected /\ Shown' = Shown
        /\ \A x : Contiguous(content, wire, x) => Contiguous(content, wire', x)
    BY <1>1, <1>2, <1>3, <1>4, LettingGo
  <1>6. ContextsOK'
    <2>1. proxies' = old' /\ NoStream \notin old'
      BY <1>1 DEF ContextsOK, CtxStreams, Ids, NoStream
    <2> QED
      BY <1>1, <2>1, NoContextOK
  <1>7. Contiguous(content, wire', NoStream)
    BY <1>1, <1>5, ContiguousNew DEF Showing
  <1>8. NoStream \notin Shown /\ NoStream \notin Released
    BY <1>1 DEF Shown, Ids, NoStream, ContextsOK
  <1>9. Shown \subseteq proxies' \union broken'
    BY <1>1, <1>4 DEF Showing, CtxStreams
  <1>10. Showing'
    BY <1>1, <1>2, <1>3, <1>5, <1>7, <1>8, <1>9 DEF Showing
  <1> QED
    BY <1>5, <1>6, <1>10 DEF Contexts

\* The surface puts its context off until the compositor has released it.
LEMMA ContextPutOff ==
    ASSUME Contexts, pc # "destroyed", ctx.attached, ctx.id # NoStream,
           UNCHANGED <<proxies, nextId, broken, wire, sent, resource, content, error>>,
           ctx' = NoContext, old' = old \union {ctx.id}
    PROVE  Contexts'
  <1>1. ContextsOK /\ Queues /\ Ids /\ Showing /\ Existing
    BY DEF Contexts
  <1>2. ContextsOK'
    <2>1. proxies' = old' /\ NoStream \notin old'
      BY <1>1 DEF ContextsOK, CtxStreams, Ids, NoStream
    <2> QED
      BY <1>1, <2>1, NoContextOK
  <1>3. /\ Committing' = Committing /\ Creating' = Creating /\ Destroying' = Destroying
        /\ Released' = Released /\ Connected' = Connected /\ Shown' = Shown
    BY DEF Committing, Creating, Destroying, Released, Connected, Shown
  <1>4. Queues'
    BY <1>1 DEF Queues
  <1>5. Ids'
    BY <1>1, <1>3 DEF Ids, NoContext
  <1>6. Existing'
    BY <1>1, <1>3 DEF Existing
  <1>7. Contiguous(content, wire, NoStream)
    BY <1>1, ContiguousNew DEF Showing
  <1>8. NoStream \notin Shown /\ NoStream \notin Released
    BY <1>1 DEF Shown, Ids, NoStream, ContextsOK
  <1>9. Showing'
    BY <1>1, <1>3, <1>7, <1>8 DEF Showing, NoContext
  <1> QED
    BY <1>2, <1>4, <1>5, <1>6, <1>9 DEF Contexts

\* The compositor has released a wl_buffer whose context was put off.
LEMMA ContextReleased ==
    ASSUME Contexts, pc # "destroyed", WlBufferRelease,
           UNCHANGED <<resource, content, error>>
    PROVE  Contexts'
  <1>1. ContextsOK /\ Queues /\ Ids /\ Showing /\ Existing
    BY DEF Contexts
  <1> DEFINE S == {Arg} \intersect old
  <1>2. /\ UNCHANGED <<ctx, nextId, broken>>
        /\ old' = old \ S /\ proxies' = proxies \ S /\ Requests(DestroyRequest(S))
        /\ sent # <<>> /\ Head(sent).kind = "release" /\ sent' = Tail(sent)
    BY DEF WlBufferRelease, Dispatch
  <1>3. S \subseteq old
    OBVIOUS
  <1>4. S \subseteq {Arg}
    OBVIOUS
  <1>5. Arg \notin S => old' = old
    BY <1>2
  <1> HIDE DEF S
  <1>6. IsQueue(sent') /\ Released = Released' \union {Arg}
    BY <1>1, <1>2, Taking, ArgsTaken DEF Queues, Released, Arg
  <1>7. S \subseteq proxies
    BY <1>1, <1>3 DEF ContextsOK
  <1>8. ctx'.id \in {ctx.id, NoStream} /\ old' \subseteq old /\ broken' \subseteq broken \union CtxStreams
    BY <1>2
  <1>9. /\ Queues' /\ Ids' /\ Existing'
        /\ Connected' = Connected /\ Shown' = Shown
        /\ \A x : Contiguous(content, wire, x) => Contiguous(content, wire', x)
    BY <1>1, <1>2, <1>6, <1>7, <1>8, LettingGo
  <1>10. ContextsOK'
    <2>1. ctx.id \notin S
      BY <1>1, <1>3 DEF ContextsOK
    <2>2. proxies' = CtxStreams' \union old'
      BY <1>1, <1>2, <2>1 DEF ContextsOK, CtxStreams
    <2> QED
      BY <1>1, <1>2, <2>2 DEF ContextsOK
  <1>11. Shown \intersect S = {}
    BY <1>1, <1>4, <1>6 DEF Showing
  <1>12. Showing'
    <2>1. Shown \subseteq proxies' \union broken
      BY <1>1, <1>2, <1>11 DEF Showing
    <2>2. Released' \intersect (Shown \union {ctx.id}) = {}
      BY <1>1, <1>6 DEF Showing
    <2>3. Connected => old' \subseteq Shown \union Released'
      <3> SUFFICES ASSUME Connected, NEW id \in old'
                   PROVE  id \in Shown \union Released'
        OBVIOUS
      <3>1. id \in old /\ id # Arg
        BY <1>2 DEF S
      <3> QED
        BY <1>1, <1>6, <3>1 DEF Showing
    <2>4. Contiguous(content, wire', ctx.id)
      BY <1>1, <1>9 DEF Showing
    <2>5. /\ ctx.id \in Shown => ctx.attached
          /\ Connected /\ ctx.attached /\ ctx.id # NoStream => ctx.id \in Shown
      BY <1>1 DEF Showing
    <2> QED
      BY <1>2, <1>9, <2>1, <2>2, <2>3, <2>4, <2>5 DEF Showing
  <1> QED
    BY <1>9, <1>10, <1>12 DEF Contexts

\* The surface goes, and all contexts with it.
LEMMA ContextsDestroyed ==
    ASSUME Contexts, DestroySurface
    PROVE  Contexts'
  <1>1. ContextsOK /\ Queues /\ Ids /\ Showing /\ Existing
    BY DEF Contexts
  <1>2. /\ ctx' = NoContext /\ old' = {} /\ proxies' = proxies \ (CtxStreams \union old)
        /\ Requests(DestroyRequest(CtxStreams \union old))
        /\ sent' = <<>> /\ pc' = "destroyed"
        /\ UNCHANGED <<nextId, broken, resource, content, error>>
    BY DEF DestroySurface, Goto, serverVars
  <1>3. IsQueue(sent') /\ Released' = {}
    BY <1>2, OneMessage, ArgsOne DEF Released
  <1>4. CtxStreams \union old \subseteq proxies /\ ctx'.id = NoStream
    BY <1>1, <1>2 DEF ContextsOK, NoContext
  <1>5. Queues' /\ Ids' /\ Existing'
    BY <1>1, <1>2, <1>3, <1>4, LettingGo
  <1>6. ContextsOK'
    <2>1. proxies' = old' /\ NoStream \notin old'
      BY <1>1, <1>2 DEF ContextsOK
    <2> QED
      BY <1>1, <1>2, <2>1, NoContextOK
  <1> QED
    BY <1>2, <1>5, <1>6 DEF Contexts, Showing

\* A local context has no wl_eglstream.
LEMMA ContextLocal ==
    ASSUME Contexts, ctx.id = NoStream, ctx'.id = NoStream,
           ctx' \in [kind : {"none", "local"}, id : {NoStream}, attached : BOOLEAN],
           UNCHANGED <<old, proxies, nextId, broken, wire, sent, resource, content, error>>,
           pc # "destroyed"
    PROVE  Contexts'
  <1>1. ContextsOK /\ Queues /\ Ids /\ Showing /\ Existing
    BY DEF Contexts
  <1>2. /\ Committing' = Committing /\ Creating' = Creating /\ Destroying' = Destroying
        /\ Released' = Released /\ Connected' = Connected /\ Shown' = Shown
    BY DEF Committing, Creating, Destroying, Released, Connected, Shown
  <1>3. CtxStreams' = CtxStreams
    BY DEF CtxStreams
  <1>4. ContextsOK'
    <2>1. ctx' \in [kind : {"none", "local", "remote"}, id : Stream \union {NoStream},
                    attached : BOOLEAN] /\ ctx'.kind # "remote"
      OBVIOUS
    <2> QED
      BY <1>1, <1>3, <2>1 DEF ContextsOK
  <1>5. Queues' /\ Ids' /\ Existing'
    BY <1>1, <1>2 DEF Queues, Ids, Existing
  <1>6. NoStream \notin Shown
    BY DEF Shown
  <1>7. Showing'
    <2>1. /\ Shown \subseteq proxies \union broken
          /\ Released \intersect (Shown \union {ctx.id}) = {}
          /\ Connected => old \subseteq Shown \union Released
          /\ Contiguous(content, wire, ctx.id)
      BY <1>1 DEF Showing
    <2>2. Contiguous(content, wire, ctx.id)'
      BY <2>1
    <2> QED
      BY <1>2, <1>6, <2>1, <2>2 DEF Showing
  <1> QED
    BY <1>4, <1>5, <1>7 DEF Contexts

\* A wl_eglstream is created under a name that is new.
LEMMA ContextMade ==
    ASSUME Contexts, pc # "destroyed", ctx = NoContext,
           NEW type \in {"fd", "socket", "inet"}, NEW attribs \in SUBSET Attrib,
           NEW more, more = <<>> \/ more = Request("sync", 0),
           CreateWlEglStream(type, attribs, more)
    PROVE  Contexts'
  <1> USE StreamsAssumption DEF Stream, NoStream
  <1>1. ContextsOK /\ Queues /\ Ids /\ Showing /\ Existing
    BY DEF Contexts
  <1> DEFINE r == [id |-> nextId, type |-> type, attribs |-> attribs]
             s == Request("create_stream", r) \o more
  <1>2. /\ nextId \in Stream /\ nextId' = nextId + 1
        /\ ctx' = [kind |-> "remote", id |-> nextId, attached |-> FALSE]
        /\ proxies' = proxies \union {nextId} /\ Requests(s)
        /\ UNCHANGED <<old, broken, sent, resource, content, error>>
    BY DEF CreateWlEglStream, NoContext, serverVars
  <1>3. IsQueue(more) /\ \A op : op # "sync" => Args(more, op) = {}
    <2>1. CASE more = <<>>
      BY <2>1, OneMessage, ArgsOne
    <2>2. CASE more = Request("sync", 0)
      BY <2>2, OneMessage, ArgsOne
    <2> QED
      BY <2>1, <2>2
  <1>4. /\ IsQueue(s) /\ Args(s, "create_stream") = {r} /\ Args(s, "commit") = {}
        /\ Args(s, "destroy") = {} /\ Args(s, "attach_consumer") = {}
    <2> DEFINE c == Request("create_stream", r)
    <2> HIDE DEF r
    <2>1. \A op : Args(c, op) = IF "create_stream" = op THEN {r} ELSE {}
      BY ArgsOne
    <2>2. IsQueue(c)
      BY OneMessage
    <2> HIDE DEF c
    <2>3. /\ IsQueue(c) /\ Args(c, "create_stream") = {r} /\ Args(c, "commit") = {}
          /\ Args(c, "destroy") = {} /\ Args(c, "attach_consumer") = {}
      BY <2>1, <2>2
    <2>4. IsQueue(c \o more) /\ \A op : Args(c \o more, op) = Args(c, op) \union Args(more, op)
      BY <1>3, <2>3, Sending, ArgsSent
    <2>5. \A op : op # "sync" => Args(c \o more, op) = Args(c, op)
      BY <1>3, <2>4
    <2> QED
      BY <2>3, <2>4, <2>5 DEF c
  <1>5. r.id = nextId /\ r \in [id : Stream, type : {"fd", "socket", "inet"},
                                attribs : SUBSET Attrib]
    BY <1>2
  <1> HIDE DEF r, s
  <1>6. /\ IsQueue(wire')
        /\ Connected => wire' = wire \o s
        /\ ~Connected => wire' = <<>> /\ wire = <<>>
        /\ \A op : Args(wire', op) \subseteq Args(wire, op) \union Args(s, op)
        /\ \A op : Connected => Args(wire', op) = Args(wire, op) \union Args(s, op)
    BY <1>1, <1>2, <1>4, RequestsSent
  <1>7. /\ Committing' \subseteq Committing /\ Destroying' \subseteq Destroying
        /\ Creating' \subseteq Creating \union {nextId}
        /\ Args(wire', "attach_consumer") \subseteq Args(wire, "attach_consumer")
        /\ Args(wire', "create_stream") \subseteq Args(wire, "create_stream") \union {r}
    BY <1>4, <1>5, <1>6 DEF Committing, Destroying, Creating
  <1>8. Connected => Committing' = Committing /\ Creating' = Creating \union {nextId}
    BY <1>4, <1>5, <1>6 DEF Committing, Creating
  <1>9. Connected' = Connected /\ Released' = Released
    BY <1>2 DEF Connected, Released
  <1>10. ctx.id = NoStream /\ ctx'.id = nextId /\ ctx'.kind = "remote" /\ ~ctx'.attached
    BY <1>2 DEF NoContext
  <1>11. nextId \notin {content} \union Committing \union old \union broken \union Creating
                         \union Destroying \union Released \union resource
    BY <1>1, <1>2 DEF Ids
  <1>12. ContextsOK'
    <2>1. ctx' \in [kind : {"none", "local", "remote"}, id : Stream \union {NoStream},
                    attached : BOOLEAN] /\ nextId' \in 1..(MaxStreams + 1)
      BY <1>2
    <2>2. proxies' = CtxStreams' \union old'
      BY <1>1, <1>2, <1>10 DEF ContextsOK, CtxStreams
    <2> QED
      BY <1>2, <1>10, <1>11, <2>1, <2>2 DEF ContextsOK
  <1>13. Queues'
    BY <1>1, <1>2, <1>5, <1>6, <1>7 DEF Queues
  <1>14. Ids'
    <2>1. (1..(nextId - 1)) \union {nextId} = 1..(nextId' - 1)
      BY <1>2
    <2> QED
      BY <1>1, <1>2, <1>7, <1>9, <1>10, <2>1 DEF Ids
  <1>15. CreatedFirst(wire') /\ Contiguous(content, wire', nextId)
    <2>1. Contiguous(content, wire, nextId)
      BY <1>1, <1>11, ContiguousNew DEF Showing, Committing
    <2>2. CASE Connected
      <3>1. wire' = wire \o s /\ IsQueue(wire) /\ CreatedFirst(wire)
        BY <1>1, <1>6, <2>2 DEF Queues, Existing
      <3>2. CreatedFirst(s)
        BY <1>4 DEF CreatedFirst, Args
      <3>3. CreatedFirst(wire \o s)
        BY <1>4, <1>5, <1>11, <3>1, <3>2, CreatedFirstSent DEF Committing
      <3>4. Contiguous(content, wire \o s, nextId)
        BY <1>4, <2>1, <3>1, ContiguousSent
      <3> QED
        BY <3>1, <3>3, <3>4
    <2>3. CASE ~Connected
      BY <1>6, <2>3, ContiguousEmpty
    <2> QED
      BY <2>2, <2>3
  <1>16. Existing'
    BY <1>1, <1>2, <1>6, <1>7, <1>8, <1>9, <1>11, <1>15 DEF Existing
  <1>17. Shown' \subseteq Shown /\ (Connected => Shown' = Shown)
    BY <1>2, <1>7, <1>8 DEF Shown
  <1>18. nextId \notin Shown /\ nextId \notin Released
    BY <1>11 DEF Shown
  <1>19. Showing'
    BY <1>1, <1>2, <1>9, <1>10, <1>15, <1>17, <1>18 DEF Showing
  <1> QED
    BY <1>12, <1>13, <1>14, <1>16, <1>19 DEF Contexts

\* Nothing happens to the contexts.
LEMMA ContextsStay ==
    ASSUME Contexts, pc' = "destroyed" \/ pc # "destroyed",
           IsQueue(sent'), Released' = Released,
           UNCHANGED <<ctx, old, proxies, nextId, broken, wire, resource, content, error>>
    PROVE  Contexts'
  <1>1. ContextsOK /\ Queues /\ Ids /\ Showing /\ Existing
    BY DEF Contexts
  <1>2. /\ Committing' = Committing /\ Creating' = Creating /\ Destroying' = Destroying
        /\ Connected' = Connected /\ Shown' = Shown
    BY DEF Committing, Creating, Destroying, Connected, Shown
  <1>3. ContextsOK' /\ Queues' /\ Ids' /\ Existing'
    BY <1>1, <1>2 DEF ContextsOK, CtxStreams, Queues, Ids, Existing
  <1>4. Showing'
    BY <1>1, <1>2 DEF Showing
  <1> QED
    BY <1>3, <1>4 DEF Contexts

-----------------------------------------------------------------------------
(* The contexts, step by step: what the compositor handles                    *)

\* A request that is no commit: only a creation and a destruction concern the
\* wl_eglstreams.
LEMMA ContextsHandled ==
    ASSUME Contexts, Connected, wire # <<>>, wire' = Tail(wire), Head(wire).op # "commit",
           UNCHANGED <<pc, ctx, old, proxies, nextId, broken, content, error>>,
           IsQueue(sent'), Released' = Released,
           resource' = IF Head(wire).op = "create_stream"
                       THEN resource \union {Head(wire).arg.id}
                       ELSE IF Head(wire).op = "destroy" THEN resource \ Head(wire).arg
                       ELSE resource
    PROVE  Contexts'
  <1>1. ContextsOK /\ Queues /\ Ids /\ Showing /\ Existing
    BY DEF Contexts
  <1> DEFINE op == Head(wire).op
             arg == Head(wire).arg
  <1>2. /\ IsQueue(wire) /\ IsQueue(wire')
        /\ \A o : Args(wire, o) = Args(wire', o) \union (IF op = o THEN {arg} ELSE {})
    BY <1>1, Taking, ArgsTaken DEF Queues
  <1> HIDE DEF op, arg
  <1>3. Committing' = Committing
    BY <1>2 DEF op, Committing
  <1>4. Connected' = Connected /\ Shown' = Shown
    BY <1>3 DEF Connected, Shown
  <1>5. /\ Args(wire', "create_stream") \subseteq Args(wire, "create_stream")
        /\ Args(wire', "attach_consumer") \subseteq Args(wire, "attach_consumer")
        /\ Creating' \subseteq Creating /\ Destroying' \subseteq Destroying
    BY <1>2 DEF Creating, Destroying
  <1>6. op = "create_stream" => Creating = Creating' \union {arg.id}
    BY <1>2 DEF Creating
  <1>7. op # "create_stream" => Creating' = Creating
    BY <1>2 DEF Creating
  <1>8. op = "destroy" => arg \subseteq Destroying
    BY <1>2 DEF Destroying
  <1>9. ContextsOK' /\ Queues'
    BY <1>1, <1>2, <1>5 DEF ContextsOK, CtxStreams, Queues
  <1>10. Ids'
    <2>1. resource' \subseteq resource \union Creating
      BY <1>6 DEF op, arg
    <2> QED
      BY <1>1, <1>3, <1>5, <2>1 DEF Ids
  <1>11. CreatedFirst(wire') /\ (pc # "destroyed" => Contiguous(content, wire', ctx.id))
    <2>1. CreatedFirst(wire')
      BY <1>1, <1>2, CreatedFirstTaken DEF Existing
    <2>2. pc # "destroyed" => Contiguous(content, wire', ctx.id)
      BY <1>1, <1>2, ContiguousTaken DEF Showing
    <2> QED
      BY <2>1, <2>2
  <1>12. proxies \subseteq resource' \union Creating'
    <2>1. CASE op = "create_stream"
      BY <1>1, <1>6, <2>1 DEF Existing, op, arg
    <2>2. CASE op = "destroy"
      BY <1>1, <1>7, <1>8, <2>2 DEF Existing, op, arg
    <2>3. CASE op # "create_stream" /\ op # "destroy"
      BY <1>1, <1>7, <2>3 DEF Existing, op, arg
    <2> QED
      BY <2>1, <2>2, <2>3
  <1>13. Existing'
    BY <1>1, <1>4, <1>5, <1>11, <1>12 DEF Existing
  <1>14. Showing'
    BY <1>1, <1>4, <1>11 DEF Showing
  <1> QED
    BY <1>9, <1>10, <1>13, <1>14 DEF Contexts

\* The compositor ends the connection: what was on the wire is lost.
LEMMA ContextsCut ==
    ASSUME Contexts, wire' = <<>>, resource' \subseteq resource, error'.posted,
           UNCHANGED <<pc, ctx, old, proxies, nextId, broken, content, sent>>
    PROVE  Contexts'
  <1>1. ContextsOK /\ Queues /\ Ids /\ Showing /\ Existing
    BY DEF Contexts
  <1>2. /\ IsQueue(wire') /\ \A o : Args(wire', o) = {}
        /\ \A x : Contiguous(content, wire', x) /\ CreatedFirst(wire')
    BY OneMessage, ArgsOne, ContiguousEmpty
  <1>3. /\ Committing' = {} /\ Creating' = {} /\ Destroying' = {} /\ Released' = Released
        /\ ~Connected'
    BY <1>2 DEF Committing, Creating, Destroying, Released, Connected
  <1>4. Shown' \subseteq Shown
    BY <1>3 DEF Shown
  <1>5. ContextsOK' /\ Queues'
    BY <1>1, <1>2 DEF ContextsOK, CtxStreams, Queues
  <1>6. Ids'
    BY <1>1, <1>3 DEF Ids
  <1>7. Existing'
    BY <1>2, <1>3 DEF Existing
  <1>8. Showing'
    BY <1>1, <1>2, <1>3, <1>4 DEF Showing
  <1> QED
    BY <1>5, <1>6, <1>7, <1>8 DEF Contexts

\* The compositor shows what the surface has committed, and releases what it showed
\* before: another wl_eglstream than the surface's, and one not committed again.
LEMMA ContextsShown ==
    ASSUME Contexts, HandleCommit, UNCHANGED <<pc, ctx, old, proxies, nextId, broken>>
    PROVE  Contexts'
  <1>1. ContextsOK /\ Queues /\ Ids /\ Showing /\ Existing
    BY DEF Contexts
  <1> DEFINE arg == Head(wire).arg
             t == Tail(wire)
  <1>2. /\ Connected /\ wire # <<>> /\ Head(wire).op = "commit" /\ wire' = t
        /\ content' = arg /\ UNCHANGED <<resource, error>>
        /\ sent' = IF content \in resource \ {arg} THEN sent \o Event("release", content)
                   ELSE sent
    BY DEF HandleCommit, Handle, RequestArg
  <1>3. /\ IsQueue(wire) /\ IsQueue(t)
        /\ \A o : Args(wire, o) = Args(t, o) \union (IF "commit" = o THEN {arg} ELSE {})
    BY <1>1, <1>2, Taking, ArgsTaken DEF Queues
  <1> DEFINE released == IF content \in resource \ {arg} THEN {content} ELSE {}
  <1>4. IsQueue(sent') /\ Released' = Released \union released
    <2>1. CASE content \in resource \ {arg}
      <3>1. /\ IsQueue(sent \o Event("release", content))
            /\ EventArgs(sent \o Event("release", content), "release")
                 = EventArgs(sent, "release") \union {content}
        <4>1. IsQueue(sent) /\ IsQueue(Event("release", content))
          BY <1>1, OneMessage DEF Queues
        <4>2. EventArgs(Event("release", content), "release") = {content}
          BY ArgsOne
        <4> QED
          BY <4>1, <4>2, Sending, ArgsSent
      <3> QED
        BY <1>2, <2>1, <3>1 DEF Released
    <2>2. CASE ~(content \in resource \ {arg})
      BY <1>1, <1>2, <2>2 DEF Queues, Released
    <2> QED
      BY <2>1, <2>2
  <1>5. /\ CreatedFirst(t) /\ \A r \in Args(t, "create_stream") : arg # r.id
    BY <1>1, <1>2, <1>3, CreatedFirstTaken DEF Existing
  <1>6. ASSUME pc # "destroyed"
        PROVE  /\ Contiguous(arg, t, ctx.id)
               /\ content # arg /\ content # NoStream => content \notin Args(t, "commit")
               /\ content # arg /\ content # NoStream => content # ctx.id
    BY <1>1, <1>2, <1>3, <1>6, ContiguousTaken DEF Showing
  <1> HIDE DEF arg, t, released
  <1>7. /\ Committing = Committing' \union {arg} /\ Committing' = Args(t, "commit")
        /\ Creating' = Creating /\ Destroying' = Destroying /\ Connected' = Connected
        /\ Args(wire', "create_stream") = Args(wire, "create_stream")
        /\ Args(wire', "attach_consumer") = Args(wire, "attach_consumer")
    BY <1>2, <1>3 DEF Committing, Creating, Destroying, Connected
  <1>8. ContextsOK' /\ Queues'
    BY <1>1, <1>2, <1>3, <1>4, <1>7 DEF ContextsOK, CtxStreams, Queues
  <1>9. Ids'
    <2>1. released \subseteq resource
      BY DEF released
    <2> QED
      BY <1>1, <1>2, <1>4, <1>7, <2>1 DEF Ids
  <1>10. Existing'
    <2>1. content' \notin Creating'
      BY <1>2, <1>5 DEF Creating
    <2> QED
      BY <1>1, <1>2, <1>5, <1>7, <2>1 DEF Existing
  <1>11. Shown = Shown' \union ({content} \ {NoStream})
    BY <1>2, <1>7 DEF Shown
  <1>12. ASSUME pc # "destroyed" PROVE Showing'
    <2>1. /\ Shown \subseteq proxies \union broken
          /\ ctx.id \in Shown => ctx.attached
          /\ Connected /\ ctx.attached /\ ctx.id # NoStream => ctx.id \in Shown
          /\ Released \intersect (Shown \union {ctx.id}) = {}
          /\ Connected => old \subseteq Shown \union Released
      BY <1>1, <1>12 DEF Showing
    <2>2. content # arg /\ content # NoStream => content \notin Shown' /\ content # ctx.id
      BY <1>2, <1>6, <1>7, <1>12 DEF Shown
    <2>3. content = arg => content \in Shown' \union {NoStream}
      BY <1>2 DEF Shown
    <2>4. released \subseteq {content} /\ (released # {} => content # arg /\ content # NoStream)
      BY <1>1, StreamsAssumption DEF released, Ids, ContextsOK, NoStream
    <2>5. Released' \intersect (Shown' \union {ctx.id}) = {}
      BY <1>4, <1>11, <2>1, <2>2, <2>4
    <2>6. ctx.attached /\ ctx.id # NoStream => ctx.id \in Shown'
      BY <1>2, <1>11, <2>1, <2>2, <2>3
    <2>7. old \subseteq Shown' \union Released'
      <3>1. ASSUME NEW id \in old, id = content, content # arg
            PROVE  id \in Released'
        <4>1. id \in proxies /\ id \notin Creating
          BY <1>1, <3>1 DEF ContextsOK, Existing
        <4>2. id \in resource
          BY <1>1, <1>2, <4>1 DEF Existing
        <4> QED
          BY <1>4, <3>1, <4>2 DEF released
      <3>2. NoStream \notin old
        BY <1>1 DEF Ids, NoStream, ContextsOK
      <3> QED
        BY <1>2, <1>4, <1>11, <2>1, <2>3, <3>1, <3>2
    <2> QED
      BY <1>2, <1>6, <1>7, <1>11, <1>12, <2>1, <2>5, <2>6, <2>7 DEF Showing
  <1>13. Showing'
    BY <1>12 DEF Showing
  <1> QED
    BY <1>8, <1>9, <1>10, <1>13 DEF Contexts

-----------------------------------------------------------------------------
(* The contexts in every step                                                 *)

\* The variables the contexts depend on, in a step that changes nothing.
LEMMA ContextsStutter ==
    ASSUME Contexts, UNCHANGED vars
    PROVE  Contexts'
  <1>1. IsQueue(sent)
    BY DEF Contexts, Queues
  <1>2. UNCHANGED <<pc, ctx, old, proxies, nextId, broken, wire, resource, content, error,
                    sent>>
    BY DEF vars, clientVars, controlVars, contextVars, connection, serverVars
  <1>3. Released' = Released
    BY <1>2 DEF Released
  <1>4. CASE pc # "destroyed"
    BY <1>1, <1>2, <1>3, <1>4, ContextsStay
  <1>5. CASE pc = "destroyed"
    BY <1>1, <1>2, <1>3, <1>5, ContextsStay
  <1> QED
    BY <1>4, <1>5

\* Steps that concern no context.
LEMMA ContextsElsewhere ==
    ASSUME Contexts,
           \/ RoundTripAnswered \/ RoundTripFails \/ InitialPrimeState \/ Connect
           \/ CreateProducer \/ SwapIntervalSent \/ SwapReturn
    PROVE  Contexts'
  <1>1. pc # "destroyed"
    BY DEF RoundTripAnswered, RoundTripFails, InitialPrimeState, Connect, CreateProducer,
           SwapIntervalSent, SwapReturn, Reached
  <1>2. UNCHANGED <<ctx, old, proxies, nextId, broken, wire, resource, content, error>>
    BY DEF RoundTripAnswered, RoundTripFails, InitialPrimeState, Connect, CreateProducer,
           SwapIntervalSent, SwapReturn, contextVars, serverVars, connection
  <1>3. IsQueue(sent)
    BY DEF Contexts, Queues
  <1>4. IsQueue(sent') /\ Released' = Released
    <2>1. CASE RoundTripAnswered
      <3>1. sent # <<>> /\ Head(sent).kind = "sync" /\ sent' = Tail(sent)
        BY <2>1 DEF RoundTripAnswered, Dispatch
      <3>2. IsQueue(Tail(sent)) /\ EventArgs(sent, "release") = EventArgs(Tail(sent), "release")
        <4>1. IsQueue(Tail(sent))
          BY <1>3, <3>1, Taking
        <4>2. EventArgs(sent, "release") = EventArgs(Tail(sent), "release")
                \union (IF Head(sent).kind = "release" THEN {Head(sent).arg} ELSE {})
          BY <1>3, <3>1, ArgsTaken
        <4> QED
          BY <3>1, <4>1, <4>2
      <3> QED
        BY <3>1, <3>2 DEF Released
    <2>2. CASE UNCHANGED sent
      BY <1>3, <2>2 DEF Released
    <2> QED
      BY <2>1, <2>2 DEF RoundTripFails, InitialPrimeState, Connect, CreateProducer,
                        SwapIntervalSent, SwapReturn, connection
  <1> QED
    BY <1>1, <1>2, <1>4, ContextsStay

\* The surface dispatches an event.
LEMMA ContextsDispatch ==
    ASSUME TypeOK, Parsing, Contexts, DispatchEvent
    PROVE  Contexts'
  <1>1. pc # "destroyed" /\ UNCHANGED <<resource, content, error>>
    BY DEF DispatchEvent, Dispatching, serverVars
  <1>2. CASE HandleFeedback /\ UNCHANGED <<wire, failures, contextVars>>
    <2>1. IsQueue(sent') /\ Released' = Released
      BY <1>2, ParsingHandled DEF TypeOK, Contexts, Queues, Released
    <2> QED
      BY <1>1, <1>2, <2>1, ContextsStay DEF contextVars
  <1>3. CASE WlBufferRelease
    BY <1>1, <1>3, ContextReleased
  <1> QED
    BY <1>2, <1>3 DEF DispatchEvent

\* The surface asks for feedback, a swap interval, a consumer, or shows a frame.
LEMMA ContextsAsk ==
    ASSUME Control, Contexts, CreateSurface \/ AttachConsumer \/ SwapBegin \/ SwapFrame,
           platform.legacy \in BOOLEAN
    PROVE  Contexts'
  <1>1. /\ pc # "destroyed"
        /\ UNCHANGED <<old, proxies, nextId, broken, sent, resource, content, error>>
    BY DEF CreateSurface, AttachConsumer, SwapBegin, SwapFrame, contextVars, serverVars
  <1>2. /\ IsQueue(sent) /\ ctx = [ctx EXCEPT !.attached = ctx.attached]
        /\ ctx.attached \in BOOLEAN /\ ctx.id \in Stream \union {NoStream}
    BY DEF Contexts, ContextsOK, Queues
  <1>3. \A op, o, arg : o # op => Args(Request(op, arg), o) = {}
    BY ArgsOne
  <1>4. ASSUME UNCHANGED <<ctx, wire>> PROVE Contexts'
    <2>1. Released' = Released
      BY <1>1 DEF Released
    <2> QED
      BY <1>1, <1>2, <1>4, <2>1, ContextsStay
  <1>5. CASE CreateSurface
    <2>1. CASE HasFeedback
      <3> DEFINE s == Request("get_feedback", 0) \o Request("sync", 0)
      <3>1. IsQueue(s) /\ \A op \in {"commit", "create_stream", "destroy", "attach_consumer"} :
                              Args(s, op) = {}
        <4> DEFINE r == Request("get_feedback", 0)
        <4>1. IsQueue(r)
          BY OneMessage
        <4>2. \A op \in {"commit", "create_stream", "destroy", "attach_consumer"} :
                 Args(r, op) = {}
          BY <1>3
        <4> HIDE DEF r
        <4>3. /\ IsQueue(r \o Request("sync", 0))
              /\ \A op : op # "sync" => Args(r \o Request("sync", 0), op) = Args(r, op)
          BY <4>1, SyncSent
        <4> QED
          BY <4>2, <4>3 DEF r
      <3>2. Requests(s) /\ ctx' = ctx
        BY <1>5, <2>1 DEF CreateSurface, contextVars
      <3> QED
        BY <1>1, <1>2, <3>1, <3>2, ContextSends
    <2>2. CASE ~HasFeedback
      BY <1>4, <1>5, <2>2 DEF CreateSurface, contextVars
    <2> QED
      BY <2>1, <2>2
  <1>6. CASE AttachConsumer
    <2> DEFINE op == IF platform.legacy THEN "commit" ELSE "attach_consumer"
               s == Request(op, ctx.id) \o Request("sync", 0)
    <2>1. /\ IsQueue(s)
          /\ \A o : o # "sync" => Args(s, o) = Args(Request(op, ctx.id), o)
      BY OneMessage, SyncSent
    <2>2. /\ Args(s, "create_stream") = {} /\ Args(s, "destroy") = {}
          /\ Args(s, "commit") = (IF platform.legacy THEN {ctx.id} ELSE {})
          /\ Args(s, "attach_consumer") \subseteq {ctx.id}
      <3>1. op \in {"commit", "attach_consumer"} /\ (op = "commit" <=> platform.legacy)
        OBVIOUS
      <3> HIDE DEF op, s
      <3>2. \A o : Args(Request(op, ctx.id), o) = IF op = o THEN {ctx.id} ELSE {}
        BY ArgsOne
      <3> QED
        BY <2>1, <3>1, <3>2
    <2>3. Requests(s) /\ ctx' = [ctx EXCEPT !.attached = platform.legacy]
      BY <1>6 DEF AttachConsumer
    <2>4. ctx.kind = "remote" /\ ~ctx.attached /\ ctx.id \in Stream
      BY <1>2, <1>6 DEF AttachConsumer, Control, Contexts, ContextsOK
    <2> HIDE DEF s, op
    <2> QED
      BY <1>1, <2>1, <2>2, <2>3, <2>4, ContextSends
  <1>7. CASE SwapBegin
    <2>1. CASE pendingSwapIntervalUpdate /\ ctx.id # NoStream
      <3> DEFINE s == Request("swap_interval", ctx.id)
      <3>1. IsQueue(s) /\ \A op \in {"commit", "create_stream", "destroy", "attach_consumer"} :
                              Args(s, op) = {}
        BY <1>3, OneMessage
      <3>2. Requests(s) /\ ctx' = ctx
        BY <1>7, <2>1 DEF SwapBegin, contextVars
      <3> HIDE DEF s
      <3> QED
        BY <1>1, <1>2, <3>1, <3>2, ContextSends
    <2>2. CASE ~(pendingSwapIntervalUpdate /\ ctx.id # NoStream)
      BY <1>4, <1>7, <2>2 DEF SwapBegin, contextVars
    <2> QED
      BY <2>1, <2>2
  <1>8. CASE SwapFrame
    <2>1. CASE ctx' = [ctx EXCEPT !.attached = TRUE] /\ Requests(Request("commit", ctx.id))
      <3> DEFINE s == Request("commit", ctx.id)
      <3>1. /\ IsQueue(s) /\ Args(s, "commit") = {ctx.id}
            /\ \A op \in {"create_stream", "destroy", "attach_consumer"} : Args(s, op) = {}
        BY <1>3, OneMessage, ArgsOne
      <3>2. Requests(s) /\ TRUE = (ctx.attached \/ Args(s, "commit") # {})
        BY <2>1, <3>1
      <3> HIDE DEF s
      <3> QED
        BY <1>1, <2>1, <3>1, <3>2, ContextSends
    <2>2. CASE UNCHANGED <<ctx, wire>>
      BY <1>4, <2>2
    <2> QED
      BY <1>8, <2>1, <2>2 DEF SwapFrame
  <1> QED
    BY <1>5, <1>6, <1>7, <1>8

\* The surface makes a context, or gives up making one.
LEMMA ContextsCreate ==
    ASSUME Control, Contexts,
           \/ MethodFails \/ ConnectFails \/ CreateStreamLocal \/ CreateStreamFd
           \/ \E type \in {"socket", "inet"} : CreateStreamRemote(type)
           \/ CreationFails
    PROVE  Contexts'
  <1>1. CASE MethodFails \/ ConnectFails
    <2>1. pc # "destroyed" /\ ~ctx.attached
      BY <1>1 DEF MethodFails, ConnectFails, Reached, Lost, Control, Waiting, NoContext
    <2>2. NextMethod
      BY <1>1 DEF MethodFails, ConnectFails
    <2> QED
      BY <2>1, <2>2, ContextDropped DEF NextMethod, serverVars
  <1>2. CASE CreationFails
    <2>1. pc # "destroyed"
      BY <1>2 DEF CreationFails, Reached, Lost
    <2>2. /\ UNCHANGED <<old, nextId, sent, resource, content, error>>
          /\ ctx' = NoContext /\ proxies' = proxies \ CtxStreams
          /\ Requests(DestroyRequest(CtxStreams))
          /\ broken' = IF ctx.attached THEN broken \union CtxStreams ELSE broken
      BY <1>2 DEF CreationFails, serverVars
    <2> QED
      BY <2>1, <2>2, ContextDropped
  <1>3. CASE CreateStreamLocal
    <2>1. pc = "create" /\ ctx = NoContext
      BY <1>3 DEF CreateStreamLocal, Trying, Control
    <2>2. UNCHANGED <<old, proxies, nextId, broken, wire, sent, resource, content, error>>
      BY <1>3 DEF CreateStreamLocal, serverVars
    <2>3. \E kind \in {"none", "local"} :
             ctx' = [kind |-> kind, id |-> NoStream, attached |-> FALSE]
      BY <1>3, <2>1 DEF CreateStreamLocal, NoContext
    <2>4. /\ ctx' \in [kind : {"none", "local"}, id : {NoStream}, attached : BOOLEAN]
          /\ ctx.id = NoStream /\ ctx'.id = NoStream
      BY <2>1, <2>3 DEF NoContext
    <2> QED
      BY <2>1, <2>2, <2>4, ContextLocal
  <1>4. CASE CreateStreamFd
    <2>1. pc = "create" /\ ctx = NoContext
      BY <1>4 DEF CreateStreamFd, Trying, Control
    <2>2. CreateWlEglStream("fd", {}, <<>>)
      BY <1>4 DEF CreateStreamFd
    <2> QED
      BY <2>1, <2>2, ContextMade
  <1>5. ASSUME NEW type \in {"socket", "inet"}, CreateStreamRemote(type)
        PROVE  Contexts'
    <2>1. pc = "create" /\ ctx = NoContext
      BY <1>5 DEF CreateStreamRemote, Trying, Control
    <2>2. CreateWlEglStream(type, RemoteAttribs(type), Request("sync", 0))
      BY <1>5 DEF CreateStreamRemote
    <2>3. RemoteAttribs(type) \in SUBSET Attrib
      BY DEF RemoteAttribs, Attrib
    <2> QED
      BY <2>1, <2>2, <2>3, ContextMade
  <1> QED
    BY <1>1, <1>2, <1>3, <1>4, <1>5

\* The surface is reallocated.
LEMMA ContextsRealloc ==
    ASSUME Contexts, ReallocSurface
    PROVE  Contexts'
  <1>1. /\ pc # "destroyed" /\ ctx' = NoContext
        /\ UNCHANGED <<nextId, broken, sent, resource, content, error>>
        /\ DiscardSurfaceContext
    BY DEF ReallocSurface, serverVars
  <1>2. CASE ctx.attached /\ ctx.id # NoStream
    BY <1>1, <1>2, ContextPutOff DEF DiscardSurfaceContext
  <1>3. CASE ~(ctx.attached /\ ctx.id # NoStream)
    BY <1>1, <1>3, ContextDropped DEF DiscardSurfaceContext
  <1> QED
    BY <1>2, <1>3

\* The compositor handles a request, ends the connection or sends feedback.
LEMMA ContextsServed ==
    ASSUME TypeOK, Parsing, Contexts, Compositor \/ Feedback
    PROVE  Contexts'
  <1>1. UNCHANGED <<pc, ctx, old, proxies, nextId, broken>>
    BY DEF Compositor, Feedback, clientVars, controlVars, contextVars
  <1>2. IsQueue(sent)
    BY DEF Contexts, Queues
  <1>3. CASE HandleCreateStream
    <2>1. Connected /\ wire # <<>> /\ Head(wire).op = "create_stream" /\ UNCHANGED <<sent, content>>
      BY <1>3 DEF HandleCreateStream, Handle
    <2>2. \/ wire' = <<>> /\ resource' = resource \ resource /\ error'.posted
          \/ /\ wire' = Tail(wire) /\ error' = error
             /\ resource' = resource \union {Head(wire).arg.id}
      BY <1>3 DEF HandleCreateStream, RequestArg, DestroyResources
    <2>3. Released' = Released
      BY <2>1 DEF Released
    <2>4. CASE wire' = <<>> /\ resource' = resource \ resource /\ error'.posted
      BY <1>1, <2>1, <2>4, ContextsCut
    <2>5. CASE /\ wire' = Tail(wire) /\ error' = error
               /\ resource' = resource \union {Head(wire).arg.id}
      BY <1>1, <1>2, <2>1, <2>3, <2>5, ContextsHandled
    <2> QED
      BY <2>2, <2>4, <2>5
  <1>4. CASE HandleDestroy
    <2>1. /\ Connected /\ wire # <<>> /\ Head(wire).op = "destroy" /\ wire' = Tail(wire)
          /\ UNCHANGED <<sent, content, error>> /\ resource' = resource \ Head(wire).arg
      BY <1>4 DEF HandleDestroy, Handle, RequestArg, DestroyResources
    <2>2. Released' = Released
      BY <2>1 DEF Released
    <2> QED
      BY <1>1, <1>2, <2>1, <2>2, ContextsHandled
  <1>5. CASE Disconnect
    <2>1. wire' = <<>> /\ resource' = resource \ resource /\ error'.posted
          /\ UNCHANGED <<sent, content>>
      BY <1>5 DEF Disconnect, DestroyResources
    <2> QED
      BY <1>1, <2>1, ContextsCut
  <1>6. CASE HandleCommit
    BY <1>1, <1>6, ContextsShown
  <1>7. ASSUME Connected, wire # <<>>, wire' = Tail(wire),
               Head(wire).op \notin {"commit", "create_stream", "destroy"},
               UNCHANGED <<resource, content, error>>, IsQueue(sent'), Released' = Released
        PROVE  Contexts'
    BY <1>1, <1>7, ContextsHandled
  <1>8. CASE HandleConsumer \/ HandleSwapInterval
    <2>1. /\ Connected /\ wire # <<>> /\ wire' = Tail(wire)
          /\ Head(wire).op \notin {"commit", "create_stream", "destroy"}
          /\ UNCHANGED <<sent, resource, content, error>>
      BY <1>8 DEF HandleConsumer, HandleSwapInterval, Handle, serverVars
    <2>2. Released' = Released
      BY <2>1 DEF Released
    <2> QED
      BY <1>2, <1>7, <2>1, <2>2
  <1>9. CASE HandleSync
    <2>1. /\ Connected /\ wire # <<>> /\ wire' = Tail(wire) /\ Head(wire).op = "sync"
          /\ UNCHANGED <<resource, content, error>> /\ sent' = sent \o Event("sync", 0)
      BY <1>9 DEF HandleSync, Handle, serverVars
    <2>2. IsQueue(Event("sync", 0)) /\ EventArgs(Event("sync", 0), "release") = {}
      BY OneMessage, ArgsOne
    <2>3. IsQueue(sent') /\ EventArgs(sent', "release") = EventArgs(sent, "release")
      <3>1. IsQueue(sent \o Event("sync", 0))
        BY <1>2, <2>2, Sending
      <3>2. EventArgs(sent \o Event("sync", 0), "release") = EventArgs(sent, "release")
        BY <1>2, <2>2, ArgsSent
      <3> QED
        BY <2>1, <3>1, <3>2
    <2> QED
      BY <1>7, <2>1, <2>3 DEF Released
  <1>10. CASE Feedback
    <2>1. PICK b \in Bursts : SendBurst(b)
      BY <1>10 DEF Feedback
    <2>2. IsQueue(sent') /\ Released' = Released
      BY <1>2, <2>1, ParsingSent DEF TypeOK, Released
    <2>3. Connected /\ UNCHANGED <<resource, content, error>>
      BY <1>10 DEF Feedback, serverVars
    <2>4. CASE Handle("get_feedback") /\ wire' = Tail(wire)
      BY <1>7, <2>2, <2>3, <2>4 DEF Handle
    <2>5. CASE pc # "destroyed" /\ UNCHANGED wire
      BY <1>1, <2>2, <2>3, <2>5, ContextsStay
    <2> QED
      BY <1>10, <2>4, <2>5 DEF Feedback
  <1> QED
    BY <1>3, <1>4, <1>5, <1>6, <1>8, <1>9, <1>10 DEF Compositor, HandleRequest

\* Every step keeps what holds of the contexts.
LEMMA ContextsStep ==
    ASSUME TypeOK, Parsing, Control, Contexts, [Next]_vars
    PROVE  Contexts'
  <1>1. CASE UNCHANGED vars \/ Ended
    BY <1>1, ContextsStutter DEF Ended
  <1>2. CASE Compositor \/ Feedback
    BY <1>2, ContextsServed
  <1>3. CASE DispatchEvent
    BY <1>3, ContextsDispatch
  <1>4. CASE \/ RoundTripAnswered \/ RoundTripFails \/ InitialPrimeState \/ Connect
             \/ CreateProducer \/ SwapIntervalSent \/ SwapReturn
    BY <1>4, ContextsElsewhere
  <1>5. CASE CreateSurface \/ AttachConsumer \/ SwapBegin \/ SwapFrame
    <2>1. platform.legacy \in BOOLEAN
      BY PlatformsAssumption DEF TypeOK
    <2> QED
      BY <1>5, <2>1, ContextsAsk
  <1>6. CASE \/ MethodFails \/ ConnectFails \/ CreateStreamLocal \/ CreateStreamFd
             \/ \E type \in {"socket", "inet"} : CreateStreamRemote(type)
             \/ CreationFails
    BY <1>6, ContextsCreate
  <1>7. CASE ReallocSurface
    BY <1>7, ContextsRealloc
  <1>8. CASE DestroySurface
    BY <1>8, ContextsDestroyed
  <1> QED
    BY <1>1, <1>2, <1>3, <1>4, <1>5, <1>6, <1>7, <1>8 DEF Next, Client

-----------------------------------------------------------------------------
(* The client's control, and the parser                                       *)

\* Where the client is agrees with the context it has there.
LEMMA ControlStep ==
    ASSUME Control, ContextsOK, [Next]_vars
    PROVE  Control'
  <1> USE DEF Control, Waiting, Goto, RoundTrip, Reached, Lost
  <1>1. ASSUME UNCHANGED <<controlVars, ctx>> PROVE Control'
    BY <1>1 DEF controlVars
  <1>2. ASSUME ctx' = NoContext, created' = created,
               \/ pc' \in {"create", "idle", "dead", "destroyed"} /\ then' = then
        PROVE  Control'
    BY <1>2 DEF NoContext
  <1>3. CASE DispatchEvent
    <2>1. UNCHANGED controlVars /\ ctx' = ctx
      BY <1>3 DEF DispatchEvent, WlBufferRelease, contextVars
    <2> QED
      BY <1>1, <2>1
  <1>4. CASE RoundTripAnswered \/ RoundTripFails
    BY <1>4 DEF RoundTripAnswered, RoundTripFails, contextVars
  <1>5. CASE CreateSurface \/ InitialPrimeState
    BY <1>5 DEF CreateSurface, InitialPrimeState, contextVars
  <1>6. CASE MethodFails \/ ConnectFails \/ CreationFails \/ ReallocSurface \/ DestroySurface
    <2>1. ctx' = NoContext /\ created' = created /\ then' = then
          /\ pc' \in {"create", "idle", "dead", "destroyed"}
      BY <1>6 DEF MethodFails, ConnectFails, NextMethod, CreationFails, ReallocSurface,
                  DestroySurface
    <2> QED
      BY <1>2, <2>1
  <1>7. CASE CreateStreamLocal
    <2>1. ctx' = NoContext \/ ctx'.kind = "local"
      BY <1>7 DEF CreateStreamLocal, Trying, NoContext
    <2>2. pc' = "producer" /\ then' = then /\ created' = created
      BY <1>7 DEF CreateStreamLocal
    <2> QED
      BY <2>1, <2>2 DEF NoContext
  <1>8. CASE CreateStreamFd \/ \E type \in {"socket", "inet"} : CreateStreamRemote(type)
    <2>1. ctx'.kind = "remote" /\ ~ctx'.attached /\ created' = created
      BY <1>8 DEF CreateStreamFd, CreateStreamRemote, CreateWlEglStream, NoContext
    <2>2. CASE CreateStreamFd
      <3>1. pc' = "attach" /\ then' = then
        BY <2>2 DEF CreateStreamFd
      <3> QED
        BY <2>1, <3>1
    <2>3. ASSUME NEW type \in {"socket", "inet"}, CreateStreamRemote(type) PROVE Control'
      <3>1. pc' = "roundtrip" /\ then' = "connect"
        BY <2>3 DEF CreateStreamRemote
      <3> QED
        BY <2>1, <3>1
    <2> QED
      BY <1>8, <2>2, <2>3
  <1>9. CASE Connect
    BY <1>9 DEF Connect, contextVars
  <1>10. CASE AttachConsumer
    <2>1. ctx'.kind = "remote"
      BY <1>10 DEF AttachConsumer, ContextsOK
    <2>2. pc' = "roundtrip" /\ then' = "producer" /\ created' = created
      BY <1>10 DEF AttachConsumer
    <2> QED
      BY <2>1, <2>2
  <1>11. CASE CreateProducer
    <2>1. ctx' = ctx /\ pc' = "idle" /\ then' = then /\ created'
      BY <1>11 DEF CreateProducer, contextVars
    <2>2. created' = TRUE
      BY <1>11 DEF CreateProducer
    <2> QED
      BY <2>1, <2>2
  <1>12. CASE SwapBegin \/ SwapIntervalSent \/ SwapReturn
    BY <1>12 DEF SwapBegin, SwapIntervalSent, SwapReturn, contextVars
  <1>13. CASE SwapFrame
    <2>1. ctx' = ctx \/ (ctx.kind # "none" /\ ctx'.kind = ctx.kind)
      BY <1>13 DEF SwapFrame, ContextsOK
    <2>2. pc' = "swapped" /\ then' = then /\ created' = created
      BY <1>13 DEF SwapFrame
    <2> QED
      BY <2>1, <2>2
  <1>14. CASE Compositor \/ Feedback \/ Ended \/ UNCHANGED vars
    BY <1>1, <1>14 DEF Compositor, Feedback, Ended, vars, clientVars, contextVars
  <1> QED
    BY <1>3, <1>4, <1>5, <1>6, <1>7, <1>8, <1>9, <1>10, <1>11, <1>12, <1>13, <1>14
       DEF Next, Client

\* A creation that fails after it has attached its stream is one without
\* wlStreamCtl.
LEMMA LegacyStep ==
    ASSUME Control, LegacyAttached, [Next]_vars
    PROVE  LegacyAttached'
  <1> USE DEF LegacyAttached, Waiting, Goto, RoundTrip, Reached, Lost
  <1>1. ASSUME UNCHANGED <<platform, broken, ctx>>,
               pc' = "producer" \/ Waiting("producer")' => pc = "producer" \/ Waiting("producer")
        PROVE  LegacyAttached'
    BY <1>1
  <1>2. ASSUME UNCHANGED <<platform, broken>>,
               ~(pc' = "producer" \/ Waiting("producer")') \/ ~ctx'.attached
        PROVE  LegacyAttached'
    BY <1>2
  <1>3. CASE CreationFails
    <2>1. ctx.attached => platform.legacy
      BY <1>3 DEF CreationFails, Control, NoContext
    <2>2. /\ platform' = platform /\ pc' \in {"idle", "dead"}
          /\ broken' = IF ctx.attached THEN broken \union CtxStreams ELSE broken
      BY <1>3 DEF CreationFails
    <2> QED
      BY <2>1, <2>2
  <1>4. CASE DispatchEvent \/ RoundTripAnswered \/ RoundTripFails \/ Connect
             \/ Compositor \/ Feedback \/ Ended \/ UNCHANGED vars
    <2>1. UNCHANGED <<platform, broken, ctx>>
      BY <1>4 DEF DispatchEvent, WlBufferRelease, RoundTripAnswered, RoundTripFails,
         Connect, Compositor, Feedback, Ended, vars, clientVars, contextVars
    <2>2. pc' = "producer" \/ Waiting("producer")' => pc = "producer" \/ Waiting("producer")
      BY <1>4 DEF DispatchEvent, RoundTripAnswered, RoundTripFails, Connect, Compositor,
         Feedback, Ended, vars, clientVars, controlVars
    <2> QED
      BY <1>1, <2>1, <2>2
  <1>5. CASE AttachConsumer
    BY <1>5 DEF AttachConsumer
  <1>6. CASE CreateStreamLocal
    <2>1. ~ctx'.attached
      BY <1>6 DEF CreateStreamLocal, Trying, Control, NoContext
    <2> QED
      BY <1>2, <1>6, <2>1 DEF CreateStreamLocal
  <1>7. CASE CreateSurface \/ InitialPrimeState \/ MethodFails \/ ConnectFails
             \/ CreateStreamFd \/ CreateProducer \/ SwapBegin \/ SwapIntervalSent
             \/ SwapFrame \/ SwapReturn \/ ReallocSurface \/ DestroySurface
    <2>1. UNCHANGED <<platform, broken>>
      BY <1>7 DEF CreateSurface, InitialPrimeState, MethodFails, ConnectFails, NextMethod,
         CreateStreamFd, CreateWlEglStream, CreateProducer, SwapBegin,
         SwapIntervalSent, SwapFrame, SwapReturn, ReallocSurface, DestroySurface,
         contextVars
    <2>2. ~(pc' = "producer" \/ Waiting("producer")')
      BY <1>7 DEF CreateSurface, InitialPrimeState, MethodFails, ConnectFails, NextMethod,
         CreateStreamFd, CreateWlEglStream, CreateProducer, SwapBegin,
         SwapIntervalSent, SwapFrame, SwapReturn, ReallocSurface, DestroySurface
    <2> QED
      BY <1>2, <2>1, <2>2
  <1>8. ASSUME NEW type \in {"socket", "inet"}, CreateStreamRemote(type)
        PROVE  LegacyAttached'
    BY <1>2, <1>8 DEF CreateStreamRemote, CreateWlEglStream
  <1> QED
    BY <1>3, <1>4, <1>5, <1>6, <1>7, <1>8 DEF Next, Client

\* The events on the surface's queue, and what was made of them.
LEMMA ParsingStep ==
    ASSUME TypeOK, Parsing, Queues, [Next]_vars
    PROVE  Parsing'
  <1> DEFINE kinds == {"format_table", "target_device", "done"}
  <1>1. ASSUME \A kind \in kinds : EventArgs(sent', kind) \subseteq EventArgs(sent, kind),
               UNCHANGED <<burst, parser, delivered>>,
               unprocessedFeedback' \in {unprocessedFeedback, FALSE}
        PROVE  Parsing'
    <2>1. /\ EventArgs(sent', "format_table") \subseteq 1..burst'
          /\ EventArgs(sent', "target_device") \subseteq STRING
          /\ EventArgs(sent', "done") \subseteq Seq(Tranche)
      BY <1>1 DEF Parsing
    <2>2. /\ tmpTranche' \in Tranche /\ tranches' \in Seq(Tranche)
          /\ delivered' \in Seq(Tranche) /\ feedbackDone' \in BOOLEAN
      BY <1>1 DEF Parsing, parser
    <2>3. unprocessedFeedback' \in BOOLEAN
      BY <1>1 DEF Parsing
    <2> QED
      BY <2>1, <2>2, <2>3 DEF Parsing
  <1>2. IsQueue(sent)
    BY DEF Queues
  <1>3. CASE DispatchEvent
    <2>1. CASE HandleFeedback
      BY <1>2, <2>1, ParsingHandled DEF TypeOK
    <2>2. CASE WlBufferRelease /\ UNCHANGED feedbackVars
      <3>1. sent # <<>> /\ sent' = Tail(sent)
        BY <2>2 DEF WlBufferRelease, Dispatch
      <3>2. \A kind \in kinds : EventArgs(Tail(sent), kind) \subseteq EventArgs(sent, kind)
        BY <1>2, <3>1, ArgsTaken
      <3> QED
        BY <1>1, <2>2, <3>1, <3>2 DEF feedbackVars
    <2> QED
      BY <1>3, <2>1, <2>2 DEF DispatchEvent
  <1>4. CASE RoundTripAnswered
    <2>1. sent # <<>> /\ sent' = Tail(sent) /\ UNCHANGED feedbackVars
      BY <1>4 DEF RoundTripAnswered, Dispatch
    <2>2. \A kind \in kinds : EventArgs(Tail(sent), kind) \subseteq EventArgs(sent, kind)
      BY <1>2, <2>1, ArgsTaken
    <2> QED
      BY <1>1, <2>1, <2>2 DEF feedbackVars
  <1>5. CASE DestroySurface
    <2>1. UNCHANGED feedbackVars /\ \A kind \in kinds : EventArgs(sent', kind) = {}
      BY <1>5, ArgsOne DEF DestroySurface
    <2> QED
      BY <1>1, <2>1 DEF feedbackVars
  <1>6. CASE Compositor
    <2>1. \/ sent' = sent \/ sent' = sent \o Event("release", content)
          \/ sent' = sent \o Event("sync", 0)
      BY <1>6 DEF Compositor, HandleRequest, HandleCreateStream, HandleDestroy, HandleConsumer,
                  HandleCommit, HandleSwapInterval, HandleSync, Disconnect
    <2>2. ASSUME NEW kind \in {"release", "sync"}, NEW arg, sent' = sent \o Event(kind, arg)
          PROVE  \A k \in kinds : EventArgs(sent', k) \subseteq EventArgs(sent, k)
      <3>1. IsQueue(Event(kind, arg)) /\ \A k \in kinds : EventArgs(Event(kind, arg), k) = {}
        BY OneMessage, ArgsOne
      <3>2. \A k : EventArgs(sent', k) = EventArgs(sent, k) \union EventArgs(Event(kind, arg), k)
        BY <1>2, <2>2, <3>1, ArgsSent
      <3> QED
        BY <3>1, <3>2
    <2>3. \A kind \in kinds : EventArgs(sent', kind) \subseteq EventArgs(sent, kind)
      BY <2>1, <2>2
    <2> QED
      BY <1>1, <1>6, <2>3 DEF Compositor, feedbackVars
  <1>7. CASE Feedback
    BY <1>2, <1>7, ParsingSent DEF Feedback, TypeOK
  <1>8. CASE \/ RoundTripFails \/ CreateSurface \/ InitialPrimeState \/ MethodFails
             \/ CreateStreamLocal \/ CreateStreamFd
             \/ \E type \in {"socket", "inet"} : CreateStreamRemote(type)
             \/ Connect \/ ConnectFails \/ AttachConsumer \/ CreateProducer \/ CreationFails
             \/ SwapBegin \/ SwapIntervalSent \/ SwapFrame \/ SwapReturn \/ ReallocSurface
             \/ Ended \/ UNCHANGED vars
    <2>1. /\ sent' = sent /\ UNCHANGED <<burst, parser, delivered>>
          /\ unprocessedFeedback' \in {unprocessedFeedback, FALSE}
      BY <1>8 DEF RoundTripFails, CreateSurface, InitialPrimeState, MethodFails,
                  CreateStreamLocal, CreateStreamFd, CreateStreamRemote, CreateWlEglStream,
                  Connect, ConnectFails, NextMethod, AttachConsumer, CreateProducer,
                  CreationFails, SwapBegin, SwapIntervalSent, SwapFrame, SwapReturn,
                  ReallocSurface, Ended, vars, connection, feedbackVars
    <2> QED
      BY <1>1, <2>1
  <1> QED
    BY <1>3, <1>4, <1>5, <1>6, <1>7, <1>8 DEF Next, Client

-----------------------------------------------------------------------------
(* The descriptors                                                            *)

Descriptors == [Stream -> {"none", "open", "closed", "stream", "twice"}]
Streams     == [Stream -> [type : {"fd", "socket", "inet"}, handle : BOOLEAN,
                           eglStream : BOOLEAN]]

\* What is known of every wl_eglstream and its descriptor.
OneOwner(id) ==
    /\ wlStream[id].handle => id \in resource
    /\ id \notin timedOut =>
          /\ fd[id] # "twice"
          /\ fd[id] = "open" <=> (id \in resource /\ wlStream[id].handle)
          /\ wlStream[id].eglStream => ~wlStream[id].handle

\* Resources go, each with a descriptor that nothing was made of.
LEMMA OwnersDestroyed ==
    ASSUME fd \in Descriptors, wlStream \in Streams, \A id \in Stream : OneOwner(id),
           NEW S, DestroyResources(S), UNCHANGED timedOut
    PROVE  /\ fd' \in Descriptors /\ wlStream' \in Streams
           /\ \A id \in Stream : OneOwner(id)'
  <1> DEFINE owners == {id \in S \intersect resource : wlStream[id].handle}
  <1>1. /\ resource' = resource \ S
        /\ fd' = [id \in Stream |-> IF id \in owners THEN Closed(fd[id]) ELSE fd[id]]
        /\ wlStream' = [id \in Stream |->
                            IF id \in owners THEN [wlStream[id] EXCEPT !.handle = FALSE]
                                             ELSE wlStream[id]]
    BY DEF DestroyResources
  <1>2. \A id \in Stream : id \in owners <=> id \in S /\ id \in resource /\ wlStream[id].handle
    OBVIOUS
  <1> HIDE DEF owners
  <1>3. \A id \in Stream : wlStream[id] \in [type : {"fd", "socket", "inet"}, handle : BOOLEAN,
                                             eglStream : BOOLEAN]
    BY DEF Streams
  <1>4. ASSUME NEW id \in Stream, id \in owners
        PROVE  /\ fd'[id] = Closed(fd[id]) /\ ~wlStream'[id].handle
               /\ wlStream'[id] \in [type : {"fd", "socket", "inet"}, handle : BOOLEAN,
                                     eglStream : BOOLEAN]
    BY <1>1, <1>3, <1>4
  <1>5. ASSUME NEW id \in Stream, id \notin owners
        PROVE  fd'[id] = fd[id] /\ wlStream'[id] = wlStream[id]
    BY <1>1, <1>5
  <1>6. fd' \in Descriptors
    BY <1>1 DEF Descriptors, Closed
  <1>7. wlStream' \in Streams
    <2>1. \A id \in Stream : wlStream'[id] \in [type : {"fd", "socket", "inet"},
                                               handle : BOOLEAN, eglStream : BOOLEAN]
      BY <1>3, <1>4, <1>5
    <2> QED
      BY <1>1, <2>1 DEF Streams
  <1>8. ASSUME NEW id \in Stream PROVE OneOwner(id)'
    <2>1. OneOwner(id)
      OBVIOUS
    <2>2. CASE id \in owners
      <3>1. fd[id] = "open" => fd'[id] = "closed"
        BY <1>4, <2>2 DEF Closed
      <3> QED
        BY <1>1, <1>2, <1>4, <2>1, <2>2, <3>1 DEF OneOwner
    <2>3. CASE id \notin owners
      BY <1>1, <1>2, <1>5, <2>1, <2>3 DEF OneOwner
    <2> QED
      BY <2>2, <2>3
  <1> QED
    BY <1>6, <1>7, <1>8

\* A stream is made of the descriptor, or that fails.
LEMMA OwnersConsumed ==
    ASSUME fd \in Descriptors, wlStream \in Streams, \A id \in Stream : OneOwner(id),
           NEW s \in Stream, CreateStream(s), UNCHANGED resource
    PROVE  /\ fd' \in Descriptors /\ wlStream' \in Streams
           /\ \A id \in Stream : OneOwner(id)'
  <1>1. CASE UNCHANGED <<wlStream, fd, timedOut>>
    BY <1>1 DEF OneOwner
  <1>2. CASE wlStream[s].handle /\ ~wlStream[s].eglStream /\ CreateFromFd(s)
             /\ ~UNCHANGED <<wlStream, fd, timedOut>>
    <2>1. /\ fd' = [fd EXCEPT ![s] = Closed(fd[s])] /\ timedOut' = timedOut
          /\ \/ wlStream' = [wlStream EXCEPT ![s].handle = FALSE, ![s].eglStream = TRUE]
             \/ wlStream' = [wlStream EXCEPT ![s].handle = FALSE]
      BY <1>2 DEF CreateFromFd
    <2>2. fd' \in Descriptors /\ wlStream' \in Streams
      <3>1. Closed(fd[s]) \in {"none", "open", "closed", "stream", "twice"}
        BY DEF Closed
      <3>2. fd' \in Descriptors
        BY <2>1, <3>1 DEF Descriptors
      <3>3. CASE wlStream' = [wlStream EXCEPT ![s].handle = FALSE, ![s].eglStream = TRUE]
        BY <3>2, <3>3 DEF Streams
      <3>4. CASE wlStream' = [wlStream EXCEPT ![s].handle = FALSE]
        BY <3>2, <3>4 DEF Streams
      <3> QED
        BY <2>1, <3>3, <3>4
    <2>3. fd'[s] = Closed(fd[s]) /\ ~wlStream'[s].handle
      BY <2>1 DEF Descriptors, Streams
    <2>4. ASSUME NEW id \in Stream, id # s PROVE fd'[id] = fd[id] /\ wlStream'[id] = wlStream[id]
      BY <2>1, <2>4 DEF Descriptors, Streams
    <2>5. ASSUME NEW id \in Stream PROVE OneOwner(id)'
      <3>1. CASE id = s
        <4>1. s \notin timedOut => fd[s] = "open"
          BY <1>2 DEF OneOwner
        <4> QED
          BY <2>1, <2>3, <3>1, <4>1 DEF OneOwner, Closed
      <3>2. CASE id # s
        BY <2>1, <2>4, <3>2 DEF OneOwner
      <3> QED
        BY <3>1, <3>2
    <2> QED
      BY <2>2, <2>5
  <1>3. CASE wlStream[s].handle /\ ~wlStream[s].eglStream /\ CreateFromSocket(s)
    <2>1. CASE /\ wlStream' = [wlStream EXCEPT ![s].handle = FALSE, ![s].eglStream = TRUE]
               /\ fd' = [fd EXCEPT ![s] = "stream"] /\ timedOut' = timedOut
      <3>1. fd' \in Descriptors /\ wlStream' \in Streams
        BY <2>1 DEF Descriptors, Streams
      <3>2. fd'[s] = "stream" /\ ~wlStream'[s].handle
        BY <2>1 DEF Descriptors, Streams
      <3>3. ASSUME NEW id \in Stream, id # s
            PROVE  fd'[id] = fd[id] /\ wlStream'[id] = wlStream[id]
        BY <2>1, <3>3 DEF Descriptors, Streams
      <3>4. ASSUME NEW id \in Stream PROVE OneOwner(id)'
        BY <2>1, <3>2, <3>3 DEF OneOwner
      <3> QED
        BY <3>1, <3>4
    <2>2. CASE /\ fd' = [fd EXCEPT ![s] = Closed(fd[s])] /\ wlStream' = wlStream
               /\ timedOut' = timedOut \union {s}
      <3>1. fd' \in Descriptors
        BY <2>2 DEF Descriptors, Closed
      <3>2. ASSUME NEW id \in Stream, id # s PROVE fd'[id] = fd[id]
        BY <2>2, <3>2 DEF Descriptors
      <3>3. ASSUME NEW id \in Stream PROVE OneOwner(id)'
        BY <2>2, <3>2 DEF OneOwner
      <3> QED
        BY <2>2, <3>1, <3>3
    <2> QED
      BY <1>1, <1>3, <2>1, <2>2 DEF CreateFromSocket
  <1> QED
    BY <1>1, <1>2, <1>3 DEF CreateStream

\* Every step keeps one owner for each descriptor.
LEMMA OwnersStep ==
    ASSUME fd \in Descriptors, Handles, HandlesOwned, Queues,
           resource \subseteq Stream, content \in Stream \union {NoStream}, [Next]_vars
    PROVE  fd' \in Descriptors /\ Handles' /\ HandlesOwned'
  <1>1. /\ wlStream \in Streams /\ \A id \in Stream : OneOwner(id)
        /\ error \in [posted : BOOLEAN, attribs : SUBSET Attrib]
    BY DEF Handles, HandlesOwned, OneOwner, Streams
  <1>2. SUFFICES /\ fd' \in Descriptors /\ wlStream' \in Streams
                 /\ \A id \in Stream : OneOwner(id)'
                 /\ error' \in [posted : BOOLEAN, attribs : SUBSET Attrib]
    BY DEF Handles, HandlesOwned, OneOwner, Streams
  <1>3. ASSUME UNCHANGED <<resource, wlStream, fd, timedOut, error>>
        PROVE  /\ fd' \in Descriptors /\ wlStream' \in Streams
               /\ \A id \in Stream : OneOwner(id)'
               /\ error' \in [posted : BOOLEAN, attribs : SUBSET Attrib]
    BY <1>1, <1>3 DEF OneOwner
  <1>4. CASE HandleCreateStream
    <2> DEFINE r == Head(wire).arg
    <2>1. r \in [id : Stream, type : {"fd", "socket", "inet"}, attribs : SUBSET Attrib]
      <3>1. wire # <<>> /\ Head(wire).op = "create_stream"
        BY <1>4 DEF HandleCreateStream, Handle
      <3> QED
        BY <3>1, ArgsTaken DEF Queues
    <2>2. UNCHANGED timedOut
      BY <1>4 DEF HandleCreateStream
    <2>3. CASE error' = [posted |-> TRUE, attribs |-> r.attribs] /\ DestroyResources(resource)
      <3>1. error' \in [posted : BOOLEAN, attribs : SUBSET Attrib]
        BY <2>1, <2>3
      <3> QED
        BY <1>1, <2>2, <2>3, <3>1, OwnersDestroyed
    <2>4. CASE /\ resource' = resource \union {r.id}
               /\ wlStream' = [wlStream EXCEPT ![r.id] = NewStream(r.type)]
               /\ fd' = [fd EXCEPT ![r.id] = "open"] /\ error' = error
      <3>1. PICK s \in Stream, type \in {"fd", "socket", "inet"} : s = r.id /\ type = r.type
        BY <2>1
      <3> HIDE DEF r
      <3>2. NewStream(type) \in [type : {"fd", "socket", "inet"}, handle : BOOLEAN,
                                 eglStream : BOOLEAN]
        BY DEF NewStream
      <3>3. /\ fd' \in Descriptors /\ wlStream' \in Streams
            /\ fd'[s] = "open" /\ wlStream'[s] = NewStream(type)
        BY <1>1, <2>4, <3>1, <3>2 DEF Descriptors, Streams
      <3>4. ASSUME NEW id \in Stream, id # s
            PROVE  fd'[id] = fd[id] /\ wlStream'[id] = wlStream[id]
        BY <1>1, <2>4, <3>1, <3>4 DEF Descriptors, Streams
      <3>5. ASSUME NEW id \in Stream PROVE OneOwner(id)'
        <4>1. CASE id = s
          BY <2>4, <3>1, <3>3, <4>1 DEF OneOwner, NewStream
        <4>2. CASE id # s
          BY <1>1, <2>2, <2>4, <3>1, <3>4, <4>2 DEF OneOwner
        <4> QED
          BY <4>1, <4>2
      <3> QED
        BY <1>1, <2>4, <3>3, <3>5
    <2> QED
      BY <1>4, <2>3, <2>4 DEF HandleCreateStream, RequestArg
  <1>5. CASE HandleDestroy
    BY <1>1, <1>5, OwnersDestroyed DEF HandleDestroy
  <1>6. CASE Disconnect
    <2>1. error' \in [posted : BOOLEAN, attribs : SUBSET Attrib]
      BY <1>6 DEF Disconnect
    <2> QED
      BY <1>1, <1>6, <2>1, OwnersDestroyed DEF Disconnect
  <1>7. CASE HandleConsumer
    <2>1. Head(wire).arg \in Stream
      <3>1. wire # <<>> /\ Head(wire).op = "attach_consumer"
        BY <1>7 DEF HandleConsumer, Handle
      <3> QED
        BY <3>1, ArgsTaken DEF Queues
    <2> QED
      BY <1>1, <1>7, <2>1, OwnersConsumed DEF HandleConsumer, RequestArg
  <1>8. CASE HandleCommit
    <2>1. CASE RequestArg \in resource
      BY <1>1, <1>8, <2>1, OwnersConsumed DEF HandleCommit
    <2>2. CASE RequestArg \notin resource
      BY <1>3, <1>8, <2>2 DEF HandleCommit
    <2> QED
      BY <2>1, <2>2
  <1>9. CASE HandleSwapInterval \/ HandleSync
    BY <1>3, <1>9 DEF HandleSwapInterval, HandleSync, serverVars
  <1>10. CASE Client \/ Feedback \/ Ended \/ UNCHANGED vars
    <2>1. UNCHANGED serverVars
      BY <1>10 DEF Client, DispatchEvent, RoundTripAnswered, RoundTripFails, CreateSurface,
                   InitialPrimeState, MethodFails, CreateStreamLocal, CreateStreamFd,
                   CreateStreamRemote, CreateWlEglStream, Connect, ConnectFails, NextMethod,
                   AttachConsumer, CreateProducer, CreationFails, SwapBegin, SwapIntervalSent,
                   SwapFrame, SwapReturn, ReallocSurface, DestroySurface, Feedback, Ended, vars
    <2> QED
      BY <1>3, <2>1 DEF serverVars
  <1> QED
    BY <1>4, <1>5, <1>6, <1>7, <1>8, <1>9, <1>10 DEF Next, Compositor, HandleRequest

-----------------------------------------------------------------------------
(* Types                                                                      *)

\* What a local stream takes from the feedback.
LEMMA FeedbackTypes ==
    ASSUME TypeOK, Parsing
    PROVE  PrimeState \in BOOLEAN /\ Modifiers \subseteq 0..(MaxBursts + 1)
  <1>1. MaxBursts \in Nat
    BY BurstsAssumption
  <1>2. \A dev : FormatSetForDev(dev) \subseteq 1..MaxBursts
    <2>1. \A k \in DOMAIN tranches : tranches[k].formats \subseteq 1..MaxBursts
      <3>1. tranches \in Seq(Tranche) /\ \A a \in Tranche : a.formats \subseteq 1..MaxBursts
        BY DEF Parsing, Tranche
      <3> QED
        BY <3>1
    <2> QED
      BY <2>1 DEF FormatSetForDev
  <1>3. 1..MaxBursts \subseteq 0..(MaxBursts + 1)
    BY <1>1
  <1>4. Linear \subseteq 0..(MaxBursts + 1) /\ Display \subseteq 0..(MaxBursts + 1)
    BY <1>1 DEF Linear, Display
  <1>5. Modifiers \in {Linear, Display, FormatSetForDev("primary"), FormatSetForDev("render")}
    BY DEF Modifiers
  <1>6. PrimeState \in BOOLEAN
    <2>1. platform.prime \in BOOLEAN /\ prime \in BOOLEAN
      BY PlatformsAssumption DEF TypeOK
    <2> QED
      BY <2>1 DEF PrimeState
  <1> QED
    BY <1>2, <1>3, <1>4, <1>5, <1>6

\* Every step keeps the types.
LEMMA TypesStep ==
    ASSUME TypeOK, Parsing, Contexts, Handles, HandlesOwned, [Next]_vars, Contexts'
    PROVE  TypeOK' /\ Handles' /\ HandlesOwned'
  <1>1. ContextsOK /\ Queues /\ Ids /\ ContextsOK' /\ Ids'
    BY DEF Contexts
  <1>2. resource \subseteq Stream
    <2>1. nextId - 1 \in 0..MaxStreams
      BY <1>1, StreamsAssumption DEF ContextsOK
    <2> QED
      BY <1>1, <2>1, StreamsAssumption DEF Ids, Stream
  <1>3. fd' \in Descriptors /\ Handles' /\ HandlesOwned'
    BY <1>1, <1>2, OwnersStep DEF TypeOK, Descriptors
  <1>4. resource' \subseteq 1..(nextId' - 1) /\ content' \in Stream \union {NoStream}
    <2>1. nextId' \in 1..(MaxStreams + 1)
      BY <1>1 DEF ContextsOK
    <2>2. 1..(nextId' - 1) \subseteq Stream
      <3> DEFINE n == nextId'
      <3>1. n \in 1..(MaxStreams + 1)
        BY <2>1
      <3> HIDE DEF n
      <3>2. 1..(n - 1) \subseteq Stream
        BY <3>1, StreamsAssumption DEF Stream
      <3> QED
        BY <3>2 DEF n
    <2>3. content' \in (1..(nextId' - 1)) \union {NoStream} /\ resource' \subseteq 1..(nextId' - 1)
      BY <1>1 DEF Ids
    <2> QED
      BY <2>2, <2>3
  <1>5. PrimeState \in BOOLEAN /\ Modifiers \subseteq 0..(MaxBursts + 1)
    BY FeedbackTypes
  <1>6. /\ platform' = platform /\ prime' \in {prime, PrimeState}
        /\ layout' \in {layout, Modifiers}
    BY DEF Next, Client, Compositor, DispatchEvent, RoundTripAnswered, RoundTripFails,
           CreateSurface, InitialPrimeState, MethodFails, CreateStreamLocal, CreateStreamFd,
           CreateStreamRemote, CreateWlEglStream, Connect, ConnectFails, NextMethod,
           AttachConsumer, CreateProducer, CreationFails, SwapBegin, SwapIntervalSent,
           SwapFrame, SwapReturn, ReallocSurface, DestroySurface, Feedback, Ended, vars,
           clientVars, streamVars
  <1>7. formatTable' \in 0..burst' /\ burst' \in 0..MaxBursts
    <2>1. CASE DispatchEvent /\ HandleFeedback
      BY <1>1, <2>1, ParsingHandled DEF TypeOK, Queues
    <2>2. CASE Feedback
      <3>1. burst' = burst + 1 /\ burst' \in 1..MaxBursts /\ formatTable' = formatTable
        BY <1>1, <2>2, ParsingSent DEF Feedback, TypeOK, Queues, SendBurst, parser
      <3> QED
        BY <3>1 DEF TypeOK
    <2>3. CASE UNCHANGED <<burst, formatTable>>
      BY <2>3 DEF TypeOK
    <2> QED
      BY <2>1, <2>2, <2>3
         DEF Next, Client, Compositor, DispatchEvent, RoundTripAnswered, RoundTripFails,
             CreateSurface, InitialPrimeState, MethodFails, CreateStreamLocal, CreateStreamFd,
             CreateStreamRemote, CreateWlEglStream, Connect, ConnectFails, NextMethod,
             AttachConsumer, CreateProducer, CreationFails, SwapBegin, SwapIntervalSent,
             SwapFrame, SwapReturn, ReallocSurface, DestroySurface, Ended, vars,
             feedbackVars, parser
  <1>8. prime' \in BOOLEAN /\ layout' \subseteq 0..(MaxBursts + 1) /\ platform' \in Platforms
    BY <1>5, <1>6 DEF TypeOK
  <1> QED
    BY <1>1, <1>3, <1>4, <1>7, <1>8 DEF TypeOK, Descriptors

-----------------------------------------------------------------------------
(* The feedback                                                               *)

\* The parser reads on until the surface is destroyed.
LEMMA ReadingStep ==
    ASSUME TypeOK, Parsing, Queues, pc # "destroyed" => Reading, [Next]_vars
    PROVE  pc' # "destroyed" => Reading'
  <1>1. pc = "destroyed" \/ DestroySurface => pc' = "destroyed"
    BY DEF Next, Client, Compositor, DispatchEvent, RoundTripAnswered, RoundTripFails,
           CreateSurface, InitialPrimeState, MethodFails, CreateStreamLocal, CreateStreamFd,
           CreateStreamRemote, CreateWlEglStream, Connect, ConnectFails, NextMethod,
           AttachConsumer, CreateProducer, CreationFails, SwapBegin, SwapIntervalSent,
           SwapFrame, SwapReturn, ReallocSurface, DestroySurface, Feedback, Ended, vars,
           clientVars, controlVars, Dispatching, Reached, Lost, Trying, Goto
  <1> SUFFICES ASSUME pc # "destroyed", ~DestroySurface PROVE Reading'
    BY <1>1
  <1>2. IsQueue(sent) /\ Reading /\ burst \in 0..MaxBursts /\ formatTable \in 0..burst
    BY DEF Queues, TypeOK
  <1>3. burst \in Nat
    BY <1>2, BurstsAssumption
  <1>4. ASSUME NEW t, IsQueue(t), Whole(t, 0), sent' = sent \o t,
               UNCHANGED <<burst, parser, delivered>>
        PROVE  Reading'
    BY <1>2, <1>3, <1>4, ReadingSent
  <1>5. ASSUME NEW kind \in {"release", "sync"}, Dispatch(kind),
               UNCHANGED <<burst, parser, delivered>>
        PROVE  Reading'
    <2>1. /\ sent # <<>> /\ sent' = Tail(sent) /\ Head(sent).kind \notin FeedbackKinds
          /\ UNCHANGED <<tmpTranche, tranches, feedbackDone, delivered>>
      BY <1>5 DEF Dispatch, FeedbackKinds, parser
    <2> QED
      BY <1>2, <2>1, ReadingOther
  <1>6. CASE DispatchEvent
    <2>1. CASE HandleFeedback
      BY <1>2, <2>1, ReadingHandled
    <2>2. CASE WlBufferRelease /\ UNCHANGED feedbackVars
      <3>1. Dispatch("release") /\ UNCHANGED <<burst, parser, delivered>>
        BY <2>2 DEF WlBufferRelease, feedbackVars
      <3> QED
        BY <1>5, <3>1
    <2> QED
      BY <1>6, <2>1, <2>2 DEF DispatchEvent
  <1>7. CASE RoundTripAnswered
    <2>1. Dispatch("sync") /\ UNCHANGED <<burst, parser, delivered>>
      BY <1>7 DEF RoundTripAnswered, feedbackVars
    <2> QED
      BY <1>5, <2>1
  <1>8. ASSUME sent' = sent, UNCHANGED <<burst, parser, delivered>> PROVE Reading'
    <2>1. IsQueue(<<>>) /\ Whole(<<>>, 0) /\ sent \o <<>> = sent
      BY <1>2, OneMessage, WholeAlone, NothingSent
    <2>2. sent' = sent \o <<>>
      BY <1>8, <2>1
    <2> QED
      BY <1>4, <1>8, <2>1, <2>2
  <1>9. CASE Compositor
    <2>1. \/ sent' = sent \/ sent' = sent \o Event("release", content)
          \/ sent' = sent \o Event("sync", 0)
      BY <1>9 DEF Compositor, HandleRequest, HandleCreateStream, HandleDestroy, HandleConsumer,
                  HandleCommit, HandleSwapInterval, HandleSync, Disconnect
    <2>2. UNCHANGED <<burst, parser, delivered>>
      BY <1>9 DEF Compositor, feedbackVars
    <2>3. ASSUME NEW kind \in {"release", "sync"}, NEW arg, sent' = sent \o Event(kind, arg)
          PROVE  Reading'
      <3>1. IsQueue(Event(kind, arg))
        BY OneMessage
      <3>2. kind \notin FeedbackKinds
        BY DEF FeedbackKinds
      <3>3. Whole(Event(kind, arg), 0)
        BY <3>2, WholeAlone
      <3> QED
        BY <1>4, <2>2, <2>3, <3>1, <3>3
    <2> QED
      BY <1>8, <2>1, <2>2, <2>3
  <1>10. CASE Feedback
    <2>1. PICK b \in Bursts : SendBurst(b)
      BY <1>10 DEF Feedback
    <2>2. /\ burst + 1 \in 1..MaxBursts /\ burst' = burst + 1
          /\ sent' = sent \o BurstEvents(b, burst + 1) /\ UNCHANGED <<parser, delivered>>
      BY <1>2, <2>1, BurstsAssumption DEF SendBurst
    <2> DEFINE e == BurstEvents(b, burst + 1)
    <2>3. IsQueue(e) /\ Whole(e, 0)
      BY <2>2, BurstSent, WholeAlone
    <2> HIDE DEF e
    <2>4. sent' = sent \o e /\ burst' \in Nat /\ burst <= burst'
      BY <1>3, <2>2 DEF e
    <2> QED
      BY <1>2, <1>3, <2>2, <2>3, <2>4, ReadingSent
  <1>11. CASE \/ RoundTripFails \/ CreateSurface \/ InitialPrimeState \/ MethodFails
              \/ CreateStreamLocal \/ CreateStreamFd
              \/ \E type \in {"socket", "inet"} : CreateStreamRemote(type)
              \/ Connect \/ ConnectFails \/ AttachConsumer \/ CreateProducer \/ CreationFails
              \/ SwapBegin \/ SwapIntervalSent \/ SwapFrame \/ SwapReturn \/ ReallocSurface
              \/ Ended \/ UNCHANGED vars
    <2>1. sent' = sent /\ UNCHANGED <<burst, parser, delivered>>
      BY <1>11 DEF RoundTripFails, CreateSurface, InitialPrimeState, MethodFails,
                   CreateStreamLocal, CreateStreamFd, CreateStreamRemote, CreateWlEglStream,
                   Connect, ConnectFails, NextMethod, AttachConsumer, CreateProducer,
                   CreationFails, SwapBegin, SwapIntervalSent, SwapFrame, SwapReturn,
                   ReallocSurface, Ended, vars, connection, feedbackVars
    <2> QED
      BY <1>8, <2>1
  <1> QED
    BY <1>6, <1>7, <1>9, <1>10, <1>11 DEF Next, Client

\* What was made of a burst stays so until the next one has been read.
LEMMA TakenStep ==
    ASSUME TypeOK, Parsing, Control, Queues, pc # "destroyed" => Reading, Taken, [Next]_vars
    PROVE  Taken'
  <1>1. ASSUME UNCHANGED <<platform, prime, layout, tranches, feedbackDone, unprocessedFeedback>>,
               ctx'.kind \in {ctx.kind, "none", "remote"}
        PROVE  Taken'
    <2>1. PrimeState' = PrimeState /\ Modifiers' = Modifiers
      BY <1>1 DEF PrimeState, SamplingTranches, Modifiers, FormatSetForDev, HasFeedback
    <2> QED
      BY <1>1, <2>1 DEF Taken
  <1>2. CASE DispatchEvent
    <2>1. pc # "destroyed" /\ UNCHANGED <<platform, prime, layout, ctx>>
      BY <1>2 DEF DispatchEvent, Dispatching, WlBufferRelease, contextVars, streamVars
    <2>2. CASE UNCHANGED feedbackVars
      BY <1>1, <2>1, <2>2 DEF feedbackVars, parser
    <2>3. CASE HandleFeedback
      <3>1. CASE feedbackDone' = FALSE
        BY <3>1 DEF Taken
      <3>2. CASE unprocessedFeedback' = TRUE
        BY <3>2 DEF Taken
      <3>3. CASE FormatTable
        BY <1>1, <2>1, <3>3 DEF FormatTable
      <3>4. CASE TrancheDone
        <4>1. ~feedbackDone
          BY <2>1, <3>4, ReadWhole DEF Queues
        <4> QED
          BY <3>4, <4>1 DEF TrancheDone, Taken
      <3> QED
        BY <2>3, <3>1, <3>2, <3>3, <3>4
           DEF HandleFeedback, MainDevice, TrancheTargetDevice, TrancheFlags, TrancheFormats,
               FeedbackDone, CheckResetTranches
    <2> QED
      BY <1>2, <2>2, <2>3 DEF DispatchEvent
  <1>3. ASSUME prime' = PrimeState, UNCHANGED <<platform, tranches>>
        PROVE  prime' = PrimeState'
    <2>1. platform.prime \in BOOLEAN /\ prime \in BOOLEAN
      BY PlatformsAssumption DEF TypeOK
    <2>2. SamplingTranches' = SamplingTranches
      BY <1>3 DEF SamplingTranches
    <2>3. (\E k \in SamplingTranches : tranches[k].dev \in Nvidia)
             <=> (\E k \in SamplingTranches : tranches[k].dev \in Nvidia)'
      BY <1>3, <2>2
    <2>4. CASE platform.dmabuf < 6
      BY <1>3, <2>4 DEF PrimeState
    <2>5. CASE ~(platform.dmabuf < 6) /\ \E k \in SamplingTranches : tranches[k].dev \in Nvidia
      BY <1>3, <2>3, <2>5 DEF PrimeState
    <2>6. CASE /\ ~(platform.dmabuf < 6)
               /\ ~\E k \in SamplingTranches : tranches[k].dev \in Nvidia
      <3>1. prime' = (SamplingTranches # {} \/ prime)
        BY <1>3, <2>6 DEF PrimeState
      <3>2. PrimeState' = (SamplingTranches # {} \/ prime')
        BY <1>3, <2>2, <2>3, <2>6 DEF PrimeState
      <3> QED
        BY <2>1, <3>1, <3>2
    <2> QED
      BY <2>4, <2>5, <2>6
  <1>4. CASE InitialPrimeState
    <2>1. ctx.kind = "none"
      BY <1>4 DEF InitialPrimeState, Reached, Control, Waiting, NoContext
    <2>2. prime' = PrimeState /\ UNCHANGED <<platform, tranches, ctx>>
      BY <1>4 DEF InitialPrimeState, contextVars, parser
    <2> QED
      BY <1>3, <2>1, <2>2 DEF Taken
  <1>5. CASE ReallocSurface
    <2>1. /\ ctx'.kind = "none" /\ UNCHANGED <<platform, tranches, feedbackDone>>
          /\ prime' = IF unprocessedFeedback THEN PrimeState ELSE prime
      BY <1>5 DEF ReallocSurface, NoContext, parser
    <2>2. CASE unprocessedFeedback
      BY <1>3, <2>1, <2>2 DEF Taken
    <2>3. CASE ~unprocessedFeedback
      <3>1. feedbackDone => prime' = PrimeState
        BY <2>1, <2>3 DEF Taken
      <3> QED
        BY <1>3, <2>1, <3>1 DEF Taken
    <2> QED
      BY <2>2, <2>3
  <1>6. CASE CreateStreamLocal
    <2>1. UNCHANGED <<platform, prime, tranches, feedbackDone, unprocessedFeedback>>
      BY <1>6 DEF CreateStreamLocal, feedbackVars, parser
    <2>2. CASE layout' = Modifiers
      <3>1. PrimeState' = PrimeState /\ Modifiers' = Modifiers
        BY <2>1 DEF PrimeState, SamplingTranches, Modifiers, FormatSetForDev, HasFeedback
      <3> QED
        BY <2>1, <2>2, <3>1 DEF Taken
    <2>3. CASE UNCHANGED <<ctx, layout>>
      BY <1>1, <2>1, <2>3
    <2> QED
      BY <1>6, <2>2, <2>3 DEF CreateStreamLocal
  <1>7. CASE \/ RoundTripAnswered \/ RoundTripFails \/ CreateSurface \/ MethodFails
             \/ CreateStreamFd
             \/ \E type \in {"socket", "inet"} : CreateStreamRemote(type)
             \/ Connect \/ ConnectFails \/ AttachConsumer \/ CreateProducer \/ CreationFails
             \/ SwapBegin \/ SwapIntervalSent \/ SwapFrame \/ SwapReturn \/ DestroySurface
             \/ Compositor \/ Feedback \/ Ended \/ UNCHANGED vars
    <2>1. UNCHANGED <<platform, prime, layout, tranches, feedbackDone, unprocessedFeedback>>
      BY <1>7 DEF RoundTripAnswered, RoundTripFails, CreateSurface, MethodFails,
                  CreateStreamFd, CreateStreamRemote, CreateWlEglStream, Connect, ConnectFails,
                  NextMethod, AttachConsumer, CreateProducer, CreationFails, SwapBegin,
                  SwapIntervalSent, SwapFrame, SwapReturn, DestroySurface, Compositor, Feedback,
                  SendBurst, Ended, vars, clientVars, streamVars, feedbackVars, parser
    <2>2. ctx'.kind \in {ctx.kind, "none", "remote"}
      <3>1. CASE MethodFails \/ ConnectFails \/ CreationFails \/ DestroySurface
        BY <3>1 DEF MethodFails, ConnectFails, NextMethod, CreationFails, DestroySurface, NoContext
      <3>2. CASE CreateStreamFd \/ \E type \in {"socket", "inet"} : CreateStreamRemote(type)
        <4>1. ctx' = [NoContext EXCEPT !.kind = "remote", !.id = nextId]
          BY <3>2 DEF CreateStreamFd, CreateStreamRemote, CreateWlEglStream
        <4> QED
          BY <4>1 DEF NoContext
      <3>3. CASE AttachConsumer \/ SwapFrame
        <4>1. ctx' = ctx \/ \E a \in BOOLEAN : ctx' = [ctx EXCEPT !.attached = a]
          BY <3>3, PlatformsAssumption DEF AttachConsumer, SwapFrame, TypeOK
        <4>2. ctx \in [kind : {"none", "local", "remote"}, id : Stream \union {NoStream},
                       attached : BOOLEAN]
          BY DEF TypeOK, ContextsOK
        <4> QED
          BY <4>1, <4>2
      <3>4. CASE \/ RoundTripAnswered \/ RoundTripFails \/ CreateSurface \/ Connect
                 \/ CreateProducer \/ SwapBegin \/ SwapIntervalSent \/ SwapReturn
                 \/ Compositor \/ Feedback \/ Ended \/ UNCHANGED vars
        BY <3>4 DEF RoundTripAnswered, RoundTripFails, CreateSurface, Connect, CreateProducer,
                    SwapBegin, SwapIntervalSent, SwapReturn, Compositor, Feedback, Ended, vars,
                    clientVars, contextVars
      <3> QED
        BY <1>7, <3>1, <3>2, <3>3, <3>4
    <2> QED
      BY <1>1, <2>1, <2>2
  <1> QED
    BY <1>2, <1>4, <1>5, <1>6, <1>7 DEF Next, Client

-----------------------------------------------------------------------------
(* The invariant                                                              *)

\* It holds at the start.
LEMMA InitInvariant == Init => IInv
  <1> SUFFICES ASSUME Init PROVE IInv
    OBVIOUS
  <1>1. /\ IsQueue(wire) /\ IsQueue(sent)
        /\ \A op : Args(wire, op) = {} /\ EventArgs(sent, op) = {}
        /\ CreatedFirst(wire) /\ Contiguous(content, wire, ctx.id)
    BY OneMessage, ArgsOne, ContiguousEmpty DEF Init
  <1>2. Committing = {} /\ Creating = {} /\ Destroying = {} /\ Released = {}
    BY <1>1 DEF Committing, Creating, Destroying, Released
  <1>3. ctx = NoContext /\ ctx.id = NoStream /\ old = {} /\ proxies = {} /\ nextId = 1
    BY DEF Init, NoContext
  <1>4. ContextsOK
    <2>1. ctx \in [kind : {"none", "local", "remote"}, id : Stream \union {NoStream},
                   attached : BOOLEAN] /\ ctx.kind = "none"
      BY <1>3 DEF NoContext
    <2> QED
      BY <1>3, <2>1, StreamsAssumption DEF ContextsOK, CtxStreams
  <1>5. Contexts
    BY <1>1, <1>2, <1>3, <1>4
       DEF Contexts, Queues, Ids, Showing, Existing, Shown, Init, ServerInit, Connected
  <1>6. Handles /\ HandlesOwned /\ fd \in [Stream -> {"none", "open", "closed", "stream", "twice"}]
    BY DEF Init, ServerInit, Handles, HandlesOwned, NewStream
  <1>7. Parsing
    <2>1. /\ EventArgs(sent, "format_table") = {} /\ EventArgs(sent, "target_device") = {}
          /\ EventArgs(sent, "done") = {}
      BY <1>1
    <2>2. /\ tmpTranche = NoTranche /\ tranches = <<>> /\ delivered = <<>>
          /\ feedbackDone = FALSE /\ unprocessedFeedback = FALSE
      BY DEF Init, FeedbackInit
    <2>3. NoTranche \in Tranche
      BY DEF NoTranche, Tranche
    <2>4. <<>> \in Seq(Tranche)
      OBVIOUS
    <2> QED
      BY <2>1, <2>2, <2>3, <2>4 DEF Parsing
  <1>8. TypeOK
    <2>1. /\ platform \in Platforms /\ resource = {} /\ content = NoStream
          /\ prime = FALSE /\ layout = {} /\ formatTable = 0 /\ burst = 0
      BY DEF Init, ServerInit, FeedbackInit
    <2>2. prime \in BOOLEAN /\ layout \subseteq 0..(MaxBursts + 1)
      BY <2>1
    <2>3. formatTable \in 0..burst /\ burst \in 0..MaxBursts
      BY <2>1, BurstsAssumption
    <2>4. resource \subseteq 1..(nextId - 1) /\ content \in Stream \union {NoStream}
      BY <2>1
    <2> QED
      BY <1>4, <1>6, <2>1, <2>2, <2>3, <2>4 DEF TypeOK
  <1>9. Control
    BY <1>3 DEF Control, Init, Waiting
  <1>10. LegacyAttached
    BY <1>3 DEF LegacyAttached, Init, NoContext
  <1> QED
    BY <1>5, <1>6, <1>7, <1>8, <1>9, <1>10 DEF IInv

\* The surface's contexts, the connection and the compositor's resources agree, for
\* every platform, every feedback and any number of streams.
THEOREM Invariance == Spec => []IInv
  <1>1. IInv /\ [Next]_vars => IInv'
    <2> SUFFICES ASSUME IInv, [Next]_vars PROVE IInv'
      OBVIOUS
    <2>1. /\ TypeOK /\ Parsing /\ Control /\ LegacyAttached
          /\ Contexts /\ Handles /\ HandlesOwned
      BY DEF IInv
    <2>2. ContextsOK /\ Queues
      BY <2>1 DEF Contexts
    <2>3. Contexts'
      BY <2>1, ContextsStep
    <2>4. Control' /\ Parsing'
      BY <2>1, <2>2, ControlStep, ParsingStep
    <2>5. TypeOK' /\ Handles' /\ HandlesOwned'
      BY <2>1, <2>3, TypesStep
    <2>6. LegacyAttached'
      BY <2>1, LegacyStep
    <2> QED
      BY <2>3, <2>4, <2>5, <2>6 DEF IInv
  <1> QED
    BY <1>1, InitInvariant, PTL DEF Spec

\* The types are those of TypeOK, and each wl_buffer belongs to one context.
THEOREM TypeCorrect == Spec => []TypeOK
  <1>1. IInv => TypeOK
    BY DEF IInv
  <1> QED
    BY <1>1, Invariance, PTL

\* A wl_eglstream the compositor shows keeps its wl_buffer, unless its own creation
\* failed after the legacy attach, and one that was put off is still shown or its
\* release is on the way.
THEOREM StreamsKept == Spec => []KeptWhileShown
  <1>1. IInv => KeptWhileShown
    <2> SUFFICES ASSUME IInv, pc # "destroyed"
                 PROVE  /\ Shown \subseteq proxies \union
                                     (IF platform.legacy THEN broken ELSE {})
                        /\ Connected => old \subseteq Shown \union Released
      BY DEF KeptWhileShown
    <2>1. /\ Shown \subseteq proxies \union broken
          /\ Connected => old \subseteq Shown \union Released
      BY DEF IInv, Contexts, Showing
    <2>2. broken = {} \/ platform.legacy
      BY DEF IInv, LegacyAttached
    <2> QED
      BY <2>1, <2>2
  <1> QED
    BY <1>1, Invariance, PTL

\* Every descriptor the compositor received is closed once, or given to one stream.
THEOREM DescriptorsOwned == Spec => []HandlesOwned
  <1>1. IInv => HandlesOwned
    BY DEF IInv
  <1> QED
    BY <1>1, Invariance, PTL

\* It holds at the start.
LEMMA InitSettled == Init => SettledInv
  <1> SUFFICES ASSUME Init PROVE SettledInv
    OBVIOUS
  <1>1. sent = <<>> /\ tmpTranche = NoTranche /\ tranches = <<>> /\ feedbackDone = FALSE
    BY DEF Init, FeedbackInit
  <1>2. Coming(<<>>)
    <2>1. Len(<<>>) = 0 /\ Whole(<<>>, 0)
      BY WholeAlone
    <2>2. On(<<>>, 0, <<>>)
      BY <2>1 DEF On
    <2> QED
      BY <1>1, <2>1, <2>2 DEF Coming
  <1>3. Settled
    BY <1>1 DEF Settled
  <1>4. Taken
    BY <1>1 DEF Taken
  <1> QED
    BY <1>2, <1>3, <1>4 DEF SettledInv, Reading, BetweenBursts

\* Wherever a dispatch stops in a burst, the parser has what of it has come, and
\* what a creation took from the last one is still in force.
THEOREM SettledInvariance == Spec => []SettledInv
  <1>1. IInv /\ SettledInv /\ [Next]_vars => SettledInv'
    <2> SUFFICES ASSUME IInv, SettledInv, [Next]_vars PROVE SettledInv'
      OBVIOUS
    <2>1. TypeOK /\ Parsing /\ Control /\ Queues
      BY DEF IInv, Contexts
    <2>2. (pc # "destroyed" => Reading) /\ Taken
      BY DEF SettledInv
    <2>3. (pc' # "destroyed" => Reading') /\ Taken'
      BY <2>1, <2>2, ReadingStep, TakenStep
    <2> QED
      BY <2>3 DEF SettledInv
  <1> QED
    BY <1>1, InitSettled, Invariance, PTL DEF Spec

\* Once a swap has looked at the last burst, a local stream has exactly its
\* modifiers, and PRIME as its sampling tranches say, if it has any.
THEOREM FeedbackTaken == Spec => []FeedbackSettled
  <1>1. IInv /\ SettledInv => FeedbackSettled
    <2> SUFFICES ASSUME IInv, SettledInv, pc = "idle", ctx.kind = "local",
                        feedbackDone, ~unprocessedFeedback
                 PROVE  /\ tranches = delivered /\ layout = Modifiers
                        /\ platform.dmabuf < 6 => prime = platform.prime
                        /\ platform.dmabuf >= 6 /\ Sampled # {}
                             => prime = (Sampled \intersect Nvidia = {})
      BY DEF FeedbackSettled
    <2>1. Reading /\ IsQueue(sent)
      BY DEF SettledInv, IInv, Contexts, Queues
    <2>2. tranches = delivered
      BY <2>1, ReadWhole
    <2>3. layout = Modifiers /\ prime = PrimeState
      BY DEF SettledInv, Taken
    <2>4. platform.dmabuf < 6 => prime = platform.prime
      BY <2>3 DEF PrimeState
    <2>5. ASSUME platform.dmabuf >= 6, Sampled # {}
          PROVE  prime = (Sampled \intersect Nvidia = {})
      <3>1. ~(platform.dmabuf < 6)
        <4>1. platform.dmabuf \in 0..6
          BY PlatformsAssumption DEF IInv, TypeOK
        <4> QED
          BY <2>5, <4>1
      <3>2. Sampled = {tranches[k].dev : k \in SamplingTranches}
        BY <2>2 DEF Sampled, SamplingTranches
      <3>3. CASE \E k \in SamplingTranches : tranches[k].dev \in Nvidia
        <4>1. prime = FALSE
          BY <2>3, <3>1, <3>3 DEF PrimeState
        <4>2. Sampled \intersect Nvidia # {}
          BY <3>2, <3>3
        <4> QED
          BY <4>1, <4>2
      <3>4. CASE ~\E k \in SamplingTranches : tranches[k].dev \in Nvidia
        <4>1. prime = (SamplingTranches # {} \/ prime)
          BY <2>3, <3>1, <3>4 DEF PrimeState
        <4>2. SamplingTranches # {} /\ Sampled \intersect Nvidia = {}
          BY <2>5, <3>2, <3>4
        <4> QED
          BY <4>1, <4>2
      <3> QED
        BY <3>3, <3>4
    <2> QED
      BY <2>2, <2>3, <2>4, <2>5
  <1> QED
    BY <1>1, Invariance, SettledInvariance, PTL
=============================================================================
