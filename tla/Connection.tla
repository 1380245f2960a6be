----------------------------- MODULE Connection -----------------------------
(***************************************************************************)
(* The connection between one surface and the compositor: requests are       *)
(* handled, and the events of the surface's queue dispatched, in the order   *)
(* they were sent.                                                           *)
(***************************************************************************)
EXTENDS Naturals, Sequences

CONSTANT MaxFailures    \* bound: calls that fail, on either side

ASSUME FailuresAssumption == MaxFailures \in Nat

VARIABLES
    wire,       \* requests the compositor has not handled
    sent,       \* events the surface has not dispatched
    failures

Request(op, arg) == <<[op |-> op, arg |-> arg]>>
Event(kind, arg) == <<[kind |-> kind, arg |-> arg]>>

\* The next request, or event, is of this kind.
Handle(op)     == wire # <<>> /\ Head(wire).op = op
Dispatch(kind) == sent # <<>> /\ Head(sent).kind = kind /\ sent' = Tail(sent)

\* What the requests of one kind, or the events of one kind, carry.
Args(w, op)        == {w[k].arg : k \in {j \in DOMAIN w : w[j].op = op}}
EventArgs(s, kind) == {s[k].arg : k \in {j \in DOMAIN s : s[j].kind = kind}}

\* A finite sequence, of whatever it holds.
IsQueue(s) == Len(s) \in Nat /\ s = [k \in 1..Len(s) |-> s[k]]

RequestArg == Head(wire).arg
Arg        == Head(sent).arg

Fail == failures < MaxFailures /\ failures' = failures + 1
=============================================================================
