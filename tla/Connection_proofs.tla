-------------------------- MODULE Connection_proofs --------------------------
(* What the operators on the two queues of a connection return: no fact about *)
(* a queue is taken from its representation anywhere else.                    *)
EXTENDS Connection, Integers, SequenceTheorems, TLAPS

\* A queue has the indices from 1 to its length, and the empty one none.
LEMMA QueueShape ==
    ASSUME NEW s, IsQueue(s)
    PROVE  /\ Len(s) \in Nat /\ DOMAIN s = 1..Len(s)
           /\ \A S : (\A k \in 1..Len(s) : s[k] \in S) => s \in Seq(S)
           /\ s \in Seq({s[k] : k \in 1..Len(s)})
           /\ s = <<>> <=> Len(s) = 0
  <1>1. Len(s) \in Nat /\ DOMAIN s = 1..Len(s)
    BY DEF IsQueue
  <1>2. \A S : (\A k \in 1..Len(s) : s[k] \in S) => s \in Seq(S)
    <2> SUFFICES ASSUME NEW S, \A k \in 1..Len(s) : s[k] \in S
                 PROVE  s \in Seq(S)
      OBVIOUS
    <2>1. s \in [1..Len(s) -> S]
      BY DEF IsQueue
    <2> QED
      BY <1>1, <2>1
  <1>3. s \in Seq({s[k] : k \in 1..Len(s)})
    BY <1>2
  <1>4. s = <<>> <=> Len(s) = 0
    BY <1>3
  <1> QED
    BY <1>1, <1>2, <1>3, <1>4

\* Sequences are queues.
LEMMA SeqQueue ==
    ASSUME NEW S, NEW s \in Seq(S)
    PROVE  IsQueue(s)
  BY DEF IsQueue

\* Sending at the end of a queue.
LEMMA Sending ==
    ASSUME NEW s, NEW t, IsQueue(s), IsQueue(t)
    PROVE  /\ IsQueue(s \o t)
           /\ Len(s \o t) = Len(s) + Len(t)
           /\ \A k \in 1..Len(s) : (s \o t)[k] = s[k]
           /\ \A k \in 1..Len(t) : (s \o t)[Len(s) + k] = t[k]
           /\ \A k \in (Len(s) + 1)..(Len(s) + Len(t)) : (s \o t)[k] = t[k - Len(s)]
  <1> DEFINE S == {s[k] : k \in 1..Len(s)} \union {t[k] : k \in 1..Len(t)}
  <1>1. s \in Seq(S) /\ t \in Seq(S)
    BY QueueShape
  <1> HIDE DEF S
  <1>2. s \o t \in Seq(S)
    BY <1>1
  <1>3. IsQueue(s \o t)
    BY <1>2, SeqQueue
  <1> QED
    BY <1>1, <1>3

\* Parts of a queue may be grouped,
LEMMA Grouping ==
    ASSUME NEW s, NEW t, NEW u, IsQueue(s), IsQueue(t), IsQueue(u)
    PROVE  (s \o t) \o u = s \o (t \o u)
  <1> DEFINE S == {s[k] : k \in 1..Len(s)} \union {t[k] : k \in 1..Len(t)}
                     \union {u[k] : k \in 1..Len(u)}
  <1>1. s \in Seq(S) /\ t \in Seq(S) /\ u \in Seq(S)
    BY QueueShape
  <1> HIDE DEF S
  <1> QED
    BY <1>1, ConcatAssociative

\* and an empty part left out.
LEMMA NothingSent ==
    ASSUME NEW s, IsQueue(s)
    PROVE  <<>> \o s = s /\ s \o <<>> = s
  <1> DEFINE S == {s[k] : k \in 1..Len(s)}
  <1>1. s \in Seq(S)
    BY QueueShape
  <1> HIDE DEF S
  <1> QED
    BY <1>1, ConcatEmptySeq

\* Taking the head off a queue.
LEMMA Taking ==
    ASSUME NEW s, IsQueue(s), s # <<>>
    PROVE  /\ IsQueue(Tail(s))
           /\ Len(s) \in Nat \ {0} /\ Len(Tail(s)) = Len(s) - 1
           /\ Head(s) = s[1]
           /\ \A k \in 1..Len(Tail(s)) : Tail(s)[k] = s[k + 1]
  <1> DEFINE S == {s[k] : k \in 1..Len(s)}
  <1>1. s \in Seq(S)
    BY QueueShape
  <1> HIDE DEF S
  <1>2. Tail(s) \in Seq(S)
    BY <1>1
  <1>3. IsQueue(Tail(s))
    BY <1>2, SeqQueue
  <1> QED
    BY <1>1, <1>3

\* A single message.
LEMMA OneMessage ==
    ASSUME NEW op, NEW arg
    PROVE  /\ IsQueue(Request(op, arg)) /\ Len(Request(op, arg)) = 1
           /\ Request(op, arg)[1] = [op |-> op, arg |-> arg]
           /\ IsQueue(Event(op, arg)) /\ Len(Event(op, arg)) = 1
           /\ Event(op, arg)[1] = [kind |-> op, arg |-> arg]
           /\ IsQueue(<<>>) /\ Len(<<>>) = 0
  BY DEF Request, Event, IsQueue

-----------------------------------------------------------------------------
(* What a queue holds after each of these.                                    *)

\* Sending adds what is sent.
LEMMA ArgsSent ==
    ASSUME NEW s, NEW t, IsQueue(s), IsQueue(t), NEW op
    PROVE  /\ Args(s \o t, op) = Args(s, op) \union Args(t, op)
           /\ EventArgs(s \o t, op) = EventArgs(s, op) \union EventArgs(t, op)
  <1> DEFINE n == Len(s)
             m == Len(t)
             u == s \o t
  <1>1. /\ n \in Nat /\ m \in Nat
        /\ DOMAIN s = 1..n /\ DOMAIN t = 1..m
        /\ DOMAIN u = 1..(n + m)
        /\ \A k \in 1..n : u[k] = s[k]
        /\ \A k \in 1..m : u[n + k] = t[k]
    BY Sending, QueueShape
  <1>2. \A k \in 1..(n + m) : k \in 1..n \/ \E j \in 1..m : k = n + j
    <2> SUFFICES ASSUME NEW k \in 1..(n + m), k \notin 1..n
                 PROVE  \E j \in 1..m : k = n + j
      OBVIOUS
    <2> HIDE DEF n, m
    <2>1. k - n \in 1..m /\ k = n + (k - n)
      BY <1>1
    <2> QED
      BY <2>1
  <1>3. \A k \in 1..n : k \in 1..(n + m)
    BY <1>1
  <1>4. \A k \in 1..m : n + k \in 1..(n + m)
    BY <1>1
  <1> HIDE DEF n, m, u
  <1>5. Args(u, op) = Args(s, op) \union Args(t, op)
    <2>1. ASSUME NEW x \in Args(u, op) PROVE x \in Args(s, op) \union Args(t, op)
      <3>1. PICK k \in 1..(n + m) : u[k].op = op /\ x = u[k].arg
        BY <1>1, <2>1 DEF Args
      <3>2. CASE k \in 1..n
        BY <1>1, <3>1, <3>2 DEF Args
      <3>3. CASE \E j \in 1..m : k = n + j
        <4>1. PICK j \in 1..m : k = n + j
          BY <3>3
        <4> QED
          BY <1>1, <3>1, <4>1 DEF Args
      <3> QED
        BY <1>2, <3>2, <3>3
    <2>2. ASSUME NEW x \in Args(s, op) \union Args(t, op) PROVE x \in Args(u, op)
      BY <1>1, <1>3, <1>4, <2>2 DEF Args
    <2> QED
      BY <2>1, <2>2
  <1>6. EventArgs(u, op) = EventArgs(s, op) \union EventArgs(t, op)
    <2>1. ASSUME NEW x \in EventArgs(u, op)
          PROVE  x \in EventArgs(s, op) \union EventArgs(t, op)
      <3>1. PICK k \in 1..(n + m) : u[k].kind = op /\ x = u[k].arg
        BY <1>1, <2>1 DEF EventArgs
      <3>2. CASE k \in 1..n
        BY <1>1, <3>1, <3>2 DEF EventArgs
      <3>3. CASE \E j \in 1..m : k = n + j
        <4>1. PICK j \in 1..m : k = n + j
          BY <3>3
        <4> QED
          BY <1>1, <3>1, <4>1 DEF EventArgs
      <3> QED
        BY <1>2, <3>2, <3>3
    <2>2. ASSUME NEW x \in EventArgs(s, op) \union EventArgs(t, op)
          PROVE  x \in EventArgs(u, op)
      BY <1>1, <1>3, <1>4, <2>2 DEF EventArgs
    <2> QED
      BY <2>1, <2>2
  <1> QED
    BY <1>5, <1>6 DEF u

\* Taking the head off removes it, and nothing but it.
LEMMA ArgsTaken ==
    ASSUME NEW s, IsQueue(s), s # <<>>, NEW op
    PROVE  /\ Args(s, op) = Args(Tail(s), op)
                              \union (IF Head(s).op = op THEN {Head(s).arg} ELSE {})
           /\ EventArgs(s, op) = EventArgs(Tail(s), op)
                              \union (IF Head(s).kind = op THEN {Head(s).arg} ELSE {})
  <1> DEFINE n == Len(s)
             t == Tail(s)
  <1>1. /\ n \in Nat \ {0}
        /\ DOMAIN s = 1..n /\ DOMAIN t = 1..(n - 1)
        /\ Head(s) = s[1]
        /\ \A k \in 1..(n - 1) : t[k] = s[k + 1]
    BY Taking, QueueShape
  <1> HIDE DEF n, t
  <1>2. \A k \in 1..n : k = 1 \/ \E j \in 1..(n - 1) : k = j + 1
    <2> SUFFICES ASSUME NEW k \in 1..n, k # 1
                 PROVE  \E j \in 1..(n - 1) : k = j + 1
      OBVIOUS
    <2>1. k - 1 \in 1..(n - 1) /\ k = (k - 1) + 1
      BY <1>1
    <2> QED
      BY <2>1
  <1>3. 1 \in 1..n /\ \A k \in 1..(n - 1) : k + 1 \in 1..n
    BY <1>1
  <1>4. Args(s, op) = Args(t, op) \union (IF s[1].op = op THEN {s[1].arg} ELSE {})
    <2>1. ASSUME NEW x \in Args(s, op)
          PROVE  x \in Args(t, op) \union (IF s[1].op = op THEN {s[1].arg} ELSE {})
      <3>1. PICK k \in 1..n : s[k].op = op /\ x = s[k].arg
        BY <1>1, <2>1 DEF Args
      <3>2. CASE \E j \in 1..(n - 1) : k = j + 1
        <4>1. PICK j \in 1..(n - 1) : k = j + 1
          BY <3>2
        <4> QED
          BY <1>1, <3>1, <4>1 DEF Args
      <3> QED
        BY <1>2, <3>1, <3>2
    <2>2. ASSUME NEW x \in Args(t, op) PROVE x \in Args(s, op)
      BY <1>1, <1>3, <2>2 DEF Args
    <2>3. s[1].op = op => s[1].arg \in Args(s, op)
      BY <1>1, <1>3 DEF Args
    <2> QED
      BY <2>1, <2>2, <2>3
  <1>5. EventArgs(s, op) = EventArgs(t, op)
                             \union (IF s[1].kind = op THEN {s[1].arg} ELSE {})
    <2>1. ASSUME NEW x \in EventArgs(s, op)
          PROVE  x \in EventArgs(t, op) \union (IF s[1].kind = op THEN {s[1].arg} ELSE {})
      <3>1. PICK k \in 1..n : s[k].kind = op /\ x = s[k].arg
        BY <1>1, <2>1 DEF EventArgs
      <3>2. CASE \E j \in 1..(n - 1) : k = j + 1
        <4>1. PICK j \in 1..(n - 1) : k = j + 1
          BY <3>2
        <4> QED
          BY <1>1, <3>1, <4>1 DEF EventArgs
      <3> QED
        BY <1>2, <3>1, <3>2
    <2>2. ASSUME NEW x \in EventArgs(t, op) PROVE x \in EventArgs(s, op)
      BY <1>1, <1>3, <2>2 DEF EventArgs
    <2>3. s[1].kind = op => s[1].arg \in EventArgs(s, op)
      BY <1>1, <1>3 DEF EventArgs
    <2> QED
      BY <2>1, <2>2, <2>3
  <1> QED
    BY <1>1, <1>4, <1>5 DEF t

\* What one message, or none, carries.
LEMMA ArgsOne ==
    ASSUME NEW o, NEW a, NEW op
    PROVE  /\ Args(Request(o, a), op) = IF o = op THEN {a} ELSE {}
           /\ EventArgs(Event(o, a), op) = IF o = op THEN {a} ELSE {}
           /\ Args(<<>>, op) = {} /\ EventArgs(<<>>, op) = {}
  <1>1. DOMAIN Request(o, a) = {1} /\ Request(o, a)[1] = [op |-> o, arg |-> a]
    BY DEF Request
  <1>2. DOMAIN Event(o, a) = {1} /\ Event(o, a)[1] = [kind |-> o, arg |-> a]
    BY DEF Event
  <1>3. Args(Request(o, a), op) = IF o = op THEN {a} ELSE {}
    BY <1>1 DEF Args
  <1>4. EventArgs(Event(o, a), op) = IF o = op THEN {a} ELSE {}
    BY <1>2 DEF EventArgs
  <1>5. Args(<<>>, op) = {} /\ EventArgs(<<>>, op) = {}
    BY DEF Args, EventArgs
  <1> QED
    BY <1>3, <1>4, <1>5
=============================================================================
