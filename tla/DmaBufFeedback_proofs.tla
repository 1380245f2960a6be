------------------------- MODULE DmaBufFeedback_proofs -------------------------
(* The events of dma-buf feedback and the parser of them, for every set of     *)
(* bursts a compositor may send.                                              *)
EXTENDS DmaBufFeedback, Connection_proofs

-----------------------------------------------------------------------------
(* Types                                                                      *)

\* The events of one tranche.
LEMMA TrancheSent ==
    ASSUME NEW t
    PROVE  /\ IsQueue(TrancheEvents(t))
           /\ EventArgs(TrancheEvents(t), "target_device") = {t.dev}
           /\ \A kind \in {"release", "format_table", "done"} :
                 EventArgs(TrancheEvents(t), kind) = {}
  <1> DEFINE device == Event("target_device", t.dev)
             flags == FlagsEvents(t)
             formats == Event("formats", 0)
             done == Event("tranche_done", 0)
             kinds == {"release", "format_table", "done"}
  <1>1. /\ IsQueue(device) /\ EventArgs(device, "target_device") = {t.dev}
        /\ \A kind \in kinds : EventArgs(device, kind) = {}
    BY OneMessage, ArgsOne
  <1>2. /\ IsQueue(flags)
        /\ \A kind \in kinds \union {"target_device"} : EventArgs(flags, kind) = {}
    BY OneMessage, ArgsOne DEF FlagsEvents
  <1>3. /\ IsQueue(formats)
        /\ \A kind \in kinds \union {"target_device"} : EventArgs(formats, kind) = {}
    BY OneMessage, ArgsOne
  <1>4. /\ IsQueue(done)
        /\ \A kind \in kinds \union {"target_device"} : EventArgs(done, kind) = {}
    BY OneMessage, ArgsOne
  <1>5. TrancheEvents(t) = device \o flags \o formats \o done
    BY DEF TrancheEvents
  <1> HIDE DEF device, flags, formats, done
  <1>6. /\ IsQueue(device \o flags)
        /\ \A kind : EventArgs(device \o flags, kind)
                       = EventArgs(device, kind) \union EventArgs(flags, kind)
    BY <1>1, <1>2, Sending, ArgsSent
  <1>7. /\ IsQueue(device \o flags \o formats)
        /\ \A kind : EventArgs(device \o flags \o formats, kind)
                       = EventArgs(device \o flags, kind) \union EventArgs(formats, kind)
    BY <1>3, <1>6, Sending, ArgsSent
  <1>8. /\ IsQueue(device \o flags \o formats \o done)
        /\ \A kind : EventArgs(device \o flags \o formats \o done, kind)
                       = EventArgs(device \o flags \o formats, kind) \union EventArgs(done, kind)
    BY <1>4, <1>7, Sending, ArgsSent
  <1> DEFINE all == device \o flags \o formats \o done
  <1>9. /\ IsQueue(all)
        /\ \A kind : EventArgs(all, kind) = EventArgs(device, kind) \union EventArgs(flags, kind)
                         \union EventArgs(formats, kind) \union EventArgs(done, kind)
    BY <1>6, <1>7, <1>8
  <1>10. TrancheEvents(t) = all
    BY <1>5
  <1> HIDE DEF all
  <1>11. EventArgs(all, "target_device") = {t.dev}
    BY <1>1, <1>2, <1>3, <1>4, <1>9
  <1>12. \A kind \in kinds : EventArgs(all, kind) = {}
    BY <1>1, <1>2, <1>3, <1>4, <1>9
  <1> QED
    BY <1>9, <1>10, <1>11, <1>12

\* A burst is one tranche, or two.
LEMMA BurstType ==
    ASSUME NEW b \in Bursts
    PROVE  /\ Len(b) \in {1, 2} /\ DOMAIN b = 1..Len(b)
           /\ \A k \in 1..Len(b) : b[k].dev \in STRING /\ b[k].sampling \in BOOLEAN
           /\ b[1].dev \in STRING /\ (Len(b) # 1 => b[2].dev \in STRING)
  <1> DEFINE A == [dev : STRING, sampling : BOOLEAN]
  <1>1. b \in Seq(A) /\ Len(b) \in {1, 2}
    BY BurstsAssumption
  <1>2. \A a \in A : a.dev \in STRING /\ a.sampling \in BOOLEAN
    OBVIOUS
  <1> HIDE DEF A
  <1>3. DOMAIN b = 1..Len(b) /\ \A k \in 1..Len(b) : b[k] \in A
    BY <1>1
  <1>4. 1 \in 1..Len(b) /\ (Len(b) # 1 => 2 \in 1..Len(b))
    BY <1>1
  <1> QED
    BY <1>1, <1>2, <1>3, <1>4

\* A burst as its reader has it when everything was read.
LEMMA ParsedType ==
    ASSUME NEW b \in Bursts, NEW n \in 0..MaxBursts
    PROVE  Parsed(b, n) \in Seq(Tranche)
  <1>1. /\ Len(b) \in Nat /\ DOMAIN b = 1..Len(b)
        /\ \A k \in 1..Len(b) : b[k].dev \in STRING /\ b[k].sampling \in BOOLEAN
    BY BurstType
  <1>2. {n} \ {0} \in SUBSET (1..MaxBursts)
    BY BurstsAssumption
  <1>3. \A k \in 1..Len(b) : ParsedTranche(b[k], n) \in Tranche
    BY <1>1, <1>2 DEF Tranche, ParsedTranche
  <1> QED
    BY <1>1, <1>3 DEF Parsed

\* The events behind a tranche: those of the next one, if any, and done.
LEMMA FollowingSent ==
    ASSUME NEW b \in Bursts, NEW n \in 1..MaxBursts, NEW k \in DOMAIN b
    PROVE  /\ IsQueue(Following(b, n, k))
           /\ EventArgs(Following(b, n, k), "release") = {}
           /\ EventArgs(Following(b, n, k), "format_table") = {}
           /\ EventArgs(Following(b, n, k), "target_device") \subseteq STRING
           /\ EventArgs(Following(b, n, k), "done") = {Parsed(b, n)}
  <1> DEFINE next == IF k = Len(b) THEN <<>> ELSE TrancheEvents(b[k + 1])
             done == Event("done", Parsed(b, n))
  <1>1. /\ IsQueue(done) /\ EventArgs(done, "done") = {Parsed(b, n)}
        /\ \A kind \in {"format_table", "release", "target_device"} : EventArgs(done, kind) = {}
    BY OneMessage, ArgsOne
  <1>2. k # Len(b) => b[k + 1].dev \in STRING
    BY BurstType
  <1>3. /\ IsQueue(next) /\ EventArgs(next, "target_device") \subseteq STRING
        /\ \A kind \in {"format_table", "release", "done"} : EventArgs(next, kind) = {}
    <2>1. CASE k = Len(b)
      BY <2>1, OneMessage, ArgsOne
    <2>2. CASE k # Len(b)
      BY <1>2, <2>2, TrancheSent
    <2> QED
      BY <2>1, <2>2
  <1>4. Following(b, n, k) = next \o done
    BY DEF Following
  <1> HIDE DEF next, done
  <1>5. /\ IsQueue(next \o done)
        /\ \A kind : EventArgs(next \o done, kind) = EventArgs(next, kind) \union EventArgs(done, kind)
    BY <1>1, <1>3, Sending, ArgsSent
  <1> QED
    BY <1>1, <1>3, <1>4, <1>5

\* The events of a burst: one table, named tranches, and no release.
LEMMA BurstSent ==
    ASSUME NEW b \in Bursts, NEW n \in 1..MaxBursts
    PROVE  /\ IsQueue(BurstEvents(b, n))
           /\ EventArgs(BurstEvents(b, n), "release") = {}
           /\ EventArgs(BurstEvents(b, n), "format_table") = {n}
           /\ EventArgs(BurstEvents(b, n), "target_device") \subseteq STRING
           /\ EventArgs(BurstEvents(b, n), "done") = {Parsed(b, n)}
  <1> DEFINE table == Event("format_table", n)
             main == Event("main_device", 0)
             first == TrancheEvents(b[1])
             rest == Following(b, n, 1)
  <1>1. /\ IsQueue(table) /\ EventArgs(table, "format_table") = {n}
        /\ \A kind \in {"release", "target_device", "done"} : EventArgs(table, kind) = {}
    BY OneMessage, ArgsOne
  <1>2. /\ IsQueue(main)
        /\ \A kind \in {"format_table", "release", "target_device", "done"} :
              EventArgs(main, kind) = {}
    BY OneMessage, ArgsOne
  <1>3. /\ IsQueue(first) /\ EventArgs(first, "target_device") \subseteq STRING
        /\ \A kind \in {"format_table", "release", "done"} : EventArgs(first, kind) = {}
    BY BurstType, TrancheSent
  <1>4. /\ IsQueue(rest) /\ EventArgs(rest, "target_device") \subseteq STRING
        /\ EventArgs(rest, "done") = {Parsed(b, n)}
        /\ \A kind \in {"format_table", "release"} : EventArgs(rest, kind) = {}
    BY BurstType, FollowingSent
  <1>5. BurstEvents(b, n) = table \o main \o first \o rest
    BY DEF BurstEvents
  <1> HIDE DEF table, main, first, rest
  <1>6. /\ IsQueue(table \o main)
        /\ \A kind : EventArgs(table \o main, kind)
                       = EventArgs(table, kind) \union EventArgs(main, kind)
    BY <1>1, <1>2, Sending, ArgsSent
  <1>7. /\ IsQueue(table \o main \o first)
        /\ \A kind : EventArgs(table \o main \o first, kind)
                       = EventArgs(table \o main, kind) \union EventArgs(first, kind)
    BY <1>3, <1>6, Sending, ArgsSent
  <1>8. /\ IsQueue(table \o main \o first \o rest)
        /\ \A kind : EventArgs(table \o main \o first \o rest, kind)
                       = EventArgs(table \o main \o first, kind) \union EventArgs(rest, kind)
    BY <1>4, <1>7, Sending, ArgsSent
  <1> QED
    BY <1>1, <1>2, <1>3, <1>4, <1>5, <1>6, <1>7, <1>8

\* Types are kept by a compositor that sends a burst,
LEMMA ParsingSent ==
    ASSUME Parsing, IsQueue(sent), burst \in 0..MaxBursts, NEW b \in Bursts, SendBurst(b)
    PROVE  /\ Parsing' /\ IsQueue(sent') /\ burst' \in 1..MaxBursts /\ burst' = burst + 1
           /\ EventArgs(sent', "release") = EventArgs(sent, "release")
  <1>1. burst + 1 \in 1..MaxBursts /\ burst' = burst + 1
    BY BurstsAssumption DEF SendBurst
  <1> DEFINE s == BurstEvents(b, burst + 1)
  <1>2. /\ IsQueue(s) /\ EventArgs(s, "release") = {}
        /\ EventArgs(s, "format_table") = {burst + 1}
        /\ EventArgs(s, "target_device") \subseteq STRING
        /\ EventArgs(s, "done") = {Parsed(b, burst + 1)}
    BY <1>1, BurstSent
  <1>3. Parsed(b, burst + 1) \in Seq(Tranche)
    BY <1>1, ParsedType
  <1>4. sent' = sent \o s
    BY DEF SendBurst
  <1> HIDE DEF s
  <1>5. /\ IsQueue(sent')
        /\ \A kind : EventArgs(sent', kind) = EventArgs(sent, kind) \union EventArgs(s, kind)
    BY <1>2, <1>4, Sending, ArgsSent
  <1>6. EventArgs(sent', "format_table") \subseteq 1..burst'
    BY <1>1, <1>2, <1>5 DEF Parsing
  <1>7. /\ EventArgs(sent', "target_device") \subseteq STRING
        /\ EventArgs(sent', "done") \subseteq Seq(Tranche)
        /\ EventArgs(sent', "release") = EventArgs(sent, "release")
    BY <1>2, <1>3, <1>5 DEF Parsing
  <1>8. UNCHANGED <<tmpTranche, tranches, delivered, feedbackDone, unprocessedFeedback>>
    BY DEF SendBurst, parser
  <1> QED
    BY <1>1, <1>5, <1>6, <1>7, <1>8 DEF Parsing

\* and by the handlers.
LEMMA ParsingHandled ==
    ASSUME Parsing, IsQueue(sent), burst \in 0..MaxBursts, formatTable \in 0..burst,
           HandleFeedback
    PROVE  /\ Parsing' /\ IsQueue(sent') /\ burst' = burst /\ formatTable' \in 0..burst
           /\ EventArgs(sent', "release") = EventArgs(sent, "release")
  <1>1. \/ FormatTable \/ MainDevice \/ TrancheTargetDevice \/ TrancheFlags
        \/ TrancheFormats \/ TrancheDone \/ FeedbackDone
    BY DEF HandleFeedback
  <1>2. /\ sent # <<>> /\ sent' = Tail(sent) /\ burst' = burst
        /\ Head(sent).kind # "release"
    BY <1>1 DEF FormatTable, MainDevice, TrancheTargetDevice, TrancheFlags,
                TrancheFormats, TrancheDone, FeedbackDone, Dispatch
  <1>3. /\ IsQueue(sent')
        /\ \A kind : EventArgs(sent', kind) \subseteq EventArgs(sent, kind)
        /\ EventArgs(sent', "release") = EventArgs(sent, "release")
        /\ \A kind : Head(sent).kind = kind => Arg \in EventArgs(sent, kind)
    <2>1. IsQueue(Tail(sent))
      BY <1>2, Taking
    <2>2. \A kind : EventArgs(sent, kind) = EventArgs(Tail(sent), kind)
                      \union (IF Head(sent).kind = kind THEN {Head(sent).arg} ELSE {})
      BY <1>2, ArgsTaken
    <2> QED
      BY <1>2, <2>1, <2>2 DEF Arg
  <1>4. /\ EventArgs(sent', "format_table") \subseteq 1..burst'
        /\ EventArgs(sent', "target_device") \subseteq STRING
        /\ EventArgs(sent', "done") \subseteq Seq(Tranche)
    BY <1>2, <1>3 DEF Parsing
  <1>5. /\ tmpTranche \in Tranche /\ tranches \in Seq(Tranche) /\ delivered \in Seq(Tranche)
        /\ feedbackDone \in BOOLEAN /\ unprocessedFeedback \in BOOLEAN
    BY DEF Parsing
  <1>6. CheckResetTranches => tranches' \in Seq(Tranche) /\ feedbackDone' \in BOOLEAN
    <2>1. <<>> \in Seq(Tranche)
      OBVIOUS
    <2> QED
      BY <1>5, <2>1 DEF CheckResetTranches
  <1>7. /\ formatTable' \in 0..burst /\ tmpTranche' \in Tranche
        /\ tranches' \in Seq(Tranche) /\ delivered' \in Seq(Tranche)
        /\ feedbackDone' \in BOOLEAN /\ unprocessedFeedback' \in BOOLEAN
    <2>1. CASE FormatTable
      <3>1. Arg \in 1..burst
        BY <1>3, <2>1 DEF FormatTable, Dispatch, Parsing
      <3> QED
        BY <1>5, <2>1, <3>1 DEF FormatTable
    <2>2. CASE MainDevice
      BY <1>5, <1>6, <2>2 DEF MainDevice
    <2>3. CASE TrancheTargetDevice
      <3>1. Arg \in STRING
        BY <1>3, <2>3 DEF TrancheTargetDevice, Dispatch, Parsing
      <3>2. tmpTranche' \in Tranche
        BY <1>5, <2>3, <3>1 DEF TrancheTargetDevice, Tranche
      <3> QED
        BY <1>5, <1>6, <2>3, <3>2 DEF TrancheTargetDevice
    <2>4. CASE TrancheFlags
      <3>1. tmpTranche' \in Tranche
        BY <1>5, <2>4 DEF TrancheFlags, Tranche
      <3> QED
        BY <1>5, <1>6, <2>4, <3>1 DEF TrancheFlags
    <2>5. CASE TrancheFormats
      <3>1. {formatTable} \ {0} \subseteq 1..MaxBursts
        BY BurstsAssumption
      <3>2. tmpTranche.formats \subseteq 1..MaxBursts
        BY <1>5 DEF Tranche
      <3>3. tmpTranche' \in Tranche
        BY <1>5, <2>5, <3>1, <3>2 DEF TrancheFormats, Tranche
      <3> QED
        BY <1>5, <1>6, <2>5, <3>3 DEF TrancheFormats
    <2>6. CASE TrancheDone
      <3>1. NoTranche \in Tranche
        BY DEF NoTranche, Tranche
      <3> QED
        BY <1>5, <2>6, <3>1 DEF TrancheDone
    <2>7. CASE FeedbackDone
      <3>1. Arg \in Seq(Tranche)
        BY <1>3, <2>7 DEF FeedbackDone, Dispatch, Parsing
      <3>2. \A a \in Tranche : [a EXCEPT !.formats = {}] \in Tranche
        BY DEF Tranche
      <3>3. [k \in DOMAIN Arg |-> [Arg[k] EXCEPT !.formats = {}]] \in Seq(Tranche)
        BY <3>1, <3>2
      <3>4. delivered' \in Seq(Tranche)
        BY <2>7, <3>1, <3>3 DEF FeedbackDone
      <3> QED
        BY <1>5, <2>7, <3>4 DEF FeedbackDone
    <2> QED
      BY <1>1, <2>1, <2>2, <2>3, <2>4, <2>5, <2>6, <2>7
  <1> QED
    BY <1>2, <1>3, <1>4, <1>7 DEF Parsing

-----------------------------------------------------------------------------
(* Events on the queue                                                        *)

\* What is on the queue stays where it is when more is sent.
LEMMA OnSent ==
    ASSUME NEW s, NEW t, IsQueue(s), IsQueue(t), NEW p \in Nat, NEW e, IsQueue(e), On(s, p, e)
    PROVE  On(s \o t, p, e)
  <1>1. /\ Len(s) \in Nat /\ Len(t) \in Nat /\ Len(e) \in Nat /\ DOMAIN e = 1..Len(e)
        /\ Len(s \o t) = Len(s) + Len(t)
        /\ \A k \in 1..Len(s) : (s \o t)[k] = s[k]
    BY Sending, QueueShape
  <1>2. p + Len(e) <= Len(s) /\ \A k \in 1..Len(e) : s[p + k].kind = e[k].kind /\ s[p + k] = e[k]
    BY <1>1 DEF On
  <1>3. p + Len(e) <= Len(s \o t)
    BY <1>1, <1>2
  <1>4. \A k \in 1..Len(e) : p + k \in 1..Len(s)
    BY <1>1, <1>2
  <1>5. \A k \in 1..Len(e) : (s \o t)[p + k] = e[k]
    BY <1>1, <1>2, <1>4
  <1> QED
    BY <1>1, <1>3, <1>5 DEF On

\* Events that are sent are at the end of the queue.
LEMMA OnEnd ==
    ASSUME NEW s, NEW t, IsQueue(s), IsQueue(t), NEW p \in Nat, NEW e, IsQueue(e), On(t, p, e)
    PROVE  On(s \o t, Len(s) + p, e)
  <1>1. /\ Len(s) \in Nat /\ Len(t) \in Nat /\ Len(e) \in Nat /\ DOMAIN e = 1..Len(e)
        /\ Len(s \o t) = Len(s) + Len(t)
        /\ \A k \in 1..Len(t) : (s \o t)[Len(s) + k] = t[k]
    BY Sending, QueueShape
  <1>2. p + Len(e) <= Len(t) /\ \A k \in 1..Len(e) : t[p + k].kind = e[k].kind /\ t[p + k] = e[k]
    BY <1>1 DEF On
  <1>3. (Len(s) + p) + Len(e) <= Len(s \o t)
    BY <1>1, <1>2
  <1>4. \A k \in 1..Len(e) : p + k \in 1..Len(t) /\ (Len(s) + p) + k = Len(s) + (p + k)
    BY <1>1, <1>2
  <1>5. \A k \in 1..Len(e) : (s \o t)[(Len(s) + p) + k] = e[k]
    BY <1>1, <1>2, <1>4
  <1> QED
    BY <1>1, <1>3, <1>5 DEF On

\* The next event is dispatched, and everything moves up.
LEMMA OnTaken ==
    ASSUME NEW s, IsQueue(s), s # <<>>, NEW p \in Nat, NEW e, IsQueue(e), On(s, p + 1, e)
    PROVE  On(Tail(s), p, e)
  <1>1. /\ Len(s) \in Nat \ {0} /\ Len(e) \in Nat /\ DOMAIN e = 1..Len(e)
        /\ Len(Tail(s)) = Len(s) - 1
        /\ \A k \in 1..Len(Tail(s)) : Tail(s)[k] = s[k + 1]
    BY Taking, QueueShape
  <1>2. /\ (p + 1) + Len(e) <= Len(s)
        /\ \A k \in 1..Len(e) : s[(p + 1) + k].kind = e[k].kind /\ s[(p + 1) + k] = e[k]
    BY <1>1 DEF On
  <1>3. p + Len(e) <= Len(Tail(s))
    BY <1>1, <1>2
  <1>4. \A k \in 1..Len(e) : p + k \in 1..Len(Tail(s)) /\ (p + k) + 1 = (p + 1) + k
    BY <1>1, <1>2
  <1>5. \A k \in 1..Len(e) : Tail(s)[p + k] = e[k]
    BY <1>1, <1>2, <1>4
  <1> QED
    BY <1>1, <1>3, <1>5 DEF On

\* The head of the queue is the first of the events that come next.
LEMMA OnHead ==
    ASSUME NEW s, IsQueue(s), NEW kind, NEW arg, NEW e, IsQueue(e),
           On(s, 0, Event(kind, arg) \o e)
    PROVE  /\ s # <<>> /\ Head(s) = [kind |-> kind, arg |-> arg]
           /\ On(Tail(s), 0, e)
  <1> DEFINE u == Event(kind, arg) \o e
  <1>1. /\ Len(s) \in Nat /\ Len(e) \in Nat /\ DOMAIN e = 1..Len(e)
        /\ (s = <<>> <=> Len(s) = 0)
    BY QueueShape
  <1>2. /\ IsQueue(u) /\ Len(u) = 1 + Len(e)
        /\ u[1] = [kind |-> kind, arg |-> arg]
        /\ \A k \in 1..Len(e) : u[1 + k] = e[k]
    <2> DEFINE v == Event(kind, arg)
    <2>1. IsQueue(v)
      BY OneMessage
    <2>2. Len(v) = 1 /\ v[1] = [kind |-> kind, arg |-> arg]
      BY OneMessage
    <2> HIDE DEF u, v
    <2>3. /\ IsQueue(v \o e) /\ Len(v \o e) = Len(v) + Len(e)
          /\ \A k \in 1..Len(v) : (v \o e)[k] = v[k]
          /\ \A k \in 1..Len(e) : (v \o e)[Len(v) + k] = e[k]
      BY <2>1, Sending
    <2>4. (v \o e)[1] = v[1]
      BY <2>2, <2>3
    <2> QED
      BY <2>2, <2>3, <2>4 DEF u, v
  <1>3. DOMAIN u = 1..(1 + Len(e))
    BY <1>2, QueueShape
  <1> HIDE DEF u
  <1>4. /\ 0 + Len(u) <= Len(s)
        /\ \A k \in DOMAIN u : s[0 + k] = u[k]
    BY DEF On, u
  <1>5. Len(s) # 0 /\ s # <<>>
    BY <1>1, <1>2, <1>4
  <1>6. /\ Head(s) = s[1] /\ Len(Tail(s)) = Len(s) - 1
        /\ \A k \in 1..Len(Tail(s)) : Tail(s)[k] = s[k + 1]
    BY <1>5, Taking
  <1>7. Head(s) = [kind |-> kind, arg |-> arg]
    BY <1>1, <1>2, <1>3, <1>4, <1>6
  <1>8. \A k \in 1..Len(e) : 1 + k \in DOMAIN u /\ 0 + (1 + k) = k + 1 /\ k \in 1..Len(Tail(s))
    <2>1. Len(u) = 1 + Len(e) /\ 0 + Len(u) <= Len(s) /\ Len(Tail(s)) = Len(s) - 1
      BY <1>2, <1>4, <1>6
    <2>2. Len(s) \in Nat /\ Len(e) \in Nat
      BY <1>1
    <2> QED
      BY <1>3, <2>1, <2>2
  <1>9. ASSUME NEW k \in 1..Len(e) PROVE Tail(s)[k] = e[k]
    <2>1. Tail(s)[k] = s[k + 1]
      BY <1>6, <1>8
    <2>2. s[k + 1] = u[1 + k]
      BY <1>4, <1>8
    <2> QED
      BY <1>2, <2>1, <2>2
  <1>10. On(Tail(s), 0, e)
    BY <1>1, <1>2, <1>4, <1>6, <1>9 DEF On
  <1> QED
    BY <1>5, <1>7, <1>10

\* Events of some kinds only.
AllOf(s, kinds) == \A k \in DOMAIN s : s[k].kind \in kinds

Inner == {"main_device", "target_device", "flags", "formats", "tranche_done"}

\* Events of these kinds behind one another.
LEMMA AllOfSent ==
    ASSUME NEW s, NEW t, IsQueue(s), IsQueue(t), NEW kinds, AllOf(s, kinds), AllOf(t, kinds)
    PROVE  IsQueue(s \o t) /\ AllOf(s \o t, kinds)
  <1>1. /\ Len(s) \in Nat /\ Len(t) \in Nat /\ DOMAIN s = 1..Len(s) /\ DOMAIN t = 1..Len(t)
        /\ IsQueue(s \o t) /\ DOMAIN (s \o t) = 1..(Len(s) + Len(t))
        /\ \A k \in 1..Len(s) : (s \o t)[k] = s[k]
        /\ \A k \in (Len(s) + 1)..(Len(s) + Len(t)) : (s \o t)[k] = t[k - Len(s)]
    BY Sending, QueueShape
  <1>2. ASSUME NEW k \in 1..(Len(s) + Len(t)) PROVE (s \o t)[k].kind \in kinds
    <2>1. CASE k \in 1..Len(s)
      BY <1>1, <2>1 DEF AllOf
    <2>2. CASE k \in (Len(s) + 1)..(Len(s) + Len(t))
      <3>1. k - Len(s) \in DOMAIN t
        BY <1>1, <2>2
      <3> QED
        BY <1>1, <2>2, <3>1 DEF AllOf
    <2> QED
      BY <1>1, <2>1, <2>2
  <1> QED
    BY <1>1, <1>2 DEF AllOf

\* One event, or none.
LEMMA AllOfOne ==
    ASSUME NEW kind, NEW arg, NEW kinds
    PROVE  /\ IsQueue(Event(kind, arg)) /\ (kind \in kinds => AllOf(Event(kind, arg), kinds))
           /\ IsQueue(<<>>) /\ AllOf(<<>>, kinds)
  <1>1. DOMAIN Event(kind, arg) = {1} /\ Event(kind, arg)[1].kind = kind
    BY DEF Event
  <1>2. kind \in kinds => AllOf(Event(kind, arg), kinds)
    BY <1>1 DEF AllOf
  <1>3. AllOf(<<>>, kinds)
    BY DEF AllOf
  <1>4. IsQueue(Event(kind, arg)) /\ IsQueue(<<>>)
    BY OneMessage
  <1> QED
    BY <1>2, <1>3, <1>4

\* The events of a tranche, one after the other.
LEMMA TrancheShape ==
    ASSUME NEW t, NEW rest, IsQueue(rest)
    PROVE  /\ IsQueue(TrancheEvents(t)) /\ AllOf(TrancheEvents(t), Inner)
           /\ IsQueue(FlagsEvents(t))
           /\ TrancheEvents(t) \o rest
                = Event("target_device", t.dev)
                    \o (FlagsEvents(t)
                          \o (Event("formats", 0) \o (Event("tranche_done", 0) \o rest)))
  <1> DEFINE device == Event("target_device", t.dev)
             flags == FlagsEvents(t)
             formats == Event("formats", 0)
             done == Event("tranche_done", 0)
  <1>1. IsQueue(device) /\ AllOf(device, Inner)
    BY AllOfOne DEF Inner
  <1>2. IsQueue(flags) /\ AllOf(flags, Inner)
    <2>1. CASE t.sampling
      <3>1. FlagsEvents(t) = Event("flags", TRUE)
        BY <2>1 DEF FlagsEvents
      <3> QED
        <4>1. "flags" \in Inner
          BY DEF Inner
        <4> QED
          BY <3>1, <4>1, AllOfOne, Zenon
    <2>2. CASE ~t.sampling
      <3>1. FlagsEvents(t) = <<>>
        BY <2>2 DEF FlagsEvents
      <3> QED
        BY <3>1, AllOfOne
    <2> QED
      BY <2>1, <2>2
  <1>3. IsQueue(formats) /\ AllOf(formats, Inner)
    BY AllOfOne DEF Inner
  <1>4. IsQueue(done) /\ AllOf(done, Inner)
    BY AllOfOne DEF Inner
  <1>5. TrancheEvents(t) = device \o flags \o formats \o done
    BY DEF TrancheEvents
  <1> HIDE DEF device, flags, formats, done
  <1>6. IsQueue(device \o flags) /\ AllOf(device \o flags, Inner)
    BY <1>1, <1>2, AllOfSent
  <1>7. IsQueue(device \o flags \o formats) /\ AllOf(device \o flags \o formats, Inner)
    BY <1>3, <1>6, AllOfSent
  <1>8. /\ IsQueue(device \o flags \o formats \o done)
        /\ AllOf(device \o flags \o formats \o done, Inner)
    BY <1>4, <1>7, AllOfSent
  <1>9. (device \o flags \o formats \o done) \o rest = (device \o flags \o formats) \o (done \o rest)
    <2>1. IsQueue(device \o flags \o formats) /\ IsQueue(done)
      BY <1>4, <1>7
    <2> QED
      BY <2>1, Grouping, SMTT(30)
  <1>10. IsQueue(done \o rest) /\ IsQueue(formats \o (done \o rest))
    BY <1>3, <1>4, Sending
  <1>11. (device \o flags \o formats) \o (done \o rest) = (device \o flags) \o (formats \o (done \o rest))
    <2> DEFINE x == device \o flags
               y == done \o rest
    <2>1. IsQueue(x) /\ IsQueue(formats) /\ IsQueue(y)
      BY <1>3, <1>6, <1>10
    <2> HIDE DEF x, y
    <2>2. (x \o formats) \o y = x \o (formats \o y)
      BY <2>1, Grouping, SMTT(30)
    <2> QED
      BY <2>2 DEF x, y
  <1>12. (device \o flags) \o (formats \o (done \o rest)) = device \o (flags \o (formats \o (done \o rest)))
    <2>1. IsQueue(device) /\ IsQueue(flags) /\ IsQueue(formats \o (done \o rest))
      BY <1>1, <1>2, <1>10
    <2> QED
      BY <2>1, Grouping, SMTT(30)
  <1> QED
    BY <1>2, <1>5, <1>8, <1>9, <1>11, <1>12 DEF device, flags, formats, done

\* What follows the last tranche, or the first of two.
LEMMA FollowingShape ==
    ASSUME NEW b \in Bursts, NEW n, NEW k \in DOMAIN b
    PROVE  /\ IsQueue(Following(b, n, k))
           /\ k = Len(b) => Following(b, n, k) = Event("done", Parsed(b, n))
           /\ k # Len(b) => /\ k + 1 \in DOMAIN b
                            /\ Following(b, n, k) = TrancheEvents(b[k + 1]) \o Following(b, n, k + 1)
           /\ \E m : IsQueue(m) /\ AllOf(m, Inner)
                        /\ Following(b, n, k) = m \o Event("done", Parsed(b, n))
  <1> DEFINE done == Event("done", Parsed(b, n))
  <1>1. IsQueue(done)
    BY OneMessage
  <1>2. <<>> \o done = done
    BY <1>1, NothingSent
  <1>3. IsQueue(<<>>) /\ AllOf(<<>>, Inner)
    BY AllOfOne
  <1>4. CASE k = Len(b)
    BY <1>1, <1>2, <1>3, <1>4 DEF Following
  <1>5. CASE k # Len(b)
    <2>1. k + 1 \in DOMAIN b /\ k + 1 = Len(b)
      BY <1>5, BurstType
    <2>2. IsQueue(TrancheEvents(b[k + 1])) /\ AllOf(TrancheEvents(b[k + 1]), Inner)
      BY <1>3, TrancheShape
    <2>3. Following(b, n, k + 1) = done
      BY <1>2, <2>1 DEF Following
    <2>4. Following(b, n, k) = TrancheEvents(b[k + 1]) \o done
      BY <1>5 DEF Following
    <2>5. IsQueue(TrancheEvents(b[k + 1]) \o done)
      BY <1>1, <2>2, Sending
    <2> QED
      BY <1>5, <2>1, <2>2, <2>3, <2>4, <2>5
  <1> QED
    BY <1>4, <1>5

\* A burst begins with its table and ends with done, and has no other table and no
\* other done.
LEMMA BurstShape ==
    ASSUME NEW b \in Bursts, NEW n
    PROVE  /\ IsQueue(BurstEvents(b, n)) /\ Len(BurstEvents(b, n)) \in Nat \ {0, 1}
           /\ \A k \in DOMAIN BurstEvents(b, n) :
                 /\ BurstEvents(b, n)[k].kind \in FeedbackKinds
                 /\ BurstEvents(b, n)[k].kind = "format_table" <=> k = 1
                 /\ BurstEvents(b, n)[k].kind = "done" <=> k = Len(BurstEvents(b, n))
           /\ BurstEvents(b, n)
                = Event("format_table", n)
                    \o (Event("main_device", 0)
                          \o (TrancheEvents(b[1]) \o Following(b, n, 1)))
  <1> DEFINE table == Event("format_table", n)
             main == Event("main_device", 0)
             first == TrancheEvents(b[1])
             done == Event("done", Parsed(b, n))
             following == Following(b, n, 1)
             e == BurstEvents(b, n)
  <1>1. IsQueue(table) /\ IsQueue(main) /\ IsQueue(done) /\ AllOf(main, Inner)
    <2>1. IsQueue(table) /\ IsQueue(done)
      BY OneMessage
    <2>2. IsQueue(main) /\ AllOf(main, Inner)
      BY AllOfOne DEF Inner
    <2> QED
      BY <2>1, <2>2
  <1>2. PICK m : IsQueue(m) /\ AllOf(m, Inner) /\ following = m \o done
    <2>1. 1 \in DOMAIN b
      BY BurstType
    <2> QED
      BY <2>1, FollowingShape
  <1>3. IsQueue(first) /\ AllOf(first, Inner)
    BY <1>1, TrancheShape
  <1>4. e = ((table \o main) \o first) \o following
    BY DEF BurstEvents
  <1>5. /\ Len(table) = 1 /\ table[1].kind = "format_table"
        /\ Len(done) = 1 /\ done[1].kind = "done"
    <2>1. Len(table) = 1 /\ table[1] = [kind |-> "format_table", arg |-> n]
      BY OneMessage
    <2>2. Len(done) = 1 /\ done[1] = [kind |-> "done", arg |-> Parsed(b, n)]
      BY OneMessage
    <2> QED
      BY <2>1, <2>2
  <1> HIDE DEF table, main, first, done, following, e
  <1>6. IsQueue(following) /\ IsQueue(table \o main)
    BY <1>1, <1>2, Sending
  <1>7. IsQueue(main \o first) /\ AllOf(main \o first, Inner)
    BY <1>1, <1>3, AllOfSent
  <1>8. IsQueue((main \o first) \o m) /\ AllOf((main \o first) \o m, Inner)
    BY <1>2, <1>7, AllOfSent
  <1>9. e = table \o (main \o (first \o following))
    <2>1. ((table \o main) \o first) \o following = (table \o main) \o (first \o following)
      <3>1. IsQueue(table \o main) /\ IsQueue(first) /\ IsQueue(following)
        BY <1>3, <1>6
      <3> QED
        BY <3>1, Grouping, SMTT(30)
    <2>2. IsQueue(first \o following)
      BY <1>3, <1>6, Sending
    <2>3. (table \o main) \o (first \o following) = table \o (main \o (first \o following))
      <3>1. IsQueue(table) /\ IsQueue(main)
        BY <1>1
      <3> QED
        BY <2>2, <3>1, Grouping, SMTT(30)
    <2> QED
      BY <1>4, <2>1, <2>3
  <1>10. e = table \o (((main \o first) \o m) \o done)
    <2>1. main \o (first \o following) = (main \o first) \o following
      <3>1. IsQueue(main) /\ IsQueue(first) /\ IsQueue(following)
        BY <1>1, <1>3, <1>6
      <3> QED
        BY <3>1, Grouping, SMTT(30)
    <2>2. (main \o first) \o (m \o done) = ((main \o first) \o m) \o done
      <3>1. IsQueue(main \o first) /\ IsQueue(m) /\ IsQueue(done)
        BY <1>1, <1>2, <1>7
      <3> QED
        BY <3>1, Grouping, SMTT(30)
    <2> QED
      BY <1>2, <1>9, <2>1, <2>2
  <1> DEFINE i == (main \o first) \o m
             f == i \o done
  <1>11. IsQueue(i) /\ AllOf(i, Inner) /\ e = table \o f
    BY <1>8, <1>10
  <1> HIDE DEF i, f
  <1>12. /\ IsQueue(f) /\ Len(f) = Len(i) + Len(done)
         /\ \A k \in 1..Len(i) : f[k] = i[k]
         /\ \A k \in (Len(i) + 1)..(Len(i) + Len(done)) : f[k] = done[k - Len(i)]
    <2>1. IsQueue(i) /\ IsQueue(done)
      BY <1>1, <1>11
    <2> QED
      BY <2>1, Sending DEF f
  <1>13. /\ IsQueue(e) /\ Len(e) = Len(table) + Len(f)
         /\ \A k \in 1..Len(table) : e[k] = table[k]
         /\ \A k \in (Len(table) + 1)..(Len(table) + Len(f)) : e[k] = f[k - Len(table)]
    <2>1. IsQueue(table) /\ IsQueue(f)
      BY <1>1, <1>12
    <2> QED
      BY <1>11, <2>1, Sending
  <1>14. Len(i) \in Nat /\ DOMAIN i = 1..Len(i) /\ DOMAIN e = 1..Len(e)
    BY <1>11, <1>13, QueueShape
  <1>15. e[1].kind = "format_table" /\ e[Len(e)].kind = "done" /\ Len(e) = Len(i) + 2
    <2>1. f[Len(i) + 1] = done[1]
      BY <1>5, <1>12, <1>14
    <2>2. e[Len(i) + 2] = f[Len(i) + 1]
      BY <1>5, <1>12, <1>13, <1>14
    <2> QED
      BY <1>5, <1>12, <1>13, <1>14, <2>1, <2>2
  <1>16. ASSUME NEW k \in 2..(Len(i) + 1) PROVE e[k].kind \in Inner
    <2>1. e[k] = f[k - 1]
      BY <1>5, <1>12, <1>13, <1>14
    <2>2. k - 1 \in 1..Len(i)
      BY <1>14
    <2>3. f[k - 1] = i[k - 1]
      BY <1>12, <2>2
    <2> QED
      BY <1>11, <1>14, <2>1, <2>2, <2>3 DEF AllOf
  <1>17. \A k \in DOMAIN e : k = 1 \/ k \in 2..(Len(i) + 1) \/ k = Len(e)
    BY <1>14, <1>15
  <1>18. \A kind \in Inner : kind \in FeedbackKinds /\ kind # "format_table" /\ kind # "done"
    BY DEF Inner, FeedbackKinds
  <1>19. ASSUME NEW k \in DOMAIN e
         PROVE  /\ e[k].kind \in FeedbackKinds
                /\ e[k].kind = "format_table" <=> k = 1
                /\ e[k].kind = "done" <=> k = Len(e)
    <2>1. CASE k = 1
      BY <1>14, <1>15, <2>1 DEF FeedbackKinds
    <2>2. CASE k \in 2..(Len(i) + 1)
      BY <1>14, <1>15, <1>16, <1>18, <2>2
    <2>3. CASE k = Len(e)
      BY <1>14, <1>15, <2>3 DEF FeedbackKinds
    <2> QED
      BY <1>17, <2>1, <2>2, <2>3
  <1>20. Len(e) \in Nat \ {0, 1}
    BY <1>14, <1>15
  <1> QED
    BY <1>9, <1>13, <1>19, <1>20 DEF e, table, main, first, following

-----------------------------------------------------------------------------
(* Bursts stay whole                                                          *)

\* The burst that event k of a queue belongs to begins behind the first j.
InBurst(s, j, b, k) ==
    /\ s[j + 1].kind = "format_table"
    /\ On(s, j, BurstEvents(b, s[j + 1].arg))
    /\ k <= j + Len(BurstEvents(b, s[j + 1].arg))

\* When more bursts, or other events, are sent.
LEMMA WholeSent ==
    ASSUME NEW s, NEW t, IsQueue(s), IsQueue(t), NEW p \in Nat, p <= Len(s),
           Whole(s, p), Whole(t, 0)
    PROVE  Whole(s \o t, p)
  <1> DEFINE n == Len(s)
             m == Len(t)
             u == s \o t
  <1>1. /\ n \in Nat /\ m \in Nat
        /\ DOMAIN s = 1..n /\ DOMAIN t = 1..m
        /\ DOMAIN u = 1..(n + m)
        /\ \A k \in 1..n : u[k] = s[k]
        /\ \A k \in (n + 1)..(n + m) : u[k] = t[k - n] /\ k - n \in 1..m
    BY Sending, QueueShape
  <1>2. \A e : \A j \in Nat : IsQueue(e) /\ On(s, j, e) => On(u, j, e)
    BY OnSent
  <1>3. \A e : \A j \in Nat : IsQueue(e) /\ On(t, j, e) => On(u, n + j, e)
    BY OnEnd
  <1> HIDE DEF n, m, u
  <1> SUFFICES ASSUME NEW k \in 1..(n + m), p < k, u[k].kind \in FeedbackKinds
               PROVE  \E j \in p..(k - 1), b \in Bursts : InBurst(u, j, b, k)
    BY <1>1 DEF Whole, InBurst, u
  <1>4. CASE k \in 1..n
    <2>1. k \in DOMAIN s /\ s[k].kind \in FeedbackKinds
      BY <1>1, <1>4
    <2>2. PICK j \in p..(k - 1), b \in Bursts : InBurst(s, j, b, k)
      BY <2>1 DEF Whole, InBurst
    <2> DEFINE e == BurstEvents(b, s[j + 1].arg)
    <2>3. IsQueue(e)
      BY BurstShape
    <2>4. j \in Nat /\ j + 1 \in 1..n /\ u[j + 1] = s[j + 1]
      BY <1>1, <1>4, <2>2
    <2>5. On(s, j, e) /\ k <= j + Len(e) /\ s[j + 1].kind = "format_table"
      BY <2>2 DEF InBurst
    <2>6. On(u, j, e)
      BY <1>2, <2>3, <2>4, <2>5
    <2>7. InBurst(u, j, b, k)
      BY <2>4, <2>5, <2>6 DEF InBurst
    <2> QED
      BY <2>2, <2>7
  <1>5. CASE k \notin 1..n
    <2> DEFINE i == k - n
    <2>1. i \in DOMAIN t /\ t[i].kind \in FeedbackKinds /\ 0 < i
      BY <1>1, <1>5
    <2>2. PICK j \in 0..(i - 1), b \in Bursts : InBurst(t, j, b, i)
      BY <2>1 DEF Whole, InBurst
    <2> DEFINE e == BurstEvents(b, t[j + 1].arg)
    <2>3. IsQueue(e) /\ Len(e) \in Nat
      BY BurstShape
    <2>4. /\ j \in Nat /\ (n + j) + 1 \in (n + 1)..(n + m) /\ ((n + j) + 1) - n = j + 1
          /\ n + j \in p..(k - 1)
      BY <1>1, <1>5, <2>1, <2>2 DEF n
    <2>5. u[(n + j) + 1] = t[j + 1]
      BY <1>1, <2>4
    <2>6. On(t, j, e) /\ i <= j + Len(e) /\ t[j + 1].kind = "format_table"
      BY <2>2 DEF InBurst
    <2>7. On(u, n + j, e)
      BY <1>3, <2>3, <2>4, <2>6
    <2>8. k <= (n + j) + Len(e)
      BY <1>1, <2>3, <2>4, <2>6
    <2>9. InBurst(u, n + j, b, k)
      BY <2>5, <2>6, <2>7, <2>8 DEF InBurst
    <2> QED
      BY <2>4, <2>9
  <1> QED
    BY <1>4, <1>5

\* When the next event is dispatched: one of a burst that has begun, or none of any.
LEMMA WholeTaken ==
    ASSUME NEW s, IsQueue(s), s # <<>>, NEW p \in Nat, NEW q \in Nat, Whole(s, q),
           q = p + 1 \/ (q = 0 /\ p = 0 /\ Head(s).kind \notin FeedbackKinds)
    PROVE  Whole(Tail(s), p)
  <1> DEFINE n == Len(s)
             t == Tail(s)
  <1>1. /\ n \in Nat \ {0} /\ DOMAIN s = 1..n /\ DOMAIN t = 1..(n - 1)
        /\ Head(s) = s[1]
        /\ \A k \in 1..(n - 1) : t[k] = s[k + 1]
    BY Taking, QueueShape
  <1>2. \A e : \A j \in Nat : IsQueue(e) /\ On(s, j + 1, e) => On(t, j, e)
    BY OnTaken
  <1> HIDE DEF n, t
  <1> SUFFICES ASSUME NEW k \in 1..(n - 1), p < k, t[k].kind \in FeedbackKinds
               PROVE  \E j \in p..(k - 1), b \in Bursts : InBurst(t, j, b, k)
    BY <1>1 DEF Whole, InBurst, t
  <1>3. k + 1 \in DOMAIN s /\ s[k + 1].kind \in FeedbackKinds /\ q < k + 1
    BY <1>1
  <1>4. PICK i \in q..((k + 1) - 1), b \in Bursts : InBurst(s, i, b, k + 1)
    BY <1>3 DEF Whole, InBurst
  <1>5. i \in Nat /\ i # 0
    <2>1. i = 0 => s[1].kind = "format_table"
      BY <1>4 DEF InBurst
    <2> QED
      BY <1>1, <1>4, <2>1 DEF FeedbackKinds
  <1> DEFINE j == i - 1
             e == BurstEvents(b, s[i + 1].arg)
  <1>6. IsQueue(e) /\ Len(e) \in Nat
    BY BurstShape
  <1>7. j \in Nat /\ j + 1 = i /\ j \in p..(k - 1) /\ i \in 1..(n - 1)
    BY <1>1, <1>4, <1>5
  <1>8. t[i] = s[i + 1]
    BY <1>1, <1>7
  <1>9. On(s, i, e) /\ k + 1 <= i + Len(e) /\ s[i + 1].kind = "format_table"
    BY <1>4 DEF InBurst
  <1> HIDE DEF j
  <1>10. On(t, j, e)
    BY <1>2, <1>6, <1>7, <1>9
  <1>11. k <= j + Len(e)
    BY <1>6, <1>7, <1>9
  <1>12. InBurst(t, j, b, k)
    BY <1>7, <1>8, <1>9, <1>10, <1>11 DEF InBurst
  <1> QED
    BY <1>7, <1>12

\* A queue with nothing of a burst is whole, and so is a burst.
LEMMA WholeAlone ==
    /\ Whole(<<>>, 0)
    /\ \A kind, arg : kind \notin FeedbackKinds => Whole(Event(kind, arg), 0)
    /\ \A n : \A b \in Bursts : Whole(BurstEvents(b, n), 0)
  <1>1. Whole(<<>>, 0)
    BY DEF Whole
  <1>2. ASSUME NEW kind, NEW arg, kind \notin FeedbackKinds PROVE Whole(Event(kind, arg), 0)
    <2>1. DOMAIN Event(kind, arg) = {1} /\ Event(kind, arg)[1].kind = kind
      BY DEF Event
    <2> QED
      BY <1>2, <2>1 DEF Whole
  <1>3. ASSUME NEW b \in Bursts, NEW n PROVE Whole(BurstEvents(b, n), 0)
    <2> DEFINE e == BurstEvents(b, n)
               rest == Event("main_device", 0) \o (TrancheEvents(b[1]) \o Following(b, n, 1))
    <2>1. /\ IsQueue(e) /\ Len(e) \in Nat \ {0, 1} /\ DOMAIN e = 1..Len(e)
          /\ e[1].kind = "format_table"
          /\ e = Event("format_table", n) \o rest
      <3>1. /\ IsQueue(e) /\ Len(e) \in Nat \ {0, 1}
            /\ \A k \in DOMAIN e : e[k].kind = "format_table" <=> k = 1
            /\ e = Event("format_table", n) \o rest
        BY BurstShape
      <3>2. DOMAIN e = 1..Len(e)
        BY <3>1, QueueShape
      <3> QED
        BY <3>1, <3>2
    <2>2. IsQueue(rest)
      <3>1. IsQueue(Event("main_device", 0))
        BY OneMessage
      <3>2. IsQueue(Following(b, n, 1))
        BY BurstType, FollowingShape
      <3>3. IsQueue(TrancheEvents(b[1]) \o Following(b, n, 1))
        BY <3>2, TrancheShape, Sending
      <3> QED
        BY <3>1, <3>3, Sending
    <2> HIDE DEF e, rest
    <2>3. On(e, 0, e)
      BY <2>1 DEF On
    <2>4. e[1].arg = n
      <3>1. Head(e) = [kind |-> "format_table", arg |-> n] /\ e # <<>>
        BY <2>1, <2>2, <2>3, OnHead
      <3>2. Head(e) = e[1]
        BY <2>1, <3>1, Taking
      <3> QED
        BY <3>1, <3>2
    <2>5. e[0 + 1].arg = n /\ e[0 + 1].kind = "format_table" /\ BurstEvents(b, n) = e
      BY <2>1, <2>4 DEF e
    <2>6. ASSUME NEW k \in DOMAIN e, 0 < k PROVE InBurst(e, 0, b, k) /\ 0 \in 0..(k - 1)
      <3>1. k <= 0 + Len(e) /\ 0 \in 0..(k - 1)
        BY <2>1, <2>6
      <3> QED
        BY <2>3, <2>5, <3>1 DEF InBurst
    <2> QED
      BY <2>6 DEF Whole, InBurst, e
  <1> QED
    BY <1>1, <1>2, <1>3

\* The first event of a burst is that of its table, and what is behind it is whole.
LEMMA BurstNext ==
    ASSUME NEW s, IsQueue(s), s # <<>>, Whole(s, 0), Head(s).kind \in FeedbackKinds
    PROVE  /\ Head(s).kind = "format_table"
           /\ \E b \in Bursts : LET e == BurstEvents(b, Head(s).arg)
                                IN  On(s, 0, e) /\ Whole(s, Len(e))
  <1>1. Len(s) \in Nat \ {0} /\ Head(s) = s[1] /\ DOMAIN s = 1..Len(s)
    BY Taking, QueueShape
  <1>2. PICK b \in Bursts : InBurst(s, 0, b, 1)
    <2>1. \E j \in 0..(1 - 1), b \in Bursts : InBurst(s, j, b, 1)
      BY <1>1 DEF Whole, InBurst
    <2> QED
      BY <2>1
  <1> DEFINE e == BurstEvents(b, s[1].arg)
  <1>3. s[1].kind = "format_table" /\ On(s, 0, e)
    BY <1>2 DEF InBurst
  <1>4. /\ IsQueue(e) /\ Len(e) \in Nat \ {0, 1} /\ DOMAIN e = 1..Len(e)
        /\ \A k \in DOMAIN e : /\ e[k].kind = "format_table" <=> k = 1
                               /\ e[k].kind = "done" <=> k = Len(e)
    BY BurstShape, QueueShape
  <1> HIDE DEF e
  <1>5. \A k \in 1..Len(e) : s[k].kind = e[k].kind
    BY <1>3, <1>4 DEF On
  <1>6. ASSUME NEW k \in DOMAIN s, Len(e) < k, s[k].kind \in FeedbackKinds
        PROVE  \E j \in Len(e)..(k - 1), c \in Bursts : InBurst(s, j, c, k)
    <2>1. PICK j \in 0..(k - 1), c \in Bursts : InBurst(s, j, c, k)
      <3>1. 0 < k
        BY <1>4, <1>6
      <3> QED
        BY <1>6, <3>1 DEF Whole, InBurst
    <2> DEFINE f == BurstEvents(c, s[j + 1].arg)
    <2>2. s[j + 1].kind = "format_table" /\ On(s, j, f) /\ k <= j + Len(f)
      BY <2>1 DEF InBurst
    <2>3. /\ Len(f) \in Nat \ {0, 1} /\ DOMAIN f = 1..Len(f)
          /\ \A i \in DOMAIN f : f[i].kind = "done" <=> i = Len(f)
      BY BurstShape, QueueShape
    <2> HIDE DEF f
    <2>4. CASE j = 0
      <3>1. Len(e) \in 1..Len(f) /\ Len(e) # Len(f)
        <4>1. Len(e) \in Nat \ {0, 1} /\ Len(f) \in Nat /\ k \in Nat
          BY <1>1, <1>4, <2>3
        <4>2. Len(e) < k /\ k <= 0 + Len(f)
          BY <1>6, <2>2, <2>4
        <4> QED
          BY <4>1, <4>2
      <3>2. s[Len(e)].kind = f[Len(e)].kind
        BY <2>2, <2>3, <2>4, <3>1 DEF On
      <3>3. s[Len(e)].kind = "done"
        BY <1>4, <1>5
      <3> QED
        BY <2>3, <3>1, <3>2, <3>3
    <2>5. CASE j # 0 /\ j < Len(e)
      <3>1. j + 1 \in 1..Len(e) /\ j + 1 # 1
        BY <1>4, <2>1, <2>5
      <3> QED
        BY <1>4, <1>5, <2>2, <3>1
    <2>6. j \in Len(e)..(k - 1) \/ j < Len(e)
      BY <1>4, <2>1
    <2> QED
      BY <2>1, <2>4, <2>5, <2>6
  <1>7. Whole(s, Len(e))
    BY <1>6 DEF Whole, InBurst
  <1> QED
    BY <1>1, <1>3, <1>7 DEF e

-----------------------------------------------------------------------------
(* The parser                                                                 *)

\* An event is dispatched, and those behind it come next.
LEMMA NextEvent ==
    ASSUME NEW s, IsQueue(s), NEW kind, NEW arg, NEW e, IsQueue(e),
           On(s, 0, Event(kind, arg) \o e), Whole(s, Len(Event(kind, arg) \o e))
    PROVE  /\ s # <<>> /\ Head(s).kind = kind /\ Head(s).arg = arg
           /\ On(Tail(s), 0, e) /\ Whole(Tail(s), Len(e))
  <1>1. s # <<>> /\ Head(s) = [kind |-> kind, arg |-> arg] /\ On(Tail(s), 0, e)
    BY OnHead
  <1>2. Len(e) \in Nat /\ Len(Event(kind, arg) \o e) = Len(e) + 1
    <2>1. IsQueue(Event(kind, arg)) /\ Len(Event(kind, arg)) = 1
      BY OneMessage
    <2>2. /\ Len(e) \in Nat
          /\ Len(Event(kind, arg) \o e) = Len(Event(kind, arg)) + Len(e)
      BY <2>1, Sending, QueueShape
    <2> QED
      BY <2>1, <2>2
  <1>3. Whole(Tail(s), Len(e))
    <2>1. Whole(s, Len(e) + 1)
      BY <1>2
    <2> QED
      BY <1>1, <1>2, <2>1, WholeTaken
  <1>4. Head(s).kind = kind /\ Head(s).arg = arg
    BY <1>1
  <1> QED
    BY <1>1, <1>3, <1>4

\* The rest of a burst, at any of its events, is a queue.
LEMMA RestIsQueue ==
    ASSUME NEW b \in Bursts, NEW n, NEW k \in DOMAIN b
    PROVE  /\ IsQueue(<<>>)
           /\ IsQueue(Event("main_device", 0) \o (TrancheEvents(b[1]) \o Following(b, n, 1)))
           /\ IsQueue(TrancheEvents(b[k]) \o Following(b, n, k))
           /\ IsQueue(FlagsEvents(b[k])
                        \o (Event("formats", 0) \o (Event("tranche_done", 0) \o Following(b, n, k))))
           /\ IsQueue(Event("formats", 0) \o (Event("tranche_done", 0) \o Following(b, n, k)))
           /\ IsQueue(Event("tranche_done", 0) \o Following(b, n, k))
           /\ IsQueue(Event("done", Parsed(b, n)))
  <1>1. /\ IsQueue(<<>>) /\ IsQueue(Event("main_device", 0)) /\ IsQueue(Event("formats", 0))
        /\ IsQueue(Event("tranche_done", 0)) /\ IsQueue(Event("done", Parsed(b, n)))
    BY OneMessage
  <1>2. IsQueue(Following(b, n, k)) /\ IsQueue(Following(b, n, 1))
    <2>1. 1 \in DOMAIN b
      BY BurstType
    <2> QED
      BY <2>1, FollowingShape
  <1>3. /\ IsQueue(TrancheEvents(b[k])) /\ IsQueue(TrancheEvents(b[1]))
        /\ IsQueue(FlagsEvents(b[k]))
    BY <1>2, TrancheShape
  <1>4. /\ IsQueue(TrancheEvents(b[1]) \o Following(b, n, 1))
        /\ IsQueue(TrancheEvents(b[k]) \o Following(b, n, k))
        /\ IsQueue(Event("tranche_done", 0) \o Following(b, n, k))
    BY <1>1, <1>2, <1>3, Sending
  <1>5. IsQueue(Event("main_device", 0) \o (TrancheEvents(b[1]) \o Following(b, n, 1)))
    BY <1>1, <1>4, Sending
  <1>6. IsQueue(Event("formats", 0) \o (Event("tranche_done", 0) \o Following(b, n, k)))
    BY <1>1, <1>4, Sending
  <1>7. IsQueue(FlagsEvents(b[k])
                  \o (Event("formats", 0) \o (Event("tranche_done", 0) \o Following(b, n, k))))
    BY <1>3, <1>6, Sending
  <1> QED
    BY <1>1, <1>4, <1>5, <1>6, <1>7

\* The event that comes next tells which handler runs.
LEMMA HandlerOfHead ==
    ASSUME HandleFeedback
    PROVE  /\ sent # <<>> /\ sent' = Tail(sent) /\ burst' = burst
           /\ Head(sent).kind \in FeedbackKinds
           /\ Head(sent).kind = "format_table" => FormatTable
           /\ Head(sent).kind = "main_device" => MainDevice
           /\ Head(sent).kind = "target_device" => TrancheTargetDevice
           /\ Head(sent).kind = "flags" => TrancheFlags
           /\ Head(sent).kind = "formats" => TrancheFormats
           /\ Head(sent).kind = "tranche_done" => TrancheDone
           /\ Head(sent).kind = "done" => FeedbackDone
  <1>1. /\ FormatTable => Dispatch("format_table") /\ burst' = burst
        /\ MainDevice => Dispatch("main_device") /\ burst' = burst
        /\ TrancheTargetDevice => Dispatch("target_device") /\ burst' = burst
        /\ TrancheFlags => Dispatch("flags") /\ burst' = burst
        /\ TrancheFormats => Dispatch("formats") /\ burst' = burst
        /\ TrancheDone => Dispatch("tranche_done") /\ burst' = burst
        /\ FeedbackDone => Dispatch("done") /\ burst' = burst
    BY DEF FormatTable, MainDevice, TrancheTargetDevice, TrancheFlags, TrancheFormats,
           TrancheDone, FeedbackDone
  <1> QED
    BY <1>1 DEF HandleFeedback, Dispatch, FeedbackKinds

\* The event that comes next is the one dispatched.
LEMMA ComingNext ==
    ASSUME IsQueue(sent), sent' = Tail(sent), NEW kind, NEW arg, NEW e, IsQueue(e),
           Coming(Event(kind, arg) \o e)
    PROVE  Head(sent).kind = kind /\ Arg = arg /\ Coming(e)'
  <1>1. On(sent, 0, Event(kind, arg) \o e) /\ Whole(sent, Len(Event(kind, arg) \o e))
    BY DEF Coming
  <1>2. /\ Head(sent).kind = kind /\ Head(sent).arg = arg
        /\ On(Tail(sent), 0, e) /\ Whole(Tail(sent), Len(e))
    BY <1>1, NextEvent
  <1> QED
    BY <1>2 DEF Coming, Arg

\* Between bursts the event handled is the table of the next one.
LEMMA BetweenHandled ==
    ASSUME IsQueue(sent), Parsing, BetweenBursts, HandleFeedback
    PROVE  \E b \in Bursts, n \in 1..burst' : formatTable' \in {n, 0} /\ HasTable(b, n)'
  <1>1. Whole(sent, 0)
    <2>1. Len(<<>>) = 0
      OBVIOUS
    <2> QED
      BY <2>1 DEF BetweenBursts, Coming
  <1>2. sent # <<>> /\ sent' = Tail(sent) /\ burst' = burst /\ Head(sent).kind \in FeedbackKinds
    BY HandlerOfHead
  <1>3. PICK b \in Bursts : LET e == BurstEvents(b, Head(sent).arg)
                            IN  On(sent, 0, e) /\ Whole(sent, Len(e))
    BY <1>1, <1>2, BurstNext
  <1>4. Head(sent).kind = "format_table"
    BY <1>1, <1>2, BurstNext
  <1>5. FormatTable
    BY <1>4, HandlerOfHead
  <1>6. Head(sent).arg \in 1..burst
    <2>1. Head(sent).arg \in EventArgs(sent, "format_table")
      BY <1>2, <1>4, ArgsTaken
    <2> QED
      BY <2>1 DEF Parsing
  <1>7. PICK n \in 1..burst : n = Head(sent).arg
    BY <1>6
  <1> DEFINE rest == Event("main_device", 0) \o (TrancheEvents(b[1]) \o Following(b, n, 1))
  <1>8. Coming(rest)'
    <2>1. 1 \in DOMAIN b
      BY BurstType
    <2>2. IsQueue(rest)
      BY <2>1, RestIsQueue
    <2>3. BurstEvents(b, n) = Event("format_table", n) \o rest
      BY BurstShape
    <2> HIDE DEF rest
    <2>4. Coming(Event("format_table", n) \o rest)
      BY <1>3, <1>7, <2>3 DEF Coming
    <2> QED
      BY <1>2, <2>2, <2>4, ComingNext
  <1>9. Settled'
    BY <1>5 DEF BetweenBursts, Settled, FormatTable
  <1>10. formatTable' \in {n, 0}
    BY <1>5, <1>7 DEF FormatTable, Arg
  <1>11. HasTable(b, n)'
    BY <1>8, <1>9 DEF HasTable
  <1> QED
    BY <1>2, <1>10, <1>11

\* Behind the table it is the main device, and the tranches of the last burst go.
LEMMA TableHandled ==
    ASSUME IsQueue(sent), HandleFeedback, NEW b \in Bursts, NEW n, HasTable(b, n)
    PROVE  1 \in DOMAIN b /\ InTranche(b, n, 1)' /\ formatTable' = formatTable
  <1> DEFINE rest == TrancheEvents(b[1]) \o Following(b, n, 1)
  <1>1. 1 \in DOMAIN b
    BY BurstType
  <1>2. IsQueue(rest)
    BY <1>1, RestIsQueue
  <1>3. Coming(Event("main_device", 0) \o rest) /\ Settled
    BY DEF HasTable
  <1> HIDE DEF rest
  <1>4. sent' = Tail(sent)
    BY HandlerOfHead
  <1>5. Head(sent).kind = "main_device" /\ Coming(rest)'
    BY <1>2, <1>3, <1>4, ComingNext
  <1>6. MainDevice
    BY <1>5, HandlerOfHead
  <1>7. tmpTranche' = NoTranche /\ formatTable' = formatTable /\ ~feedbackDone' /\ tranches' = <<>>
    BY <1>3, <1>6 DEF MainDevice, CheckResetTranches, Settled
  <1>8. SubSeq(Parsed(b, formatTable'), 1, 1 - 1) = <<>>
    BY SubSeqEmpty
  <1> QED
    BY <1>1, <1>5, <1>7, <1>8 DEF InTranche, rest

\* At the end of a burst the surface has exactly what the compositor sent.
LEMMA DoneHandled ==
    ASSUME IsQueue(sent), HandleFeedback, NEW b \in Bursts, NEW n \in 1..burst, AtDone(b, n),
           formatTable \in {n, 0}
    PROVE  BetweenBursts'
  <1>1. Event("done", Parsed(b, n)) \o <<>> = Event("done", Parsed(b, n)) /\ IsQueue(<<>>)
    <2>1. IsQueue(Event("done", Parsed(b, n))) /\ IsQueue(<<>>)
      BY OneMessage
    <2> QED
      BY <2>1, NothingSent
  <1>2. Coming(Event("done", Parsed(b, n)) \o <<>>)
    BY <1>1 DEF AtDone
  <1>3. sent' = Tail(sent)
    BY HandlerOfHead
  <1>4. Head(sent).kind = "done" /\ Arg = Parsed(b, n) /\ Coming(<<>>)'
    BY <1>1, <1>2, <1>3, ComingNext
  <1>5. FeedbackDone
    BY <1>4, HandlerOfHead
  <1>6. delivered' = Parsed(b, formatTable)
    <2>1. CASE formatTable # 0
      BY <1>4, <1>5, <2>1 DEF FeedbackDone
    <2>2. CASE formatTable = 0
      <3>1. delivered' = [k \in DOMAIN Parsed(b, n) |-> [Parsed(b, n)[k] EXCEPT !.formats = {}]]
        BY <1>4, <1>5, <2>2 DEF FeedbackDone
      <3>2. \A k \in DOMAIN b : [ParsedTranche(b[k], n) EXCEPT !.formats = {}]
                                  = ParsedTranche(b[k], 0)
        BY DEF ParsedTranche
      <3>3. /\ DOMAIN Parsed(b, n) = DOMAIN b
            /\ \A k \in DOMAIN b : Parsed(b, n)[k] = ParsedTranche(b[k], n)
        BY DEF Parsed
      <3>4. delivered' = [k \in DOMAIN b |-> ParsedTranche(b[k], 0)]
        BY <3>1, <3>2, <3>3
      <3> QED
        BY <2>2, <3>4 DEF Parsed
    <2> QED
      BY <2>1, <2>2
  <1>7. feedbackDone' = TRUE /\ tranches' = tranches /\ tmpTranche' = tmpTranche
    BY <1>5 DEF FeedbackDone
  <1>8. Settled'
    BY <1>6, <1>7 DEF AtDone, Settled
  <1> QED
    BY <1>4, <1>8 DEF BetweenBursts

\* A tranche is read one event after the other, and then comes the next, or the end.
LEMMA TrancheHandled ==
    ASSUME IsQueue(sent), HandleFeedback, NEW b \in Bursts, NEW n, NEW k \in DOMAIN b,
           InTranche(b, n, k), formatTable \in 0..MaxBursts
    PROVE  /\ formatTable' = formatTable
           /\ (\E i \in DOMAIN b : InTranche(b, n, i)') \/ AtDone(b, n)'
  <1> DEFINE next == Following(b, n, k)
             done == Event("tranche_done", 0) \o next
             formats == Event("formats", 0) \o done
             flags == FlagsEvents(b[k]) \o formats
             devOnly == [NoTranche EXCEPT !.dev = b[k].dev]
             withFlags == [devOnly EXCEPT !.sampling = b[k].sampling]
             before == SubSeq(Parsed(b, formatTable), 1, k - 1)
  <1>1. IsQueue(flags) /\ IsQueue(formats) /\ IsQueue(done) /\ IsQueue(next)
    <2>1. IsQueue(next)
      BY FollowingShape
    <2> QED
      BY <2>1, RestIsQueue
  <1>2. sent' = Tail(sent)
    BY HandlerOfHead
  <1>3. ~feedbackDone /\ tranches = before
    BY DEF InTranche
  <1>4. CheckResetTranches => ~feedbackDone' /\ tranches' = before
    BY <1>3 DEF CheckResetTranches
  <1>5. /\ withFlags = [dev |-> b[k].dev, sampling |-> b[k].sampling, formats |-> {}]
        /\ devOnly = [dev |-> b[k].dev, sampling |-> FALSE, formats |-> {}]
    <2>1. devOnly = [dev |-> b[k].dev, sampling |-> FALSE, formats |-> {}]
      <3>1. PICK s : s = FALSE
        OBVIOUS
      <3>2. NoTranche = [dev |-> "none", sampling |-> s, formats |-> {}]
        BY <3>1, Zenon DEF NoTranche
      <3>3. devOnly = [dev |-> b[k].dev, sampling |-> s, formats |-> {}]
        BY <3>2
      <3> QED
        BY <3>1, <3>3, Zenon
    <2> HIDE DEF devOnly
    <2> QED
      BY <2>1
  <1>6. CASE Coming(TrancheEvents(b[k]) \o next) /\ tmpTranche = NoTranche
    <2>1. TrancheEvents(b[k]) \o next = Event("target_device", b[k].dev) \o flags
      BY <1>1, TrancheShape
    <2> HIDE DEF flags
    <2>2. Coming(Event("target_device", b[k].dev) \o flags)
      BY <1>6, <2>1
    <2>3. Head(sent).kind = "target_device" /\ Arg = b[k].dev /\ Coming(flags)'
      BY <1>1, <1>2, <2>2, ComingNext
    <2>4. TrancheTargetDevice
      BY <2>3, HandlerOfHead
    <2>5. tmpTranche' = devOnly /\ formatTable' = formatTable /\ ~feedbackDone' /\ tranches' = before
      BY <1>4, <1>6, <2>3, <2>4 DEF TrancheTargetDevice
    <2>6. InTranche(b, n, k)'
      BY <2>3, <2>5 DEF InTranche, flags
    <2> QED
      BY <2>5, <2>6
  <1>7. CASE Coming(formats) /\ tmpTranche = withFlags
    <2> HIDE DEF done
    <2>1. Head(sent).kind = "formats" /\ Coming(done)'
      BY <1>1, <1>2, <1>7, ComingNext
    <2>2. TrancheFormats
      BY <2>1, HandlerOfHead
    <2>3. tmpTranche' = [withFlags EXCEPT !.formats = @ \union ({formatTable} \ {0})]
      BY <1>7, <2>2 DEF TrancheFormats
    <2>4. tmpTranche' = ParsedTranche(b[k], formatTable)
      BY <1>5, <2>3 DEF ParsedTranche
    <2>5. formatTable' = formatTable /\ ~feedbackDone' /\ tranches' = before
      BY <1>4, <2>2 DEF TrancheFormats
    <2>6. InTranche(b, n, k)'
      BY <2>1, <2>4, <2>5 DEF InTranche, done
    <2> QED
      BY <2>5, <2>6
  <1>8. CASE Coming(flags) /\ tmpTranche = devOnly
    <2>1. CASE b[k].sampling
      <3>1. flags = Event("flags", TRUE) \o formats
        BY <2>1 DEF FlagsEvents
      <3> HIDE DEF formats
      <3>2. Coming(Event("flags", TRUE) \o formats)
        BY <1>8, <3>1
      <3>3. Head(sent).kind = "flags" /\ Coming(formats)'
        BY <1>1, <1>2, <3>2, ComingNext
      <3>4. TrancheFlags
        BY <3>3, HandlerOfHead
      <3>5. tmpTranche' = [devOnly EXCEPT !.sampling = TRUE]
        BY <1>8, <3>4 DEF TrancheFlags
      <3>6. b[k].sampling = TRUE
        BY <2>1, BurstType
      <3>7. tmpTranche' = withFlags
        BY <3>5, <3>6
      <3>8. formatTable' = formatTable /\ ~feedbackDone' /\ tranches' = before
        BY <1>4, <3>4 DEF TrancheFlags
      <3>9. InTranche(b, n, k)'
        BY <3>3, <3>7, <3>8 DEF InTranche, formats
      <3> QED
        BY <3>8, <3>9
    <2>2. CASE ~b[k].sampling
      <3>1. <<>> \o formats = formats
        BY <1>1, NothingSent
      <3>2. flags = formats
        BY <2>2, <3>1 DEF FlagsEvents
      <3>3. b[k].sampling = FALSE
        BY <2>2, BurstType
      <3>4. tmpTranche = withFlags
        BY <1>5, <1>8, <3>3
      <3> QED
        BY <1>7, <1>8, <3>2, <3>4
    <2> QED
      BY <2>1, <2>2
  <1>9. CASE Coming(done) /\ tmpTranche = ParsedTranche(b[k], formatTable)
    <2> DEFINE P == Parsed(b, formatTable)
    <2> HIDE DEF next
    <2>1. Head(sent).kind = "tranche_done" /\ Coming(next)'
      BY <1>1, <1>2, <1>9, ComingNext
    <2>2. TrancheDone
      BY <2>1, HandlerOfHead
    <2>3. /\ tmpTranche' = NoTranche /\ formatTable' = formatTable /\ ~feedbackDone'
          /\ tranches' = Append(before, ParsedTranche(b[k], formatTable))
      BY <1>3, <1>9, <2>2 DEF TrancheDone
    <2>4. P \in Seq(Tranche) /\ DOMAIN P = DOMAIN b /\ P[k] = ParsedTranche(b[k], formatTable)
      BY ParsedType DEF Parsed
    <2>5. Len(b) \in Nat /\ DOMAIN b = 1..Len(b) /\ Len(P) \in Nat /\ DOMAIN P = 1..Len(P)
      BY <2>4, BurstType
    <2>6. Len(P) = Len(b) /\ k \in 1..Len(P)
      BY <2>4, <2>5
    <2> HIDE DEF P
    <2>7. SubSeq(P, 1, k) = SubSeq(P, 1, k - 1) \o <<P[k]>>
      <3>1. 1 \in 1..Len(P) /\ k \in 1..Len(P)
        BY <2>5, <2>6
      <3>2. P \in Seq(Tranche)
        BY <2>4
      <3> QED
        BY <3>1, <3>2, SubSeqRecursiveSecond
    <2>8. SubSeq(P, 1, k - 1) \in Seq(Tranche)
      <3>1. \A i \in 1..(k - 1) : P[i] \in Tranche
        BY <2>4, <2>5, <2>6
      <3> QED
        BY <2>6, <3>1, SubSeqProperties
    <2>9. P[k] \in Tranche
      BY <2>4, <2>6
    <2>10. tranches' = SubSeq(P, 1, k)
      <3> DEFINE q == SubSeq(P, 1, k - 1)
      <3>1. tranches' = Append(q, P[k])
        BY <2>3, <2>4 DEF P
      <3>2. q \in Seq(Tranche)
        BY <2>8
      <3> HIDE DEF q
      <3>3. Append(q, P[k]) = q \o <<P[k]>>
        BY <2>9, <3>2, AppendIsConcat
      <3> QED
        BY <2>7, <3>1, <3>3 DEF q
    <2>11. CASE k = Len(b)
      <3>1. next = Event("done", Parsed(b, n))
        BY <2>11, FollowingShape DEF next
      <3>2. tranches' = P
        BY <2>4, <2>6, <2>10, <2>11, SubSeqFull
      <3> QED
        BY <2>1, <2>3, <3>1, <3>2 DEF AtDone, P
    <2>12. CASE k # Len(b)
      <3>1. k + 1 \in DOMAIN b /\ next = TrancheEvents(b[k + 1]) \o Following(b, n, k + 1)
        BY <2>12, FollowingShape DEF next
      <3>2. (k + 1) - 1 = k
        BY <2>6
      <3>3. tranches' = SubSeq(Parsed(b, formatTable'), 1, (k + 1) - 1)
        BY <2>3, <2>10, <3>2 DEF P
      <3>4. InTranche(b, n, k + 1)'
        BY <2>1, <2>3, <3>1, <3>3 DEF InTranche
      <3> QED
        BY <2>3, <3>1, <3>4
    <2> QED
      BY <2>11, <2>12
  <1> QED
    BY <1>6, <1>7, <1>8, <1>9 DEF InTranche

\* The parser reads what comes next, whatever handler runs.
LEMMA ReadingHandled ==
    ASSUME IsQueue(sent), Parsing, burst \in 0..MaxBursts, formatTable \in 0..burst,
           Reading, HandleFeedback
    PROVE  Reading'
  <1>1. CASE BetweenBursts
    <2>1. \E b \in Bursts, n \in 1..burst' : formatTable' \in {n, 0} /\ HasTable(b, n)'
      BY <1>1, BetweenHandled
    <2> QED
      BY <2>1 DEF Reading
  <1>2. CASE ~BetweenBursts
    <2>1. PICK b \in Bursts, n \in 1..burst :
              /\ formatTable \in {n, 0}
              /\ HasTable(b, n) \/ (\E k \in DOMAIN b : InTranche(b, n, k)) \/ AtDone(b, n)
      BY <1>2 DEF Reading
    <2>2. burst' = burst
      BY HandlerOfHead
    <2>3. CASE HasTable(b, n)
      <3>1. 1 \in DOMAIN b /\ InTranche(b, n, 1)' /\ formatTable' = formatTable
        BY <2>3, TableHandled
      <3> QED
        BY <2>1, <2>2, <3>1 DEF Reading
    <2>4. CASE \E k \in DOMAIN b : InTranche(b, n, k)
      <3>1. PICK k \in DOMAIN b : InTranche(b, n, k)
        BY <2>4
      <3>2. formatTable \in 0..MaxBursts
        BY BurstsAssumption
      <3>3. /\ formatTable' = formatTable
            /\ (\E i \in DOMAIN b : InTranche(b, n, i)') \/ AtDone(b, n)'
        BY <3>1, <3>2, TrancheHandled
      <3> QED
        BY <2>1, <2>2, <3>3 DEF Reading
    <2>5. CASE AtDone(b, n)
      <3>1. BetweenBursts'
        BY <2>1, <2>5, DoneHandled
      <3> QED
        BY <3>1 DEF Reading
    <2> QED
      BY <2>1, <2>3, <2>4, <2>5
  <1> QED
    BY <1>1, <1>2

\* Unless the next event is one of a burst, no burst has begun.
LEMMA OtherNext ==
    ASSUME IsQueue(sent), Reading, sent # <<>>, Head(sent).kind \notin FeedbackKinds
    PROVE  BetweenBursts
  <1> SUFFICES ASSUME NEW b \in Bursts, NEW n \in 1..burst,
                      HasTable(b, n) \/ (\E k \in DOMAIN b : InTranche(b, n, k)) \/ AtDone(b, n)
               PROVE  FALSE
    BY DEF Reading
  <1>1. ASSUME NEW kind \in FeedbackKinds, NEW arg, NEW e, IsQueue(e),
               Coming(Event(kind, arg) \o e)
        PROVE  FALSE
    <2>1. Head(sent).kind = kind
      BY <1>1, NextEvent DEF Coming
    <2> QED
      BY <1>1, <2>1
  <1>2. /\ "main_device" \in FeedbackKinds /\ "target_device" \in FeedbackKinds
        /\ "flags" \in FeedbackKinds /\ "formats" \in FeedbackKinds
        /\ "tranche_done" \in FeedbackKinds /\ "done" \in FeedbackKinds
    BY DEF FeedbackKinds
  <1>3. CASE HasTable(b, n)
    <2> DEFINE rest == TrancheEvents(b[1]) \o Following(b, n, 1)
    <2>1. IsQueue(rest)
      BY BurstType, RestIsQueue
    <2>2. Coming(Event("main_device", 0) \o rest)
      BY <1>3 DEF HasTable
    <2> HIDE DEF rest
    <2> QED
      BY <1>1, <1>2, <2>1, <2>2
  <1>4. CASE AtDone(b, n)
    <2>1. IsQueue(<<>>) /\ Event("done", Parsed(b, n)) \o <<>> = Event("done", Parsed(b, n))
      <3>1. IsQueue(Event("done", Parsed(b, n))) /\ IsQueue(<<>>)
        BY OneMessage
      <3> QED
        BY <3>1, NothingSent
    <2>2. Coming(Event("done", Parsed(b, n)) \o <<>>)
      BY <1>4, <2>1 DEF AtDone
    <2> QED
      BY <1>1, <1>2, <2>1, <2>2
  <1>5. ASSUME NEW k \in DOMAIN b, InTranche(b, n, k) PROVE FALSE
    <2> DEFINE next == Following(b, n, k)
               done == Event("tranche_done", 0) \o next
               formats == Event("formats", 0) \o done
               flags == FlagsEvents(b[k]) \o formats
    <2>1. IsQueue(flags) /\ IsQueue(formats) /\ IsQueue(done) /\ IsQueue(next)
      <3>1. IsQueue(next)
        BY FollowingShape
      <3> QED
        BY <3>1, RestIsQueue
    <2>2. TrancheEvents(b[k]) \o next = Event("target_device", b[k].dev) \o flags
      BY <2>1, TrancheShape
    <2>3. Coming(TrancheEvents(b[k]) \o next) \/ Coming(flags) \/ Coming(formats) \/ Coming(done)
      BY <1>5 DEF InTranche
    <2>4. flags = Event("flags", TRUE) \o formats \/ flags = formats
      BY <2>1, NothingSent DEF FlagsEvents
    <2> HIDE DEF flags
    <2>5. ~Coming(done)
      <3> HIDE DEF next
      <3> QED
        BY <1>1, <1>2, <2>1 DEF done
    <2>6. ~Coming(formats)
      <3> HIDE DEF done
      <3> QED
        BY <1>1, <1>2, <2>1 DEF formats
    <2> HIDE DEF formats
    <2>7. ~Coming(flags)
      BY <1>1, <1>2, <2>1, <2>4, <2>6
    <2>8. ~Coming(TrancheEvents(b[k]) \o next)
      BY <1>1, <1>2, <2>1, <2>2
    <2> QED
      BY <2>3, <2>5, <2>6, <2>7, <2>8
  <1> QED
    BY <1>3, <1>4, <1>5

\* An event of another kind leaves the parser where it is,
LEMMA ReadingOther ==
    ASSUME IsQueue(sent), Reading, sent # <<>>, Head(sent).kind \notin FeedbackKinds,
           sent' = Tail(sent), UNCHANGED <<tmpTranche, tranches, feedbackDone, delivered>>
    PROVE  Reading'
  <1>1. BetweenBursts
    BY OtherNext
  <1>2. Len(<<>>) = 0 /\ IsQueue(<<>>)
    BY OneMessage
  <1>3. Whole(Tail(sent), 0)
    <2>1. Whole(sent, 0)
      BY <1>1, <1>2 DEF BetweenBursts, Coming
    <2> QED
      BY <2>1, WholeTaken
  <1>4. On(Tail(sent), 0, <<>>)
    <2>1. Len(Tail(sent)) \in Nat
      BY Taking, QueueShape
    <2> QED
      BY <1>2, <2>1 DEF On
  <1>5. Coming(<<>>)'
    BY <1>2, <1>3, <1>4 DEF Coming
  <1>6. BetweenBursts'
    BY <1>1, <1>5 DEF BetweenBursts, Settled
  <1> QED
    BY <1>6 DEF Reading

\* and so do more events, of bursts as a whole or of other kinds.
LEMMA ReadingSent ==
    ASSUME IsQueue(sent), Reading, NEW t, IsQueue(t), Whole(t, 0), sent' = sent \o t,
           burst \in Nat, burst' \in Nat, burst <= burst', UNCHANGED <<parser, delivered>>
    PROVE  Reading'
  <1>1. ASSUME NEW e, IsQueue(e), Coming(e) PROVE Coming(e)'
    <2>1. On(sent, 0, e) /\ Whole(sent, Len(e)) /\ Len(e) \in Nat
      BY <1>1, QueueShape DEF Coming
    <2>2. Len(e) <= Len(sent)
      BY <2>1 DEF On
    <2>3. On(sent \o t, 0, e)
      BY <1>1, <2>1, OnSent
    <2>4. Whole(sent \o t, Len(e))
      BY <2>1, <2>2, WholeSent
    <2> QED
      BY <2>3, <2>4 DEF Coming
  <1>2. /\ formatTable' = formatTable /\ tmpTranche' = tmpTranche /\ tranches' = tranches
        /\ feedbackDone' = feedbackDone /\ delivered' = delivered
    BY DEF parser
  <1>3. Settled => Settled'
    BY <1>2 DEF Settled
  <1>4. BetweenBursts => BetweenBursts'
    <2>1. IsQueue(<<>>)
      BY OneMessage
    <2> QED
      BY <1>1, <1>3, <2>1 DEF BetweenBursts
  <1>5. ASSUME NEW b \in Bursts, NEW n \in 1..burst
        PROVE  /\ n \in 1..burst'
               /\ HasTable(b, n) => HasTable(b, n)'
               /\ AtDone(b, n) => AtDone(b, n)'
               /\ \A k \in DOMAIN b : InTranche(b, n, k) => InTranche(b, n, k)'
    <2>1. n \in 1..burst'
      OBVIOUS
    <2>2. 1 \in DOMAIN b
      BY BurstType
    <2>3. HasTable(b, n) => HasTable(b, n)'
      BY <1>1, <1>3, <2>2, RestIsQueue DEF HasTable
    <2>4. AtDone(b, n) => AtDone(b, n)'
      BY <1>1, <1>2, <2>2, RestIsQueue DEF AtDone
    <2>5. ASSUME NEW k \in DOMAIN b, InTranche(b, n, k) PROVE InTranche(b, n, k)'
      <3>1. \A e \in {TrancheEvents(b[k]) \o Following(b, n, k),
                      FlagsEvents(b[k]) \o (Event("formats", 0)
                         \o (Event("tranche_done", 0) \o Following(b, n, k))),
                      Event("formats", 0) \o (Event("tranche_done", 0) \o Following(b, n, k)),
                      Event("tranche_done", 0) \o Following(b, n, k)} : Coming(e) => Coming(e)'
        BY <1>1, RestIsQueue
      <3> QED
        BY <1>2, <2>5, <3>1 DEF InTranche
    <2> QED
      BY <2>1, <2>3, <2>4, <2>5
  <1> QED
    BY <1>2, <1>4, <1>5 DEF Reading

\* Once a burst has been read, no tranche is added to it.
LEMMA ReadWhole ==
    ASSUME IsQueue(sent), Reading, feedbackDone
    PROVE  tranches = delivered /\ ~TrancheDone
  <1>1. \/ BetweenBursts
        \/ \E b \in Bursts, n \in 1..burst : HasTable(b, n)
    BY DEF Reading, InTranche, AtDone
  <1>2. tranches = delivered
    BY <1>1 DEF BetweenBursts, HasTable, Settled
  <1>3. ASSUME sent # <<>> PROVE Head(sent).kind # "tranche_done"
    <2>1. CASE BetweenBursts
      <3>1. Whole(sent, 0)
        <4>1. Len(<<>>) = 0
          OBVIOUS
        <4> QED
          BY <2>1, <4>1 DEF BetweenBursts, Coming
      <3>2. Head(sent).kind \in FeedbackKinds => Head(sent).kind = "format_table"
        BY <1>3, <3>1, BurstNext
      <3> QED
        BY <3>2 DEF FeedbackKinds
    <2>2. ASSUME NEW b \in Bursts, NEW n \in 1..burst, HasTable(b, n)
          PROVE  Head(sent).kind = "main_device"
      <3> DEFINE rest == TrancheEvents(b[1]) \o Following(b, n, 1)
      <3>1. IsQueue(rest)
        BY BurstType, RestIsQueue
      <3>2. Coming(Event("main_device", 0) \o rest)
        BY <2>2 DEF HasTable
      <3> HIDE DEF rest
      <3> QED
        BY <3>1, <3>2, NextEvent DEF Coming
    <2> QED
      BY <1>1, <2>1, <2>2
  <1> QED
    BY <1>2, <1>3 DEF TrancheDone, Dispatch
=============================================================================
