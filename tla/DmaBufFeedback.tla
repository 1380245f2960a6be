--------------------------- MODULE DmaBufFeedback ---------------------------
(***************************************************************************)
(* A surface's zwp_linux_dmabuf_feedback_v1 object (wayland-egldisplay.c,    *)
(* dmabuf_feedback_...): the tranches a compositor sends, one event after the  *)
(* other, and what the surface has made of them so far.  A dispatch of the   *)
(* surface's queue may stop anywhere in a burst of these events.             *)
(*                                                                         *)
(* A tranche is a target device, whether the compositor samples with it, and *)
(* the set of format tables its modifiers were looked up in: one table, or   *)
(* none when the table could not be mapped.  Each burst brings its own table. *)
(***************************************************************************)
EXTENDS Connection

CONSTANTS
    Bursts,     \* what the compositor may send: one or two [dev, sampling]
    MaxBursts   \* bound: bursts sent in a behaviour

ASSUME BurstsAssumption ==
    /\ Bursts # {}
    /\ \A b \in Bursts : b \in Seq([dev : STRING, sampling : BOOLEAN]) /\ Len(b) \in {1, 2}
    /\ MaxBursts \in Nat \ {0}

VARIABLES
    burst,                \* bursts sent so far; the number of the last format table
    formatTable,          \* feedback->formatTable: its number, 0 if not mapped
    tmpTranche,           \* feedback->tmpTranche
    tranches,             \* feedback->tranches
    feedbackDone, unprocessedFeedback,
    delivered             \* history: the last burst dispatched as a whole

parser == <<formatTable, tmpTranche, tranches, feedbackDone>>
feedbackVars == <<burst, parser, unprocessedFeedback, delivered>>

NoTranche == [dev |-> "none", sampling |-> FALSE, formats |-> {}]

\* What a burst looks like when all of it has been read with its table mapped.
ParsedTranche(t, table) ==
    [dev |-> t.dev, sampling |-> t.sampling, formats |-> {table} \ {0}]

Parsed(b, table) == [k \in DOMAIN b |-> ParsedTranche(b[k], table)]

FeedbackInit ==
    /\ burst = 0
    /\ formatTable = 0 /\ tmpTranche = NoTranche /\ tranches = <<>>
    /\ feedbackDone = FALSE /\ unprocessedFeedback = FALSE
    /\ delivered = <<>>

-----------------------------------------------------------------------------
(* The compositor sends a burst: the table, the main device, the tranches with *)
(* their flags if they have any, and done.                                    *)

FlagsEvents(t) == IF t.sampling THEN Event("flags", TRUE) ELSE <<>>

TrancheEvents(t) ==
    Event("target_device", t.dev) \o FlagsEvents(t)
      \o Event("formats", 0) \o Event("tranche_done", 0)

\* What follows tranche k.
Following(b, n, k) ==
    (IF k = Len(b) THEN <<>> ELSE TrancheEvents(b[k + 1])) \o Event("done", Parsed(b, n))

BurstEvents(b, n) ==
    Event("format_table", n) \o Event("main_device", 0)
      \o TrancheEvents(b[1]) \o Following(b, n, 1)

SendBurst(b) ==
    /\ burst < MaxBursts
    /\ burst' = burst + 1
    /\ sent' = sent \o BurstEvents(b, burst + 1)
    /\ UNCHANGED <<parser, unprocessedFeedback, delivered>>

-----------------------------------------------------------------------------
(* The event handlers                                                         *)

\* Mutant: tranches of a burst are added to those of the one before.
KeepTranches ==
    /\ feedbackDone' = FALSE
    /\ UNCHANGED tranches

\* dmabuf_feedback_check_reset_tranches: the first event of a resend clears what
\* the last burst left.
CheckResetTranches ==
    /\ feedbackDone' = FALSE
    /\ tranches' = IF feedbackDone THEN <<>> ELSE tranches

\* A table that cannot be mapped has no entries.
FormatTable ==
    /\ Dispatch("format_table")
    /\ formatTable' \in {Arg, 0}
    /\ UNCHANGED <<burst, tmpTranche, tranches, feedbackDone, unprocessedFeedback,
                   delivered>>

MainDevice ==
    /\ Dispatch("main_device")
    /\ CheckResetTranches
    /\ UNCHANGED <<burst, formatTable, tmpTranche, unprocessedFeedback, delivered>>

TrancheTargetDevice ==
    /\ Dispatch("target_device")
    /\ CheckResetTranches
    /\ tmpTranche' = [tmpTranche EXCEPT !.dev = Arg]
    /\ UNCHANGED <<burst, formatTable, unprocessedFeedback, delivered>>

TrancheFlags ==
    /\ Dispatch("flags")
    /\ CheckResetTranches
    /\ tmpTranche' = [tmpTranche EXCEPT !.sampling = TRUE]
    /\ UNCHANGED <<burst, formatTable, unprocessedFeedback, delivered>>

\* Indices beyond the table, all of them if it is not mapped, are skipped.
TrancheFormats ==
    /\ Dispatch("formats")
    /\ CheckResetTranches
    /\ tmpTranche' = [tmpTranche EXCEPT !.formats = @ \union ({formatTable} \ {0})]
    /\ UNCHANGED <<burst, formatTable, unprocessedFeedback, delivered>>

TrancheDone ==
    /\ Dispatch("tranche_done")
    /\ tranches' = Append(tranches, tmpTranche)
    /\ tmpTranche' = NoTranche
    /\ UNCHANGED <<burst, formatTable, feedbackDone, unprocessedFeedback, delivered>>

\* Without its table a burst has devices and flags, and no modifiers.
FeedbackDone ==
    /\ Dispatch("done")
    /\ feedbackDone' = TRUE /\ unprocessedFeedback' = TRUE
    /\ delivered' = IF formatTable # 0 THEN Arg
                    ELSE [k \in DOMAIN Arg |-> [Arg[k] EXCEPT !.formats = {}]]
    /\ UNCHANGED <<burst, formatTable, tmpTranche, tranches>>

HandleFeedback ==
    \/ FormatTable \/ MainDevice \/ TrancheTargetDevice \/ TrancheFlags
    \/ TrancheFormats \/ TrancheDone \/ FeedbackDone

-----------------------------------------------------------------------------
(* Types of the events and of what the handlers make of them.                 *)

Tranche == [dev : STRING \union {NoTranche.dev}, sampling : BOOLEAN,
            formats : SUBSET (1..MaxBursts)]

Parsing ==
    /\ EventArgs(sent, "format_table") \subseteq 1..burst
    /\ EventArgs(sent, "target_device") \subseteq STRING
    /\ EventArgs(sent, "done") \subseteq Seq(Tranche)
    /\ tmpTranche \in Tranche
    /\ tranches \in Seq(Tranche) /\ delivered \in Seq(Tranche)
    /\ feedbackDone \in BOOLEAN /\ unprocessedFeedback \in BOOLEAN

-----------------------------------------------------------------------------
(* The inductive invariant of the parser: how far into a burst it is.         *)

FeedbackKinds == {"format_table", "main_device", "target_device", "flags", "formats",
                  "tranche_done", "done"}

\* The events e are on the queue behind the first p.
On(s, p, e) ==
    /\ p + Len(e) <= Len(s)
    /\ \A k \in DOMAIN e : s[p + k].kind = e[k].kind /\ s[p + k] = e[k]

\* Behind the first p, the queue holds bursts as a whole, whatever is between them.
Whole(s, p) ==
    \A k \in DOMAIN s : p < k /\ s[k].kind \in FeedbackKinds =>
        \E j \in p..(k - 1), b \in Bursts :
            /\ s[j + 1].kind = "format_table"
            /\ On(s, j, BurstEvents(b, s[j + 1].arg))
            /\ k <= j + Len(BurstEvents(b, s[j + 1].arg))

\* The events e come next, the rest of a burst.
Coming(e) == On(sent, 0, e) /\ Whole(sent, Len(e))

\* Between two bursts, or before the first event of one that resets the tranches.
Settled == tmpTranche = NoTranche /\ (IF feedbackDone THEN tranches = delivered
                                                      ELSE tranches = <<>>)

BetweenBursts == Coming(<<>>) /\ Settled

HasTable(b, n) ==
    /\ Coming(Event("main_device", 0) \o (TrancheEvents(b[1]) \o Following(b, n, 1)))
    /\ Settled

\* Inside tranche k, those before it have been read.
InTranche(b, n, k) ==
    LET devOnly == [NoTranche EXCEPT !.dev = b[k].dev]
        formats == Event("formats", 0) \o (Event("tranche_done", 0) \o Following(b, n, k))
    IN  /\ ~feedbackDone /\ tranches = SubSeq(Parsed(b, formatTable), 1, k - 1)
        /\ \/ /\ Coming(TrancheEvents(b[k]) \o Following(b, n, k))
              /\ tmpTranche = NoTranche
           \/ /\ Coming(FlagsEvents(b[k]) \o formats)
              /\ tmpTranche = devOnly
           \/ /\ Coming(formats)
              /\ tmpTranche = [devOnly EXCEPT !.sampling = b[k].sampling]
           \/ /\ Coming(Event("tranche_done", 0) \o Following(b, n, k))
              /\ tmpTranche = ParsedTranche(b[k], formatTable)

AtDone(b, n) ==
    /\ Coming(Event("done", Parsed(b, n)))
    /\ ~feedbackDone /\ tranches = Parsed(b, formatTable) /\ tmpTranche = NoTranche

Reading ==
    \/ BetweenBursts
    \/ \E b \in Bursts, n \in 1..burst :
          /\ formatTable \in {n, 0}
          /\ HasTable(b, n) \/ (\E k \in DOMAIN b : InTranche(b, n, k)) \/ AtDone(b, n)
=============================================================================
