----------------------------- MODULE Deadlocks -----------------------------
(***************************************************************************)
(* The deadlocks collector: deadlock reports read from the ring buffer of  *)
(* the system_health session, which is bounded and shared with every other *)
(* event of the session.  A run parses all the reports in the ring, keeps  *)
(* those after its watermark and upserts one fact_deadlock row per report, *)
(* keyed by the time of the event.                                         *)
(*                                                                         *)
(* Keys are event times, Vals are events.  Two deadlocks may carry the     *)
(* same time, and then share a row.                                        *)
(***************************************************************************)
EXTENDS Watermark

CONSTANTS
    BadChoices, \* which events may have a report that _parse_one_deadlock cannot read
    KeepRuns,   \* retention of collection_run, in ticks
    KeepFacts   \* retention of fact_deadlock, in ticks

ASSUME DeadlocksAssumption ==
    /\ BadChoices \subseteq SUBSET Event
    /\ KeepRuns \in Nat
    /\ KeepFacts \in Nat

VARIABLE bad   \* those that do, in this behaviour

deadlockVars == <<bad, allVars>>

DeadlocksTypeOK ==
    /\ WatermarkTypeOK
    /\ bad \in BadChoices
    /\ stage \in [Event -> {"none", "ring", "gone"}]

DeadlocksInit == WatermarkInit /\ bad \in BadChoices

-----------------------------------------------------------------------------
(* system_health *)

Occur(e) == Happen(e, "ring")

\* The ring is full: its oldest report makes room, for a deadlock or for anything else.
Evict(e) == Move(e, "ring", "gone")

-----------------------------------------------------------------------------
(* DeadlocksCollector *)

\* Mutation: the key is the time of the sample, as in the point-in-time collectors.
ReportsBySampleTime(mark) == {[key |-> now, val |-> e] : e \in {f \in In("ring") : After(f, mark)}}

\* Mutation: the timestamp is read in a zone west of UTC.
ReportsInLocalTime(mark) ==
    {[key |-> ts[e] - 1, val |-> e] : e \in {f \in In("ring") : After(f, mark)}}

\* transform: one row per report after the watermark.
Reports(mark) == {[key |-> ts[e], val |-> e] : e \in {f \in In("ring") : After(f, mark)}}

\* parse_deadlock_events reads every report of the ring, those at or under the watermark too.
Parses(reports) == reports \cap bad = {}

ReadRing(p) ==
    /\ Parses(In("ring"))
    /\ Comparable(watermark[p], In("ring"))
    /\ Collect(p, In("ring"), Reports(watermark[p]))

CannotRead(p) ==
    /\ ~Parses(In("ring")) \/ ~Comparable(watermark[p], In("ring"))
    /\ TransformRaises(p)

-----------------------------------------------------------------------------
(* sql/retention.sql, one batch of each: any of the rows past their age *)

PurgeRuns ==
    /\ \E old \in SUBSET {r \in DOMAIN runs : runs[r].started < now - KeepRuns} :
         /\ old # {}
         /\ runs' = [r \in DOMAIN runs \ old |-> runs[r]]
    /\ UNCHANGED <<now, nextId, fact, hist, procVars, wVars>>

Stored(k) == fact[Home][k] # NoVal

PurgeFacts ==
    /\ \E old \in SUBSET {k \in Keys : Stored(k) /\ k < now - KeepFacts} :
         /\ old # {}
         /\ fact' = [fact EXCEPT ![Home] = [k \in Keys |-> IF k \in old THEN NoVal ELSE @[k]]]
    /\ UNCHANGED <<now, runs, nextId, hist, procVars, wVars>>

DeadlocksStep ==
    \/ \E e \in Event : Occur(e) \/ Evict(e)
    \/ \E p \in Invocations : ReadRing(p) \/ CannotRead(p)
    \/ PurgeRuns
    \/ PurgeFacts
    \/ Common

DeadlocksNext == DeadlocksStep /\ UNCHANGED bad

DeadlocksSpec == DeadlocksInit /\ [][DeadlocksNext]_deadlockVars

-----------------------------------------------------------------------------
(* Properties *)

\* "success" in collection_run means that each deadlock of the batch was committed, or one
\* of the same time in its stead; "failed" that not the whole batch was committed: a deadlock
\* is missing, though a twin's row may stand at its time. At stake: MERGEs of one batch that
\* overwrite each other, under every failure of Collector.run.
TruthfulUpToTwins ==
    \A r \in DOMAIN runs :
        LET missing == {row \in hist[r].batch : \A x \in hist[r].landed : x.key # row.key}
        IN  /\ runs[r].status = "success" => missing = {}
            /\ runs[r].status = "failed" => hist[r].landed # hist[r].batch

\* A deadlock at or under the watermark has a row, its own or that of another deadlock of
\* the same time, unless a successful run that stamped itself past it had not seen it (it
\* came between the fetch and start_run, by a clock that is behind, or had been evicted),
\* or its row has been purged for its age. A report that cannot be read makes each run fail
\* while it is in the ring, and costs no other deadlock its row.
DeadlockLossOnlyInGap ==
    \A e \in Event :
        Passed(e) /\ ~Stored(ts[e]) => Missed(e) \/ ts[e] < now - KeepFacts
=============================================================================
