------------------------------ MODULE Workload ------------------------------
(***************************************************************************)
(* The workload collector: login attribution from an Extended Events       *)
(* session.  Completed queries are buffered by the session, dispatched to  *)
(* .xel files with a latency and rolled off them; the collector reads the  *)
(* files, keeps the events after its watermark, and aggregates them per    *)
(* attribution group into one fact_workload row per window.  An aggregate  *)
(* is represented by the set of events it sums.                            *)
(*                                                                         *)
(* Keys are [window, group] records, Vals are sets of events.              *)
(***************************************************************************)
EXTENDS Watermark

CONSTANTS
    Group,           \* (login, program, host, database) combinations
    Groupings,       \* which of them an event may belong to
    MayRollOver      \* may events roll off the session's files?

ASSUME WorkloadAssumption ==
    /\ Groupings \subseteq [Event -> Group]
    /\ MayRollOver \in BOOLEAN

VARIABLE groupOf     \* the group of each event, in this behaviour

workloadVars == <<groupOf, allVars>>

WorkloadTypeOK ==
    /\ WatermarkTypeOK
    /\ groupOf \in [Event -> Group]
    /\ stage \in [Event -> {"none", "buffer", "file", "gone"}]

-----------------------------------------------------------------------------
(* The Extended Events session *)

Complete(e) == Happen(e, "buffer")

\* Buffers reach the file in order, up to MAX_DISPATCH_LATENCY late.
Dispatch(e) == Move(e, "buffer", "file")

\* max_rollover_files: the oldest file is deleted.
RollOver(e) == MayRollOver /\ Move(e, "file", "gone")

-----------------------------------------------------------------------------
(* WorkloadCollector *)

\* Mutation: the window of a first run is the missing watermark.
WindowUnguarded(mark, events) == mark

\* transform: the events kept, their window, and one row per group.
Fresh(mark) == {e \in In("file") : After(e, mark)}
Window(mark, events) == IF mark # Null THEN mark ELSE ts[CHOOSE e \in Oldest(events) : TRUE]
Aggregates(mark, events) ==
    {[key |-> [window |-> Window(mark, events), group |-> g],
      val |-> {e \in events : groupOf[e] = g}] : g \in {groupOf[e] : e \in events}}

ReadEvents(p) ==
    /\ Comparable(watermark[p], In("file"))
    /\ Collect(p, In("file"), Aggregates(watermark[p], Fresh(watermark[p])))

CannotCompare(p) ==
    /\ ~Comparable(watermark[p], In("file"))
    /\ TransformRaises(p)

WorkloadInit == WatermarkInit /\ groupOf \in Groupings

WorkloadStep ==
    \/ \E e \in Event : Complete(e) \/ Dispatch(e) \/ RollOver(e)
    \/ \E p \in Invocations : ReadEvents(p) \/ CannotCompare(p)
    \/ Common

WorkloadNext == WorkloadStep /\ UNCHANGED groupOf

WorkloadSpec == WorkloadInit /\ [][WorkloadNext]_workloadVars

-----------------------------------------------------------------------------
(* Properties *)

Counting(e) == {k \in Keys : fact[Home][k] # NoVal /\ e \in fact[Home][k]}

\* "Each task is independent and idempotent, so a single failure neither duplicates data
\* nor blocks the others." (README.md:130): retries after failures, crashes and lost
\* replies overwrite the window they had begun, but for one case, and two others are no
\* failures. An event is summed in two rows of fact_workload only if
\*  - the earlier window began at an event that has rolled off, or
\*  - a run that read it had started, by the repository's clock, before the event
\*    happened by the monitored instance's, or
\*  - a run that read it had been overtaken by a successful one.
DoubleCountIsExplained ==
    \A e \in Event : \A k, l \in Counting(e) :
        k.window < l.window =>
            \/ \E f \in Event : stage[f] = "gone" /\ ts[f] = k.window
            \/ \E r \in DOMAIN hist : e \in saw[r].events /\ (saw[r].at < ts[e] \/ Overtaken(r))

\* Two runs landed the same window and group, one with the event and one without.
Overwritten(e) ==
    \E r, s \in DOMAIN hist : \E x \in hist[r].batch, y \in hist[s].landed :
        x.key = y.key /\ e \in x.val /\ e \notin y.val

\* An event at or under the watermark that is in no row was missed by a successful run
\* that stamped itself past it, since it reached the file after that run's fetch or had
\* left it before; or it was counted, and another run of the same window, which had not
\* counted it, was the last to land. Failures, retries and crashes lose nothing by
\* themselves.
LossIsExplained ==
    \A e \in Event : Passed(e) /\ Counting(e) = {} => Missed(e) \/ Overwritten(e)

\* "the watermark is the started_at_utc of the last successful 'workload' run [...] so
\* events at/under it are skipped": a run that has a watermark can filter by it.
WatermarkIsUsable == raised = {}
=============================================================================
