----------------------------- MODULE Watermark -----------------------------
(***************************************************************************)
(* What the workload and the deadlocks collector share: both read events   *)
(* that the monitored instance has stamped, skip those at or under a       *)
(* watermark, the start of the last successful run as collection_run has   *)
(* it, and inherit everything else from Collector.                         *)
(*                                                                         *)
(* Two clocks meet here: events carry the monitored instance's, watermarks *)
(* the repository's.                                                       *)
(***************************************************************************)
EXTENDS CollectionRun

CONSTANTS
    Event,         \* what will happen on the monitored instance
    Setups         \* [skew, aware]: by how much its clock may be ahead of the repository's,
                   \* and whether the driver returns DATETIME2 as a timezone-aware value

ASSUME WatermarkAssumption ==
    /\ Setups \subseteq [skew : Int, aware : BOOLEAN]
    /\ Len(Monitored) = 1

VARIABLES
    setup,      \* the one of this behaviour
    stage,      \* where each event is on the monitored instance
    ts,         \* its timestamp
    watermark,  \* self._watermark of each invocation
    raised,     \* invocations whose transform raised
    seen,       \* history: the events each invocation's fetch returned
    saw,        \* history: the same, per run_id, with its watermark and started_at_utc
    succeeded   \* history: the run_ids that were ever closed as "success"

sourceVars == <<setup, stage, ts>>
markVars == <<watermark, raised, seen, saw, succeeded>>
wVars == <<sourceVars, markVars>>
allVars == <<vars, wVars>>

Unread == -2   \* the watermark query has not been executed
Home == Monitored[1]

SawRow == [events : SUBSET Event, mark : Nat \cup {Null, Unread}, at : Nat]

WatermarkTypeOK ==
    /\ TypeOK
    /\ setup \in Setups
    /\ ts \in [Event -> Nat]
    /\ watermark \in [Invocations -> Nat \cup {Null, Unread}]
    /\ raised \in SUBSET Invocations
    /\ seen \in [Invocations -> SUBSET Event]
    /\ saw \in [DOMAIN hist -> SawRow]
    /\ succeeded \in SUBSET DOMAIN hist

WatermarkInit ==
    /\ Init
    /\ setup \in Setups
    /\ stage = [e \in Event |-> "none"]
    /\ ts = [e \in Event |-> 0]
    /\ watermark = [p \in Invocations |-> Unread]
    /\ raised = {}
    /\ seen = [p \in Invocations |-> {}]
    /\ saw = [r \in {} |-> {}]
    /\ succeeded = {}

-----------------------------------------------------------------------------
(* The monitored instance *)

In(place) == {e \in Event : stage[e] = place}
Oldest(S) == {e \in S : \A f \in S : ts[e] <= ts[f]}

\* An event happens, and is stamped by the instance's clock.
Happen(e, place) ==
    /\ stage[e] = "none"
    /\ now + setup.skew >= 0
    /\ ts' = [ts EXCEPT ![e] = now + setup.skew]
    /\ stage' = [stage EXCEPT ![e] = place]
    /\ UNCHANGED <<vars, setup, markVars>>

\* The oldest events move on first.
Move(e, from, to) ==
    /\ e \in Oldest(In(from))
    /\ stage' = [stage EXCEPT ![e] = to]
    /\ UNCHANGED <<vars, setup, ts, markVars>>

-----------------------------------------------------------------------------
(* The collectors *)

\* Mutation: the query has no status = 'success'.
CandidatesOfAnyStatus == {r \in DOMAIN runs : runs[r].inst = Home}

\* _WATERMARK_QUERY: MAX(started_at_utc) of the successful runs, NULL if there is none.
Candidates == {r \in DOMAIN runs : runs[r].inst = Home /\ runs[r].status = "success"}
LatestStart(S) ==
    IF S = {} THEN Null
    ELSE CHOOSE t \in {runs[r].started : r \in S} : \A r \in S : runs[r].started <= t

\* run: the watermark is read before the source is, in a transaction of its own.
ReadWatermark(p) ==
    /\ pc[p] = "fetch"
    /\ watermark[p] = Unread
    /\ watermark' = [watermark EXCEPT ![p] = LatestStart(Candidates)]
    /\ UNCHANGED <<vars, sourceVars, raised, seen, saw, succeeded>>

\* Mutation: the filter is lost.
AfterAnything(e, mark) == mark \in Int

\* The filter of transform.
After(e, mark) == mark # Null => ts[e] > mark

\* Comparing an aware timestamp with a naive watermark is a TypeError.
Comparable(mark, events) == setup.aware \/ mark = Null \/ events = {}

\* fetch_rows returned the events, transform makes the batch of them.
Collect(p, events, batch) ==
    /\ watermark[p] # Unread
    /\ Fetch(p, batch)
    /\ seen' = [seen EXCEPT ![p] = events]
    /\ UNCHANGED <<sourceVars, watermark, raised, saw, succeeded>>

TransformRaises(p) ==
    /\ watermark[p] # Unread
    /\ FetchFails(p)
    /\ raised' = raised \cup {p}
    /\ UNCHANGED <<sourceVars, watermark, seen, saw, succeeded>>

\* The inherited steps. From start_run on the watermark is not used again, nor is what
\* was fetched.
Inherited(p) ==
    /\ Loop(p) \/ RunStep(p) \/ Failure(p)
    /\ saw' = [r \in DOMAIN hist' |->
                 IF r \in DOMAIN hist THEN saw[r]
                 ELSE [events |-> seen[p], mark |-> watermark[p], at |-> runs'[r].started]]
    /\ succeeded' = succeeded \cup {r \in DOMAIN runs' : runs'[r].status = "success"}
    /\ watermark' = [watermark EXCEPT ![p] = Unread]
    /\ seen' = [seen EXCEPT ![p] = {}]
    /\ UNCHANGED <<sourceVars, raised>>

\* What either collector inherits and what happens around it.
Common ==
    \/ \E p \in Invocations : ReadWatermark(p) \/ Inherited(p)
    \/ (Tick \/ AllEnded) /\ UNCHANGED wVars

-----------------------------------------------------------------------------
(* What properties of both speak of *)

Happened(e) == stage[e] # "none"

\* No later run will read the event.
Passed(e) == Happened(e) /\ ts[e] <= LatestStart(Candidates)

\* A successful run stamped itself at or past the event and had not seen it.
Missed(e) == \E r \in succeeded : ts[e] <= saw[r].at /\ e \notin saw[r].events

\* A run that started earlier succeeded after this one had read its watermark: they overlap.
Overtaken(r) == \E s \in succeeded : saw[r].mark < saw[s].at /\ saw[s].at < saw[r].at
=============================================================================
