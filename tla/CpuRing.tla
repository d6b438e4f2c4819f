------------------------------ MODULE CpuRing ------------------------------
(***************************************************************************)
(* The cpu collector.  A monitored instance records its CPU usage once a   *)
(* minute in a ring buffer, stamped in ms since its start.  A run reads    *)
(* the tick count (the DECLARE of its batch), then the whole ring (the     *)
(* SELECT), turning the stamps into dates by the clock of that moment, and *)
(* lands one row per date.  Runs may overlap.                              *)
(*                                                                         *)
(* A sample is identified by the time it was taken; its percentages are    *)
(* not modelled.                                                           *)
(***************************************************************************)
EXTENDS Integers, Sequences

CONSTANTS
    Runs,       \* invocations of the collector
    Period,     \* from one sample to the next
    Capacity,   \* records the ring holds
    MaxDelay,   \* longest time between the two statements of a batch
    Keep,       \* retention of fact_cpu
    MaxTime,    \* bound on the clock
    Null,       \* nothing yet
    MaxBoots    \* bound on the restarts of the instance

ASSUME CpuAssumption ==
    /\ Period \in Nat \ {0}
    /\ Capacity \in Nat \ {0}
    /\ MaxDelay \in Nat /\ MaxDelay < Period
    /\ Keep \in Nat
    /\ MaxTime \in Nat
    /\ MaxBoots \in Nat
    /\ Null \notin Nat

VARIABLES
    clock,    \* SYSUTCDATETIME(), in ms
    ticks,    \* ms_ticks: ms since the start of the instance
    ring,     \* the ring buffer, oldest first: [ts, taken]
    boots,    \* history: number of restarts
    base,     \* @now of each run, Null before the DECLARE
    asked,    \* history: when it was read
    batch,    \* what the run has fetched, Null before the SELECT
    fact,     \* fact_cpu: [time, taken]
    owed      \* history: the samples that landed runs should have stored

sourceVars == <<ticks, ring, boots>>
runVars == <<base, asked, batch>>
vars == <<clock, sourceVars, runVars, fact, owed>>

Row == [time : Nat, taken : Nat]

CpuTypeOK ==
    /\ clock \in Nat
    /\ ticks \in 0 .. clock
    /\ ring \in Seq([ts : Nat, taken : Nat])
    /\ boots \in Nat
    /\ base \in [Runs -> Nat \cup {Null}]
    /\ asked \in [Runs -> Nat]
    /\ batch \in [Runs -> [rows : SUBSET Row, due : SUBSET Nat] \cup {Null}]
    /\ fact \subseteq Row
    /\ owed \subseteq Nat

CpuInit ==
    /\ clock = 0
    /\ ticks = 0
    /\ ring = <<>>
    /\ boots = 0
    /\ base = [r \in Runs |-> Null]
    /\ asked = [r \in Runs |-> 0]
    /\ batch = [r \in Runs |-> Null]
    /\ fact = {}
    /\ owed = {}

Between(r) == base[r] # Null /\ batch[r] = Null

-----------------------------------------------------------------------------
(* The monitored instance *)

\* A new record pushes out the oldest.
Recorded ==
    LET all == Append(ring, [ts |-> ticks + 1, taken |-> clock + 1])
    IN  IF Len(all) > Capacity THEN Tail(all) ELSE all

Pass ==
    /\ clock < MaxTime
    /\ \A r \in Runs : Between(r) => clock < asked[r] + MaxDelay
    /\ clock' = clock + 1
    /\ ticks' = ticks + 1
    /\ ring' = IF (ticks + 1) % Period = 0 THEN Recorded ELSE ring
    /\ UNCHANGED <<boots, runVars, fact, owed>>

\* The ring and the tick count start anew; a batch under way is cut off.
Restart ==
    /\ boots < MaxBoots
    /\ boots' = boots + 1
    /\ ticks' = 0
    /\ ring' = <<>>
    /\ base' = [r \in Runs |-> IF batch[r] = Null THEN Null ELSE base[r]]
    /\ UNCHANGED <<clock, asked, batch, fact, owed>>

-----------------------------------------------------------------------------
(* CpuCollector *)

\* DECLARE @now BIGINT = (SELECT ms_ticks ...)
ReadTicks(r) ==
    /\ base[r] = Null
    /\ base' = [base EXCEPT ![r] = ticks]
    /\ asked' = [asked EXCEPT ![r] = clock]
    /\ UNCHANGED <<clock, sourceVars, batch, fact, owed>>

\* Mutation: the clock is left out.
SampleTimeRelative(ts, b) == ts - b

\* Mutation: the age is added.
SampleTimeAhead(ts, b) == clock + (b - ts)

\* Mutation: DATEADD in whole minutes.
SampleTimeInMinutes(ts, b) == clock - ((b - ts) \div Period) * Period

\* DATEADD(ms, -1 * (@now - rb.[timestamp]), SYSUTCDATETIME())
SampleTime(ts, b) == clock - (b - ts)

Converted(b) ==
    {[time |-> SampleTime(ring[i].ts, b), taken |-> ring[i].taken] : i \in 1 .. Len(ring)}

\* History: the samples of the last Capacity periods of this life of the instance.
Recent ==
    {s \in clock - Capacity * Period + 1 .. clock :
        LET ts == ticks - (clock - s) IN ts > 0 /\ ts % Period = 0}

Fetch(r) ==
    /\ Between(r)
    /\ batch' = [batch EXCEPT ![r] = [rows |-> Converted(base[r]), due |-> Recent]]
    /\ UNCHANGED <<clock, sourceVars, base, asked, fact, owed>>

End(r) ==
    /\ base' = [base EXCEPT ![r] = Null]
    /\ asked' = [asked EXCEPT ![r] = 0]
    /\ batch' = [batch EXCEPT ![r] = Null]

\* MERGE on sample_time_utc.
Upserted(table, rows) == {x \in table : \A y \in rows : y.time # x.time} \cup rows

Land(r) ==
    /\ batch[r] # Null
    /\ fact' = Upserted(fact, batch[r].rows)
    /\ owed' = owed \cup batch[r].due
    /\ End(r)
    /\ UNCHANGED <<clock, sourceVars>>

\* A row is refused: finish_run, in the except branch, commits those executed before it.
FailPersisting(r) ==
    /\ batch[r] # Null
    /\ \E part \in (SUBSET batch[r].rows) \ {{}, batch[r].rows} : fact' = Upserted(fact, part)
    /\ End(r)
    /\ UNCHANGED <<clock, sourceVars, owed>>

\* The run fails, or dies, with nothing committed.
Fail(r) ==
    /\ base[r] # Null
    /\ End(r)
    /\ UNCHANGED <<clock, sourceVars, fact, owed>>

\* sql/retention.sql, one batch: any of the rows older than the horizon.
Purge ==
    /\ \E old \in SUBSET {x \in fact : x.time < clock - Keep} :
         /\ old # {}
         /\ fact' = fact \ old
    /\ UNCHANGED <<clock, sourceVars, runVars, owed>>

CpuNext ==
    \/ Pass
    \/ Restart
    \/ \E r \in Runs : ReadTicks(r) \/ Fetch(r) \/ Land(r) \/ FailPersisting(r) \/ Fail(r)
    \/ Purge

CpuSpec == CpuInit /\ [][CpuNext]_vars

-----------------------------------------------------------------------------
(* Properties *)

\* A date is computed from two clocks, read by two statements, by overlapping runs, across
\* restarts of one of them: it is never before the sample, and late by less than a period,
\* so that the history shows the samples in their order.
StampedNearby == \A x \in fact : x.time - x.taken \in 0 .. MaxDelay

\* "the ring buffer holds ~256 min -- poll at least that often" (README.md:178): a run that
\* lands stores every sample of the last Capacity periods; no other run's MERGE takes one
\* away, be that run a failed one that commits a part of its batch, and no purge before
\* its time.
PollCoversRing ==
    \A s \in owed : s >= clock - Keep => \E x \in fact : x.taken = s

\* "Returns ~256 minutes of per-minute history per poll; upsert by sample_time_utc
\* (idempotent)" (src/collectors/cpu.py:3): a sample that is polled again is the same row.
SampleStoredOnce == \A x, y \in fact : x.taken = y.taken => x = y
=============================================================================
