---------------------------- MODULE CounterDeltas ----------------------------
(***************************************************************************)
(* The collectors of cumulative counters (waits, io_latency, table_access) *)
(* and the views that turn their snapshots into deltas.  The counters of   *)
(* the monitored instance grow, and restart at zero with it; those of a    *)
(* table also lose the part of an index that is dropped.  A                *)
(* collector reads them, stamps what it read later, in transform, and      *)
(* lands a raw snapshot; the view subtracts the previous snapshot, or      *)
(* takes the new value whole where it is below the previous one.           *)
(*                                                                         *)
(* One object (a wait type, a database file, a table) is modelled: the     *)
(* views partition by object.  Persisting is CollectionRun's concern; here *)
(* a run lands its row or does not.                                        *)
(***************************************************************************)
EXTENDS Integers

CONSTANTS
    Counter,    \* the object's counters, e.g. {"reads", "stall"}
    Step,       \* how the counters may grow together: a set of [Counter -> Nat]
    Part,       \* what a dropped index may take with it: a set of [Counter -> Nat]
    Runs,       \* invocations of the collector, which may overlap
    Keep,       \* retention of the snapshots, in ticks
    MaxTime,    \* bound on the ticks of the clock
    MaxWork,    \* bound on how often the counters grow
    MaxDrops    \* bound on how often the object loses a part

ASSUME CounterAssumption ==
    /\ Step \subseteq [Counter -> Nat]
    /\ Part \subseteq [Counter -> Nat]
    /\ Keep \in Nat
    /\ MaxTime \in Nat
    /\ MaxWork \in Nat
    /\ MaxDrops \in Nat

VARIABLES
    now,     \* UTC clock of the collector's host
    cum,     \* the counters, as the DMV shows them
    total,   \* history: what they would be had the instance never restarted
    boot,    \* history: number of restarts
    drops,   \* history: number of times the object lost a part
    work,    \* history: number of times they grew
    got,     \* what each run has fetched
    stamp,   \* its snapshot_time_utc (or snapshot_date)
    alone,   \* history: has no other run been under way during this one?
    pc,      \* where each run is
    snaps    \* the fact table: [at, cum], and the history of each row

sourceVars == <<cum, total, boot, drops, work>>
runVars == <<got, stamp, alone, pc>>
vars == <<now, sourceVars, runVars, snaps>>

Reading == [cum : [Counter -> Nat], total : [Counter -> Nat], boot : Nat, drops : Nat]
Snapshot == [at : Nat, read : Reading, alone : BOOLEAN]

CounterTypeOK ==
    /\ now \in Nat
    /\ cum \in [Counter -> Nat]
    /\ total \in [Counter -> Nat]
    /\ boot \in Nat
    /\ drops \in Nat
    /\ work \in Nat
    /\ got \in [Runs -> Reading]
    /\ stamp \in [Runs -> Nat]
    /\ alone \in [Runs -> BOOLEAN]
    /\ pc \in [Runs -> {"idle", "fetched", "stamped"}]
    /\ snaps \subseteq Snapshot

Live == [cum |-> cum, total |-> total, boot |-> boot, drops |-> drops]

Zero == [c \in Counter |-> 0]
Unread == [cum |-> Zero, total |-> Zero, boot |-> 0, drops |-> 0]

CounterInit ==
    /\ now = 0
    /\ cum = Zero
    /\ total = Zero
    /\ boot = 0
    /\ drops = 0
    /\ work = 0
    /\ got = [r \in Runs |-> Unread]
    /\ stamp = [r \in Runs |-> 0]
    /\ alone = [r \in Runs |-> TRUE]
    /\ pc = [r \in Runs |-> "idle"]
    /\ snaps = {}

-----------------------------------------------------------------------------
(* The monitored instance *)

Grow(step) ==
    /\ work < MaxWork
    /\ work' = work + 1
    /\ cum' = [c \in Counter |-> cum[c] + step[c]]
    /\ total' = [c \in Counter |-> total[c] + step[c]]
    /\ UNCHANGED <<now, boot, drops, runVars, snaps>>

Restart ==
    /\ \E c \in Counter : cum[c] > 0
    /\ cum' = Zero
    /\ boot' = boot + 1
    /\ UNCHANGED <<now, total, drops, work, runVars, snaps>>

\* The counters of a table are sums over its indexes: one is dropped, its part is gone.
DropIndex ==
    /\ drops < MaxDrops
    /\ \E part \in Part :
         /\ \A c \in Counter : part[c] <= cum[c]
         /\ cum' = [c \in Counter |-> cum[c] - part[c]]
    /\ drops' = drops + 1
    /\ UNCHANGED <<now, total, boot, work, runVars, snaps>>

-----------------------------------------------------------------------------
(* The collector *)

Busy == {q \in Runs : pc[q] # "idle"}

Fetch(r) ==
    /\ pc[r] = "idle"
    /\ alone' = [q \in Runs |-> IF q = r THEN Busy = {} ELSE alone[q] /\ q \notin Busy]
    /\ got' = [got EXCEPT ![r] = Live]
    /\ pc' = [pc EXCEPT ![r] = "fetched"]
    /\ UNCHANGED <<now, sourceVars, stamp, snaps>>

\* Mutation: local time, west of UTC.
StampLocal(r) ==
    /\ pc[r] = "fetched"
    /\ stamp' = [stamp EXCEPT ![r] = now - 1]
    /\ pc' = [pc EXCEPT ![r] = "stamped"]
    /\ UNCHANGED <<now, sourceVars, got, alone, snaps>>

\* transform takes _utcnow() (or _today()), after the fetch.
Stamp(r) ==
    /\ pc[r] = "fetched"
    /\ stamp' = [stamp EXCEPT ![r] = now]
    /\ pc' = [pc EXCEPT ![r] = "stamped"]
    /\ UNCHANGED <<now, sourceVars, got, alone, snaps>>

\* MERGE on the snapshot's time: a second run of the same day replaces the first.
Upserted(table, s) == {x \in table : x.at # s.at} \cup {s}

\* The process ends, with what it had read.
End(r) ==
    /\ got' = [got EXCEPT ![r] = Unread]
    /\ stamp' = [stamp EXCEPT ![r] = 0]
    /\ alone' = [alone EXCEPT ![r] = TRUE]
    /\ pc' = [pc EXCEPT ![r] = "idle"]

\* The row is committed, whether or not the run is reported a success.
Land(r) ==
    /\ pc[r] = "stamped"
    /\ snaps' = Upserted(snaps, [at |-> stamp[r], read |-> got[r], alone |-> alone[r]])
    /\ End(r)
    /\ UNCHANGED <<now, sourceVars>>

\* The run fails or dies with nothing committed: a batch has one row of the object.
Fail(r) ==
    /\ pc[r] # "idle"
    /\ End(r)
    /\ UNCHANGED <<now, sourceVars, snaps>>

Tick ==
    /\ now < MaxTime
    /\ now' = now + 1
    /\ UNCHANGED <<sourceVars, runVars, snaps>>

\* sql/retention.sql, one batch: any of the rows older than the horizon.
Purge ==
    /\ \E old \in SUBSET {s \in snaps : s.at < now - Keep} :
         /\ old # {}
         /\ snaps' = snaps \ old
    /\ UNCHANGED <<now, sourceVars, runVars>>

CounterNext ==
    \/ \E step \in Step : Grow(step)
    \/ Restart
    \/ DropIndex
    \/ \E r \in Runs : Fetch(r) \/ Stamp(r) \/ Land(r) \/ Fail(r)
    \/ Tick
    \/ Purge

CounterSpec == CounterInit /\ [][CounterNext]_vars

-----------------------------------------------------------------------------
(* The views *)

\* LAG(...) OVER (PARTITION BY ... ORDER BY snapshot_time_utc)
IsLag(p, s) ==
    /\ p.at < s.at
    /\ \A x \in snaps : x.at < s.at => x.at <= p.at

\* Mutation: a plain difference.
DeltaUnfloored(new, old) == new - old

\* Mutation: > for >=.
DeltaStrict(new, old) == IF new > old THEN new - old ELSE new

\* CASE WHEN cum >= prev THEN cum - prev ELSE cum END
Delta(new, old) == IF new >= old THEN new - old ELSE new

\* Mutation: the cumulative stall over the reads of the window.
AvgAtMostCumulative(p, s, stall, reads, bound) ==
    LET n == Delta(s.read.cum[reads], p.read.cum[reads])
    IN  n > 0 => s.read.cum[stall] <= bound * n

\* stall_delta / reads_delta <= bound, where the view computes it (reads_delta > 0).
AvgAtMost(p, s, stall, reads, bound) ==
    LET n == Delta(s.read.cum[reads], p.read.cum[reads])
        t == Delta(s.read.cum[stall], p.read.cum[stall])
    IN  n > 0 => t <= bound * n

-----------------------------------------------------------------------------
(* Properties *)

\* The order of two snapshots is the order of their readings, unless both runs overlapped
\* another: then one of them may have read first and stamped last. And no index was
\* dropped between them: the view takes what is left of the sum for a restart.
Comparable(p, s) ==
    /\ IsLag(p, s)
    /\ p.alone \/ s.alone
    /\ p.read.drops = s.read.drops

\* "Negative deltas: should never happen -- the delta views handle restarts"
\* (README.md:182): a delta is never negative, and a dashboard never shows more activity
\* than there was between the two snapshots it is computed from, whatever restarts,
\* failed runs, same-day reruns and purges came between. One run that overlapped nobody is
\* enough; between two that did, crossed readings look like a restart.
DeltaNeverOvercounts ==
    \A p, s \in snaps : IsLag(p, s) =>
        \A c \in Counter :
            LET delta == Delta(s.read.cum[c], p.read.cum[c])
            IN  /\ 0 <= delta
                /\ Comparable(p, s) => delta <= s.read.total[c] - p.read.total[c]

\* Between two snapshots with no restart in between the delta is exact, however many
\* runs failed or were purged between them.
DeltaExactWithoutRestart ==
    \A p, s \in snaps : Comparable(p, s) /\ p.read.boot = s.read.boot =>
        \A c \in Counter :
            Delta(s.read.cum[c], p.read.cum[c]) = s.read.total[c] - p.read.total[c]

\* "avg latency per IO for that window" (sql/rpt_views.sql:293): between two snapshots with
\* no restart in between the average is no more than the slowest IO there ever was. (The
\* view's columns decide about a restart one by one: across one it may be.)
MaxStall == 2
AvgLatencyIsPlausible ==
    \A p, s \in snaps : Comparable(p, s) /\ p.read.boot = s.read.boot =>
        AvgAtMost(p, s, "stall", "reads", MaxStall)
=============================================================================
