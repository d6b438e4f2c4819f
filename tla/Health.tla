------------------------------- MODULE Health -------------------------------
(***************************************************************************)
(* The health collector and rpt.health_summary.  Once a day (or more       *)
(* often) a run reads the last backups of a database, its state and its    *)
(* instance's failed jobs, and lands one row per date.  The view grades    *)
(* the latest row RED, AMBER or GREEN whenever somebody looks, against     *)
(* the clock of that moment: the row may be a day old, or much older if    *)
(* the collector has stopped.                                              *)
(*                                                                         *)
(* One database is modelled, the view partitions by database.  Time is     *)
(* counted in ticks from a midnight, UTC.                                  *)
(***************************************************************************)
EXTENDS Integers

CONSTANTS
    Runs,      \* invocations, which may overlap
    Hour,      \* ticks in an hour
    Day,       \* ticks in a day
    FullMax,   \* backup_full_max_age_hours
    LogMax,    \* backup_log_max_age_hours
    Zones,     \* local time of the monitored instance minus UTC, in ticks
    Null,      \* no backup
    MaxTime,   \* bound on the ticks of the clock
    MaxEvents  \* bound on what happens on the monitored instance

ASSUME HealthAssumption ==
    /\ Hour \in Nat \ {0}
    /\ Day \in Nat \ {0}
    /\ FullMax \in Nat
    /\ LogMax \in Nat
    /\ Zones \subseteq Int
    /\ Null \notin Int
    /\ MaxTime \in Nat
    /\ MaxEvents \in Nat

VARIABLES
    now,     \* SYSUTCDATETIME(), the same at every server
    zone,    \* the zone of the monitored instance
    model,   \* recovery_model
    faults,  \* state_desc other than ONLINE, failed jobs in the last 24 hours
    full,    \* when the last full backup finished
    log,     \* when the last log backup finished
    events,  \* history: how often something has happened to it
    got,     \* the row each run has read
    date,    \* its snapshot_date
    fact     \* fact_health: the row of each date

sourceVars == <<zone, model, faults, full, log, events>>
vars == <<now, sourceVars, got, date, fact>>

Times == Int \cup {Null}
HealthRow == [full : Times, log : Times, model : {"FULL", "SIMPLE"},
              faults : SUBSET {"offline", "jobs"}, read : Nat]

HealthTypeOK ==
    /\ now \in Nat
    /\ zone \in Int
    /\ model \in {"FULL", "SIMPLE"}
    /\ faults \subseteq {"offline", "jobs"}
    /\ full \in Nat \cup {Null}
    /\ log \in Nat \cup {Null}
    /\ events \in Nat
    /\ got \in [Runs -> HealthRow \cup {Null}]
    /\ date \in [Runs -> Nat \cup {Null}]
    /\ fact \subseteq [date : Nat, row : HealthRow]
    /\ \A x, y \in fact : x.date = y.date => x = y

\* MAX(b.backup_finish_date): msdb keeps it in the instance's local time.
Local(t) == IF t = Null THEN Null ELSE t + zone

\* _SOURCE_QUERY; `read` is history.
Reading == [full |-> Local(full), log |-> Local(log), model |-> model,
            faults |-> faults, read |-> now]

HealthInit ==
    /\ now = 0
    /\ zone \in Zones
    /\ model \in {"FULL", "SIMPLE"}
    /\ faults = {}
    /\ full = Null
    /\ log = Null
    /\ events = 0
    /\ got = [r \in Runs |-> Null]
    /\ date = [r \in Runs |-> Null]
    /\ fact = {}

-----------------------------------------------------------------------------
(* The monitored instance *)

Event ==
    /\ events < MaxEvents
    /\ events' = events + 1
    /\ UNCHANGED <<now, zone, model, got, date, fact>>

FullBackup ==
    /\ Event
    /\ "offline" \notin faults
    /\ full' = now
    /\ UNCHANGED <<faults, log>>

\* A log backup needs the full recovery model and a full backup to start from.
LogBackup ==
    /\ Event
    /\ "offline" \notin faults
    /\ model = "FULL"
    /\ full # Null
    /\ log' = now
    /\ UNCHANGED <<faults, full>>

\* The database goes offline or comes back, a job fails or its failure is a day old.
Turn(fault) ==
    /\ Event
    /\ faults' = IF fault \in faults THEN faults \ {fault} ELSE faults \cup {fault}
    /\ UNCHANGED <<full, log>>

Tick ==
    /\ now < MaxTime
    /\ now' = now + 1
    /\ UNCHANGED <<sourceVars, got, date, fact>>

-----------------------------------------------------------------------------
(* HealthCollector *)

Fetch(r) ==
    /\ got[r] = Null
    /\ got' = [got EXCEPT ![r] = Reading]
    /\ UNCHANGED <<now, sourceVars, date, fact>>

\* transform: _today(), UTC.
Stamp(r) ==
    /\ got[r] # Null
    /\ date[r] = Null
    /\ date' = [date EXCEPT ![r] = now \div Day]
    /\ UNCHANGED <<now, sourceVars, got, fact>>

End(r) ==
    /\ got' = [got EXCEPT ![r] = Null]
    /\ date' = [date EXCEPT ![r] = Null]

\* Mutation: a plain INSERT.
Inserted(table, new) == table \cup {new}

\* MERGE on snapshot_date.
Upserted(table, new) == {x \in table : x.date # new.date} \cup {new}

\* The row is committed, whether or not the run is reported a success.
Land(r) ==
    /\ date[r] # Null
    /\ fact' = Upserted(fact, [date |-> date[r], row |-> got[r]])
    /\ End(r)
    /\ UNCHANGED <<now, sourceVars>>

\* The run fails or dies with nothing committed: a batch has one row of the database.
Fail(r) ==
    /\ got[r] # Null
    /\ End(r)
    /\ UNCHANGED <<now, sourceVars, fact>>

HealthNext ==
    \/ FullBackup
    \/ LogBackup
    \/ \E fault \in {"offline", "jobs"} : Turn(fault)
    \/ Tick
    \/ \E r \in Runs : Fetch(r) \/ Stamp(r) \/ Land(r) \/ Fail(r)

HealthSpec == HealthInit /\ [][HealthNext]_vars

-----------------------------------------------------------------------------
(* rpt.health_summary *)

\* DATEDIFF(HOUR, t, u): the hour boundaries between them, not the hours elapsed.
DateDiffHour(t, u) == u \div Hour - t \div Hour

\* Mutation: only a missing backup counts.
OlderMissing(t, hours) == t = Null

\* Mutation: >= for >.
OlderEqual(t, hours) == t = Null \/ DateDiffHour(t, now) >= hours

Older(t, hours) == t = Null \/ DateDiffHour(t, now) > hours

\* latest_date, by database.
Shown == {x \in fact : \A y \in fact : y.date <= x.date}

\* Mutation: the full recovery model is asked for both kinds of backup.
RagFullModel(row) ==
    IF row.faults # {} THEN "RED"
    ELSE IF row.model = "FULL" /\ Older(row.full, FullMax) THEN "RED"
    ELSE IF row.model = "FULL" /\ Older(row.log, LogMax) THEN "AMBER"
    ELSE "GREEN"

Rag(row) ==
    IF row.faults # {} \/ Older(row.full, FullMax) THEN "RED"
    ELSE IF row.model = "FULL" /\ Older(row.log, LogMax) THEN "AMBER"
    ELSE "GREEN"

-----------------------------------------------------------------------------
(* Properties *)

\* "backup_full_max_age_hours: 24", "backup_log_max_age_hours: 4" (config.yaml): whatever
\* overlapping, failed or missing runs left in fact_health, GREEN is shown only while the
\* last full backup, and in the full recovery model the last log backup, is younger than
\* its limit and less than an hour (DATEDIFF counts boundaries).
GreenMeansBackedUp ==
    \A x \in Shown : Rag(x.row) = "GREEN" =>
        /\ full # Null /\ now - full < (FullMax + 1) * Hour
        /\ x.row.model = "FULL" => log # Null /\ now - log < (LogMax + 1) * Hour

\* A collector that has stopped is noticed: no reading stays GREEN for longer than the
\* limit of a full backup and an hour, although nothing in the view looks at its age.
SilenceTurnsRed ==
    \A x \in Shown : Rag(x.row) = "GREEN" => now - x.row.read < (FullMax + 1) * Hour

\* No alarm is early: while the shown row is still what the instance would answer, and
\* nothing is wrong, a backup within its limit is not reported.
NoEarlyAlarm ==
    \A x \in Shown :
        /\ x.row.faults = {}
        /\ x.row.full = full /\ full # Null /\ now - full <= FullMax * Hour
        /\ x.row.model = "FULL" => x.row.log = log /\ log # Null /\ now - log <= LogMax * Hour
        => Rag(x.row) = "GREEN"
=============================================================================
