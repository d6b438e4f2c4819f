--------------------------- MODULE DailySnapshot ---------------------------
(***************************************************************************)
(* The daily collectors of what each database holds (storage: tables,      *)
(* index_ops: index opportunities).  PerDatabaseCollector reads the        *)
(* databases of its instance one after the other, transform gives all rows *)
(* the date of that moment, and the rows are upserted by date and object.  *)
(* A row that is no longer true is never deleted: the views choose what    *)
(* counts as current.  Runs may overlap.                                   *)
(***************************************************************************)
EXTENDS Integers, Sequences

CONSTANTS
    Runs,        \* invocations of the collector
    Database,    \* user databases of the instance
    Object,      \* tables, or index opportunities
    HomeOf,      \* the database of each object
    Val,         \* sizes, scores
    ContentsOf,  \* the sets of rows that there may be about each object
    Configured,  \* possible monitored_instances[].databases, {} to discover them
    Keep,        \* retention, in days
    MaxDay,      \* bound on the days
    MaxEvents,   \* bound on what happens on the instance
    MaxRuns      \* no run begins once so many have committed rows

ASSUME DailyAssumption ==
    /\ HomeOf \in [Object -> Database]
    /\ ContentsOf \in [Object -> SUBSET SUBSET Val]
    /\ Configured \subseteq SUBSET Database
    /\ Keep \in Nat
    /\ MaxDay \in Nat
    /\ MaxEvents \in Nat
    /\ MaxRuns \in Nat

VARIABLES
    databases, \* the configured databases, or {}
    today,     \* UTC date
    online,    \* databases that can be used
    content,   \* the rows there are about each object: none, one, or, as a table
               \* may have several missing indexes, more
    events,    \* history: number of changes of the two
    phase,     \* of each run: "none", "reading" or "stamped"
    targets,   \* its target_databases()
    left,      \* those still to be read
    batch,     \* the rows read
    date,      \* their snapshot_date
    before,    \* history: the length of landed when it began
    fact,      \* the fact table
    landed     \* history: the commits, in their order: the rows of each, and whether
               \* they were the whole batch of the run

sourceVars == <<databases, online, content, events>>
runVars == <<phase, targets, left, batch, date, before>>
vars == <<today, sourceVars, runVars, fact, landed>>

Row == [obj : Object, val : Val]
Landed ==
    [date : Nat, rows : SUBSET Row, read : SUBSET Database, before : Nat, whole : BOOLEAN]

DailyTypeOK ==
    /\ databases \subseteq Database
    /\ today \in Nat
    /\ online \subseteq Database
    /\ content \in [Object -> SUBSET Val]
    /\ events \in Nat
    /\ phase \in [Runs -> {"none", "reading", "stamped"}]
    /\ targets \in [Runs -> SUBSET Database]
    /\ left \in [Runs -> SUBSET Database]
    /\ batch \in [Runs -> SUBSET Row]
    /\ date \in [Runs -> 0 .. today]
    /\ before \in [Runs -> Nat]
    /\ fact \subseteq [date : Nat, obj : Object, val : Val]
    /\ landed \in Seq(Landed)

DailyInit ==
    /\ databases \in Configured
    /\ today = 0
    /\ online = Database
    /\ content \in [Object -> SUBSET Val]
    /\ \A o \in Object : content[o] \in ContentsOf[o]
    /\ events = 0
    /\ phase = [r \in Runs |-> "none"]
    /\ targets = [r \in Runs |-> {}]
    /\ left = [r \in Runs |-> {}]
    /\ batch = [r \in Runs |-> {}]
    /\ date = [r \in Runs |-> 0]
    /\ before = [r \in Runs |-> 0]
    /\ fact = {}
    /\ landed = <<>>

-----------------------------------------------------------------------------
(* The monitored instance, and time *)

Event ==
    /\ events < MaxEvents
    /\ events' = events + 1
    /\ UNCHANGED <<databases, today, runVars, fact, landed>>

Change(o, values) ==
    /\ Event
    /\ values \in ContentsOf[o] \ {content[o]}
    /\ content' = [content EXCEPT ![o] = values]
    /\ UNCHANGED online

Switch(d) ==
    /\ Event
    /\ online' = IF d \in online THEN online \ {d} ELSE online \cup {d}
    /\ UNCHANGED content

Midnight ==
    /\ today < MaxDay
    /\ today' = today + 1
    /\ UNCHANGED <<sourceVars, runVars, fact, landed>>

-----------------------------------------------------------------------------
(* PerDatabaseCollector *)

\* target_databases: the configured ones, else those online.
Begin(r) ==
    /\ phase[r] = "none"
    /\ Len(landed) < MaxRuns
    /\ phase' = [phase EXCEPT ![r] = "reading"]
    /\ targets' = [targets EXCEPT ![r] = IF databases # {} THEN databases ELSE online]
    /\ left' = [left EXCEPT ![r] = targets'[r]]
    /\ before' = [before EXCEPT ![r] = Len(landed)]
    /\ UNCHANGED <<today, sourceVars, batch, date, fact, landed>>

\* USE [db]; source_query(), in any order.
ReadDatabase(r, d) ==
    /\ d \in left[r] \cap online
    /\ left' = [left EXCEPT ![r] = @ \ {d}]
    /\ batch' = [batch EXCEPT
          ![r] = @ \cup {x \in Row : HomeOf[x.obj] = d /\ x.val \in content[x.obj]}]
    /\ UNCHANGED <<today, sourceVars, phase, targets, date, before, fact, landed>>

\* Mutation: local date, east of UTC.
StampAhead(r) ==
    /\ phase[r] = "reading"
    /\ left[r] = {}
    /\ phase' = [phase EXCEPT ![r] = "stamped"]
    /\ date' = [date EXCEPT ![r] = today + 1]
    /\ UNCHANGED <<today, sourceVars, targets, left, batch, before, fact, landed>>

\* transform, after the last database.
Stamp(r) ==
    /\ phase[r] = "reading"
    /\ left[r] = {}
    /\ phase' = [phase EXCEPT ![r] = "stamped"]
    /\ date' = [date EXCEPT ![r] = today]
    /\ UNCHANGED <<today, sourceVars, targets, left, batch, before, fact, landed>>

End(r) ==
    /\ phase' = [phase EXCEPT ![r] = "none"]
    /\ targets' = [targets EXCEPT ![r] = {}]
    /\ left' = [left EXCEPT ![r] = {}]
    /\ batch' = [batch EXCEPT ![r] = {}]
    /\ date' = [date EXCEPT ![r] = 0]
    /\ before' = [before EXCEPT ![r] = 0]

\* Mutation: INSERT of what is not there yet.
UpsertedIfNew(table, rows) ==
    table \cup {x \in rows : \A y \in table : y.date # x.date \/ y.obj # x.obj}

\* MERGE by date and object.
Upserted(table, rows) ==
    {x \in table : \A y \in rows : y.date # x.date \/ y.obj # x.obj} \cup rows

\* The rows are executed one by one, and committed: of several with the same key the last
\* one executed stays.
Commit(r, rows) ==
    /\ \E last \in [{x.obj : x \in rows} -> Val] :
         /\ \A o \in DOMAIN last : [obj |-> o, val |-> last[o]] \in rows
         /\ fact' = Upserted(fact, {[date |-> date[r], obj |-> o, val |-> last[o]] :
                                      o \in DOMAIN last})
    /\ landed' = Append(landed, [date |-> date[r], rows |-> rows, read |-> targets[r],
                                 before |-> before[r], whole |-> rows = batch[r]])

\* _persist got through, and its commit; what becomes of finish_run is not told apart here.
Land(r) ==
    /\ phase[r] = "stamped"
    /\ Commit(r, batch[r])
    /\ End(r)
    /\ UNCHANGED <<today, sourceVars>>

\* A row is refused: finish_run, in the except branch, commits those executed before it.
FailPersisting(r) ==
    /\ phase[r] = "stamped"
    /\ \E part \in (SUBSET batch[r]) \ {{}, batch[r]} : Commit(r, part)
    /\ End(r)
    /\ UNCHANGED <<today, sourceVars>>

\* One of the databases is offline, or the run fails otherwise, or dies, with nothing
\* committed.
Fail(r) ==
    /\ phase[r] # "none"
    /\ End(r)
    /\ UNCHANGED <<today, sourceVars, fact, landed>>

\* sql/retention.sql, one batch: any of the rows older than the horizon.
Purge ==
    /\ \E old \in SUBSET {x \in fact : x.date < today - Keep} :
         /\ old # {}
         /\ fact' = fact \ old
    /\ UNCHANGED <<today, sourceVars, runVars, landed>>

DailyNext ==
    \/ \E o \in Object, values \in SUBSET Val : Change(o, values)
    \/ \E d \in Database : Switch(d)
    \/ \E r \in Runs : \/ Begin(r)
                       \/ \E d \in Database : ReadDatabase(r, d)
                       \/ Stamp(r)
                       \/ Land(r)
                       \/ FailPersisting(r)
                       \/ Fail(r)
    \/ Midnight
    \/ Purge

DailySpec == DailyInit /\ [][DailyNext]_vars

-----------------------------------------------------------------------------
(* The views *)

\* rpt.table_storage_latest: ROW_NUMBER() by table.
TableStorageLatest ==
    {x \in fact : \A y \in fact : y.obj = x.obj => y.date <= x.date}

\* Mutation: the latest row of each object.
OpportunitiesByObject == TableStorageLatest

\* rpt.index_opportunities: the rows of the latest date of their database.
IndexOpportunities ==
    {x \in fact : \A y \in fact : HomeOf[y.obj] = HomeOf[x.obj] => y.date <= x.date}

-----------------------------------------------------------------------------
(* Properties *)

\* The runs that stored a row of the object, or of the database, and those that stored all
\* there was in the database.
Stored(o) == {i \in DOMAIN landed : \E x \in landed[i].rows : x.obj = o}
StoredFrom(d) == {i \in DOMAIN landed : \E x \in landed[i].rows : HomeOf[x.obj] = d}
LandedFrom(d) == {i \in DOMAIN landed : landed[i].whole /\ d \in landed[i].read}

\* Of the runs S, the last to commit of those with the latest date.
Latest(S) ==
    {i \in S : \A j \in S :
        landed[j].date < landed[i].date \/ (landed[j].date = landed[i].date /\ j <= i)}

\* No run of S has begun after i had committed.
UpToDate(i, S) == \A j \in S : landed[j].before < i

\* rpt.table_storage_latest shows a table as the last run found it that stored a row of it,
\* or one that this run overlapped, whether or not the rest of its batch was stored too:
\* overlaps, same-day reruns, runs that fail before, between or after their rows, and purges
\* notwithstanding, until that row's retention ends. (From then on the purge, whose batches
\* are in no order, may bring an older row back while it lasts.)
StorageShowsLastSeen ==
    \A o \in Object : \A i \in Latest(Stored(o)) :
        LET shown == {x \in TableStorageLatest : x.obj = o}
        IN  landed[i].date >= today - Keep =>
              /\ shown # {}
              /\ \A x \in shown :
                    x.date = landed[i].date /\ [obj |-> o, val |-> x.val] \in landed[i].rows
              /\ UpToDate(i, Stored(o))

\* "latest fact_index_ops snapshot per (instance, database)" (sql/rpt_views.sql:168): if the
\* last run to land over a database found opportunities there, rpt.index_opportunities shows
\* them, and of others only those that another run of the same day had found, unless a
\* run of a later date failed over its rows and left some of this database: then the view
\* shows rows of such runs only. (If the last run found none, an older date stays.) No
\* later run has landed over the database, unless it overlapped that one.
OpportunitiesShowLastRun ==
    \A d \in Database : \A i \in Latest(LandedFrom(d)) :
        LET found == {x \in landed[i].rows : HomeOf[x.obj] = d}
            shown == {x \in IndexOpportunities : HomeOf[x.obj] = d}
            sameDay == {j \in StoredFrom(d) : landed[j].date = landed[i].date}
            cutOff == {j \in StoredFrom(d) : ~landed[j].whole /\ landed[j].date > landed[i].date}
        IN  found # {} /\ landed[i].date >= today - Keep =>
              /\ cutOff = {} => \A x \in found : \E y \in shown : y.obj = x.obj
              /\ \A x \in shown : \E j \in IF cutOff = {} THEN sameDay ELSE cutOff :
                   landed[j].date = x.date /\ [obj |-> x.obj, val |-> x.val] \in landed[j].rows
              /\ UpToDate(i, LandedFrom(d))
=============================================================================
