------------------------------ MODULE Samples ------------------------------
(***************************************************************************)
(* The point-in-time samplers: sessions, blocking and concurrency.  Each   *)
(* run reads the requests of one moment, stamps the rows with the time of  *)
(* transform and upserts them: one row per (login, program, host,          *)
(* database), one per blocked session, or one for the instance.  Counts    *)
(* and sums are represented by the set of requests they are taken over.    *)
(*                                                                         *)
(* A batch need not be proper here: Python groups names exactly, the MERGE *)
(* compares them in the repository's collation, and a session may have     *)
(* several blocked requests.                                               *)
(*                                                                         *)
(* Keys are [at, id] records, Vals are sets of requests.                   *)
(***************************************************************************)
EXTENDS CollectionRun

CONSTANTS
    Tasks,      \* which samplers
    Request,    \* requests that run on the monitored instance
    Returns,    \* which sets of them a source query may return
    SessionOf,  \* the session of each
    NameOf,     \* its (login, program, host, database)
    Collated,   \* what the repository's collation takes a name for
    Unnamed,    \* a name one of whose parts is NULL
    Overall,    \* the id of the row that counts all requests
    Keep        \* retention of the samples, in ticks

ASSUME SamplesAssumption ==
    /\ Tasks \subseteq {"sessions", "blocking", "concurrency"}
    /\ \A q \in Request : q \in DOMAIN SessionOf /\ q \in DOMAIN NameOf
    /\ \A q \in Request : NameOf[q] \in DOMAIN Collated
    /\ Returns \subseteq SUBSET Request
    /\ Keep \in Nat
    /\ Len(Monitored) = 1

VARIABLES
    task,     \* the task of this behaviour
    read,     \* history: what each invocation's fetch returned, and when
    taken     \* history: the same, per run_id

sampleVars == <<task, read, taken>>
allVars == <<vars, sampleVars>>

Home == Monitored[1]
Sample == [requests : SUBSET Request, at : Nat]

SamplesTypeOK ==
    /\ TypeOK
    /\ task \in Tasks
    /\ read \in [Invocations -> Sample]
    /\ taken \in [DOMAIN hist -> Sample]

Nothing == [requests |-> {}, at |-> 0]

SamplesInit ==
    /\ Init
    /\ task \in Tasks
    /\ read = [p \in Invocations |-> Nothing]
    /\ taken = [r \in {} |-> Nothing]

-----------------------------------------------------------------------------

RowFor(id, requests) == [key |-> [at |-> now, id |-> id], val |-> requests]

\* Mutation: grouped by the login alone, the other columns those of the group's first row.
SessionRowsByLogin(active) == {RowFor(Collated[NameOf[q]], {q}) : q \in active}

\* SessionsCollector.transform: one row per group, and names are compared exactly.
SessionRows(active) ==
    {RowFor(Collated[n], {q \in active : NameOf[q] = n}) : n \in {NameOf[q] : q \in active}}

\* Mutation: the session is not part of the key.
BlockingRowsByTime(blocked) == {RowFor(Overall, {q}) : q \in blocked}

\* BlockingCollector.transform: one row per blocked request, keyed by its session.
BlockingRows(blocked) == {RowFor(SessionOf[q], {q}) : q \in blocked}

\* Mutation: sample_time_utc in a zone west of UTC.
ConcurrencyRowsLocal(active) ==
    {[key |-> [at |-> now - 1, id |-> Overall], val |-> active]}

\* ConcurrencyCollector: the source query is a single row of counts.
ConcurrencyRows(active) == {RowFor(Overall, active)}

Batch(requests) ==
    CASE task = "sessions" -> SessionRows(requests)
      [] task = "blocking" -> BlockingRows(requests)
      [] task = "concurrency" -> ConcurrencyRows(requests)

\* Which requests run, or are blocked, changes between two samples in any way.
TakeSample(p) ==
    \E requests \in Returns :
        /\ Fetch(p, Batch(requests))
        /\ read' = [read EXCEPT ![p] = [requests |-> requests, at |-> now]]
        /\ UNCHANGED <<task, taken>>

\* A primary key takes no NULL: the MERGE of such a row is refused.
Refused(row) == row.key.id = Unnamed

\* The inherited steps. After start_run what was read is not used again.
Inherited(p) ==
    /\ Loop(p) \/ RunStep(p) \/ Failure(p)
    /\ \A row \in txn'[p] : ~Refused(row)
    /\ taken' = [r \in DOMAIN hist' |-> IF r \in DOMAIN hist THEN taken[r] ELSE read[p]]
    /\ read' = [read EXCEPT ![p] = Nothing]
    /\ UNCHANGED task

\* sql/retention.sql, one batch: any of the samples past their age.
Purge ==
    /\ \E old \in SUBSET {k \in Keys : fact[Home][k] # NoVal /\ k.at < now - Keep} :
         /\ old # {}
         /\ fact' = [fact EXCEPT ![Home] = [k \in Keys |-> IF k \in old THEN NoVal ELSE @[k]]]
    /\ UNCHANGED <<now, runs, nextId, hist, procVars, sampleVars>>

SamplesNext ==
    \/ \E p \in Invocations : TakeSample(p) \/ Inherited(p)
    \/ Purge
    \/ (Tick \/ AllEnded) /\ UNCHANGED sampleVars

SamplesSpec == SamplesInit /\ [][SamplesNext]_allVars

-----------------------------------------------------------------------------
(* Properties *)

\* Requests that the sampler keeps apart and the key of its table does not.
ShareKey(q, x) ==
    \/ task = "sessions" /\ NameOf[q] # NameOf[x] /\ Collated[NameOf[q]] = Collated[NameOf[x]]
    \/ task = "blocking" /\ q # x /\ SessionOf[q] = SessionOf[x]

Counted(x, time) == \E k \in Keys : k.at = time /\ fact[Home][k] # NoVal /\ x \in fact[Home][k]

\* An overlapping run of the same moment landed another row in the place of q's.
Displaced(r, q) ==
    \E x \in hist[r].batch : \E s \in DOMAIN hist \ {r} : \E y \in hist[s].landed :
        q \in x.val /\ y.key = x.key

\* A sample that collection_run calls a success counts every request there was at its
\* moment, but for those whose row another row of the same key replaced, its own or that of
\* an overlapping run, until it is purged; a concurrency sample is there even when nothing
\* ran. What a failed run committed of its batch is seen by nobody as a success.
SampleIsWhole ==
    \A r \in DOMAIN runs : runs[r].status = "success" =>
        LET sample == taken[r]
        IN  \/ sample.at < now - Keep
            \/ /\ \A q \in sample.requests :
                    \/ Displaced(r, q)
                    \/ \E x \in sample.requests : (x = q \/ ShareKey(q, x)) /\ Counted(x, sample.at)
               /\ task = "concurrency" =>
                    fact[Home][[at |-> sample.at, id |-> Overall]] # NoVal
=============================================================================
