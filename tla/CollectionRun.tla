---------------------------- MODULE CollectionRun ----------------------------
(***************************************************************************)
(* One scheduled task of the collector: `python run.py --task T`.  main()  *)
(* loops over the configured instances; for each it connects, runs         *)
(* Collector.run (fetch, transform, start_run, _persist, finish_run) and   *)
(* closes both connections.  The repository is SQL Server through pyodbc   *)
(* with autocommit off: every statement belongs to the transaction opened  *)
(* since the last commit of its connection, closing a connection rolls its *)
(* transaction back, and a MERGE waits for another transaction's row lock. *)
(*                                                                         *)
(* Several invocations of the same task may be alive at once: cron starts  *)
(* the next one whether or not the previous one has ended.                 *)
(***************************************************************************)
EXTENDS Integers, Sequences, FiniteSets

CONSTANTS
    Inst,         \* values of source_instance
    Monitored,    \* config["monitored_instances"], in order; names that config.py takes for
                  \* different may be one source_instance in the repository's collation
    Invocations,  \* the processes the scheduler starts, one per due time
    Keys,         \* key values of the task's fact table, source_instance left out
    Vals,         \* contents of its other columns
    Batches,      \* the batches fetch and transform may produce
    NoVal,        \* "no row with this key"
    DryRuns,      \* values --dry-run may have
    Overlap,      \* may the scheduler start an invocation while another is alive?
    MaxTime,      \* bound on the ticks of the clock
    MaxRuns       \* bound on the IDENTITY column run_id

ASSUME MonitoredAssumption ==
    /\ Monitored \in Seq(Inst)
    /\ Len(Monitored) > 0                  \* _validate_monitored_instances

ASSUME BoundsAssumption ==
    /\ MaxTime \in Nat /\ MaxRuns \in Nat
    /\ Overlap \in BOOLEAN /\ DryRuns \subseteq BOOLEAN

Row == [key : Keys, val : Vals]

KeysDiffer(b) == \A x, y \in b : x.key = y.key => x = y

\* One row per key, and finitely many.
Proper(b) == IsFiniteSet(b) /\ KeysDiffer(b)

ASSUME BatchesAssumption ==
    /\ Batches \subseteq SUBSET Row
    /\ \A b \in Batches : Proper(b)

ASSUME NoValAssumption == NoVal \notin Vals

VARIABLES
    now,       \* SYSUTCDATETIME() of the repository
    runs,      \* dbo.collection_run: run_id -> row
    nextId,    \* next IDENTITY value
    fact,      \* committed rows of the task's fact table
    pc,        \* where each invocation is
    at,        \* index of its current instance
    dry,       \* its --dry-run flag
    todo,      \* rows its _persist loop has not executed yet
    txn,       \* rows executed in its open transaction
    lost,      \* its repository connection is broken
    runId,     \* local variable run_id (0: not assigned)
    reported,  \* what main() printed for each instance
    exitCode,  \* exit_code
    hist       \* history: run_id -> who opened it, for which batch, what landed

procVars == <<pc, at, dry, todo, txn, lost, runId, reported, exitCode>>
repoVars == <<runs, nextId, fact, hist>>
vars == <<now, repoVars, procVars>>

Null == -1
Places == 1 .. Len(Monitored)
Statuses == {"running", "success", "failed"}
RunRow == [inst : Inst, started : Nat, status : Statuses, count : Nat \cup {Null}]
HistRow == [by : Invocations, place : Places, batch : SUBSET Row, landed : SUBSET Row]
Pcs == {"idle", "connect", "fetch", "start", "persist", "finish", "fail",
        "close", "done", "dead"}

TypeOK ==
    /\ now \in Nat
    /\ nextId \in Nat \ {0}
    /\ DOMAIN runs \subseteq 1 .. nextId - 1
    /\ runs \in [DOMAIN runs -> RunRow]
    /\ DOMAIN hist = 1 .. nextId - 1
    /\ hist \in [DOMAIN hist -> HistRow]
    /\ fact \in [Inst -> [Keys -> Vals \cup {NoVal}]]
    /\ pc \in [Invocations -> Pcs]
    /\ at \in [Invocations -> 0 .. Len(Monitored)]
    /\ dry \in [Invocations -> BOOLEAN]
    /\ todo \in [Invocations -> SUBSET Row]
    /\ txn \in [Invocations -> SUBSET Row]
    /\ lost \in [Invocations -> BOOLEAN]
    /\ runId \in [Invocations -> 0 .. nextId - 1]
    /\ reported \in [Invocations -> [Places -> {"none", "ok", "failed"}]]
    /\ exitCode \in [Invocations -> {0, 1}]

Init ==
    /\ now = 0
    /\ nextId = 1
    /\ runs = [r \in {} |-> {}]
    /\ hist = [r \in {} |-> {}]
    /\ fact = [i \in Inst |-> [k \in Keys |-> NoVal]]
    /\ pc = [p \in Invocations |-> "idle"]
    /\ at = [p \in Invocations |-> 0]
    /\ dry = [p \in Invocations |-> FALSE]
    /\ todo = [p \in Invocations |-> {}]
    /\ txn = [p \in Invocations |-> {}]
    /\ lost = [p \in Invocations |-> FALSE]
    /\ runId = [p \in Invocations |-> 0]
    /\ reported = [p \in Invocations |-> [i \in Places |-> "none"]]
    /\ exitCode = [p \in Invocations |-> 0]

-----------------------------------------------------------------------------
(* Helpers *)

Active(p) == pc[p] \notin {"idle", "done", "dead"}
Source(p) == Monitored[at[p]]
Goto(p, l) == pc' = [pc EXCEPT ![p] = l]

\* Mutation: the MERGE also deletes the instance's rows that the batch does not have.
MergedReplacing(table, i, rows) ==
    [table EXCEPT ![i] =
        [k \in Keys |-> IF \E row \in rows : row.key = k
                        THEN (CHOOSE row \in rows : row.key = k).val
                        ELSE NoVal]]

\* MERGE of a set of rows with distinct keys into one instance's part of a table.
Merged(table, i, rows) ==
    [table EXCEPT ![i] =
        [k \in Keys |-> IF \E row \in rows : row.key = k
                        THEN (CHOOSE row \in rows : row.key = k).val
                        ELSE table[i][k]]]

\* A MERGE in an open transaction: an earlier one of the same key is overwritten.
Executed(done, row) == {x \in done : x.key # row.key} \cup {row}

\* Another transaction holds the lock on the key.
Locked(p, k) ==
    \E q \in Invocations \ {p} :
        \E row \in txn[q] : row.key = k /\ Source(q) = Source(p)

\* conn.commit() of p's repository connection: what it executed becomes durable.
CommitTxn(p) ==
    /\ fact' = IF txn[p] = {} THEN fact ELSE Merged(fact, Source(p), txn[p])
    /\ hist' = IF txn[p] = {} THEN hist
               ELSE [hist EXCEPT ![runId[p]].landed = @ \cup txn[p]]
    /\ txn' = [txn EXCEPT ![p] = {}]

\* Mutation: close() forgotten, the locks stay.
RollbackForgotten(p) == UNCHANGED txn

Rollback(p) == txn' = [txn EXCEPT ![p] = {}]

\* db.start_run: the INSERT takes its stamp after everything fetched before it.
InsertRun(p) ==
    /\ nextId <= MaxRuns
    /\ now' = now + 1
    /\ nextId' = nextId + 1
    /\ runs' = [r \in DOMAIN runs \cup {nextId} |->
                  IF r = nextId
                  THEN [inst |-> Source(p), started |-> now + 1,
                        status |-> "running", count |-> Null]
                  ELSE runs[r]]
    /\ hist' = [r \in DOMAIN hist \cup {nextId} |->
                  IF r = nextId
                  THEN [by |-> p, place |-> at[p], batch |-> todo[p], landed |-> {}]
                  ELSE hist[r]]

\* Mutation: a status that nothing else in the repository knows.
FinishedMisnamed(r, status, n) ==
    [x \in DOMAIN runs |->
        IF x = r THEN [runs[x] EXCEPT !.status = IF status = "success" THEN "done" ELSE status,
                                      !.count = n]
        ELSE runs[x]]

\* Mutation: the UPDATE has no WHERE clause.
FinishedEverywhere(r, status, n) ==
    [x \in DOMAIN runs |-> [runs[x] EXCEPT !.status = status, !.count = n]]

\* db.finish_run: UPDATE ... WHERE run_id = ?
Finished(r, status, n) ==
    [x \in DOMAIN runs |->
        IF x = r THEN [runs[x] EXCEPT !.status = status, !.count = n] ELSE runs[x]]

\* The handler in main(): report the failure, exit code 1, go on to `finally`.
Raise(p) ==
    /\ reported' = [reported EXCEPT ![p][at[p]] = "failed"]
    /\ exitCode' = [exitCode EXCEPT ![p] = 1]
    /\ Goto(p, "close")

\* Collector.run returned: report the row count.
Return(p) ==
    /\ reported' = [reported EXCEPT ![p][at[p]] = "ok"]
    /\ Goto(p, "close")
    /\ UNCHANGED exitCode

-----------------------------------------------------------------------------
(* main() *)

MayStart(p) ==
    /\ pc[p] = "idle"
    /\ Overlap \/ \A q \in Invocations : ~Active(q)

Launch(p) ==
    /\ MayStart(p)
    /\ \E d \in DryRuns : dry' = [dry EXCEPT ![p] = d]
    /\ at' = [at EXCEPT ![p] = 1]
    /\ Goto(p, "connect")
    /\ UNCHANGED <<now, repoVars, todo, txn, lost, runId, reported, exitCode>>

\* load_config raises outside the loop: the process exits before any instance.
ConfigRejected(p) ==
    /\ MayStart(p)
    /\ exitCode' = [exitCode EXCEPT ![p] = 1]
    /\ Goto(p, "done")
    /\ UNCHANGED <<now, repoVars, at, dry, todo, txn, lost, runId, reported>>

\* Mutation: `exit_code = 0` moves into the loop.
ConnectAfresh(p) ==
    /\ pc[p] = "connect"
    /\ exitCode' = [exitCode EXCEPT ![p] = 0]
    /\ Goto(p, "fetch")
    /\ UNCHANGED <<now, repoVars, at, dry, todo, txn, lost, runId, reported>>

Connect(p) ==
    /\ pc[p] = "connect"
    /\ Goto(p, "fetch")
    /\ UNCHANGED <<now, repoVars, at, dry, todo, txn, lost, runId, reported, exitCode>>

ConnectFails(p) ==
    /\ pc[p] = "connect"
    /\ Raise(p)
    /\ UNCHANGED <<now, repoVars, at, dry, todo, txn, lost, runId>>

\* Mutation: the loop stops at the first failure.
AfterInstanceUnlessFailed(p) ==
    IF at[p] < Len(Monitored) /\ exitCode[p] = 0 THEN "connect" ELSE "done"

\* `finally`: both connections are closed, then the loop goes on.
AfterInstance(p) == IF at[p] < Len(Monitored) THEN "connect" ELSE "done"

Close(p) ==
    /\ pc[p] = "close"
    /\ Rollback(p)
    /\ todo' = [todo EXCEPT ![p] = {}]
    /\ lost' = [lost EXCEPT ![p] = FALSE]
    /\ runId' = [runId EXCEPT ![p] = 0]
    /\ at' = IF at[p] < Len(Monitored) THEN [at EXCEPT ![p] = @ + 1] ELSE at
    /\ Goto(p, AfterInstance(p))
    /\ UNCHANGED <<now, repoVars, dry, reported, exitCode>>

-----------------------------------------------------------------------------
(* Collector.run *)

\* Mutation: the dry-run test is lost.
FetchAlwaysWrites(p, batch) ==
    /\ pc[p] = "fetch"
    /\ todo' = [todo EXCEPT ![p] = batch]
    /\ Goto(p, "start")
    /\ UNCHANGED <<now, repoVars, at, dry, txn, lost, runId, reported, exitCode>>

\* fetch_rows and transform; a dry run returns here.
Fetch(p, batch) ==
    /\ pc[p] = "fetch"
    /\ IF dry[p]
       THEN Return(p) /\ UNCHANGED todo
       ELSE /\ todo' = [todo EXCEPT ![p] = batch]
            /\ Goto(p, "start")
            /\ UNCHANGED <<reported, exitCode>>
    /\ UNCHANGED <<now, repoVars, at, dry, txn, lost, runId>>

FetchFails(p) ==
    /\ pc[p] = "fetch"
    /\ Raise(p)
    /\ UNCHANGED <<now, repoVars, at, dry, todo, txn, lost, runId>>

StartRun(p) ==
    /\ pc[p] = "start"
    /\ InsertRun(p)
    /\ runId' = [runId EXCEPT ![p] = nextId]
    /\ Goto(p, "persist")
    /\ UNCHANGED <<fact, at, dry, todo, txn, lost, reported, exitCode>>

\* start_run raises; its row may be there all the same (the commit took effect,
\* the reply was lost), and run_id is then never assigned.
StartRunFails(p) ==
    /\ pc[p] = "start"
    /\ \/ InsertRun(p)
       \/ UNCHANGED <<now, runs, nextId, hist>>
    /\ Raise(p)
    /\ UNCHANGED <<fact, at, dry, todo, txn, lost, runId>>

\* One cursor.execute of _persist.
Merge(p, row) ==
    /\ pc[p] = "persist"
    /\ row \in todo[p]
    /\ ~Locked(p, row.key)
    /\ txn' = [txn EXCEPT ![p] = Executed(@, row)]
    /\ todo' = [todo EXCEPT ![p] = @ \ {row}]
    /\ UNCHANGED <<now, repoVars, pc, at, dry, lost, runId, reported, exitCode>>

\* Mutation: _persist swallows the exception.
OnPersistErrorSwallowed(p) == Goto(p, "finish")

\* A statement is refused (a NULL, an overflow, a timeout): the transaction keeps
\* the statements before it.
OnPersistError(p) == Goto(p, "fail")

MergeRejected(p) ==
    /\ pc[p] = "persist"
    /\ todo[p] # {}
    /\ OnPersistError(p)
    /\ UNCHANGED <<now, repoVars, at, dry, todo, txn, lost, runId, reported, exitCode>>

\* The server rolls the transaction back (deadlock victim, log full) but the
\* connection stays usable.
TransactionAborted(p) ==
    /\ pc[p] = "persist"
    /\ txn[p] \cup todo[p] # {}
    /\ Rollback(p)
    /\ OnPersistError(p)
    /\ UNCHANGED <<now, repoVars, at, dry, todo, lost, runId, reported, exitCode>>

ConnectionLost(p) ==
    /\ pc[p] = "persist"
    /\ Rollback(p)
    /\ lost' = [lost EXCEPT ![p] = TRUE]
    /\ OnPersistError(p)
    /\ UNCHANGED <<now, repoVars, at, dry, todo, runId, reported, exitCode>>

CommitBatch(p) ==
    /\ pc[p] = "persist"
    /\ todo[p] = {}
    /\ CommitTxn(p)
    /\ Goto(p, "finish")
    /\ UNCHANGED <<now, runs, nextId, at, dry, todo, lost, runId, reported, exitCode>>

\* The commit took effect and the connection broke before the reply.
CommitUnacknowledged(p) ==
    /\ pc[p] = "persist"
    /\ todo[p] = {}
    /\ CommitTxn(p)
    /\ lost' = [lost EXCEPT ![p] = TRUE]
    /\ OnPersistError(p)
    /\ UNCHANGED <<now, runs, nextId, at, dry, todo, runId, reported, exitCode>>

\* The `else` branch: finish_run("success").
FinishSuccess(p) ==
    /\ pc[p] = "finish"
    /\ runs' = Finished(runId[p], "success", Cardinality(hist[runId[p]].batch))
    /\ Return(p)
    /\ UNCHANGED <<now, nextId, fact, hist, at, dry, todo, txn, lost, runId>>

\* finish_run("success") raises, outside the `try`: nothing marks the row failed.
FinishSuccessFails(p) ==
    /\ pc[p] = "finish"
    /\ runs' \in {runs, Finished(runId[p], "success", Cardinality(hist[runId[p]].batch))}
    /\ Raise(p)
    /\ UNCHANGED <<now, nextId, fact, hist, at, dry, todo, txn, lost, runId>>

\* Mutation: the handler opens a new connection to mark the row failed.
FinishFailedReconnecting(p) ==
    /\ pc[p] = "fail"
    /\ runs' = Finished(runId[p], "failed", Null)
    /\ CommitTxn(p)
    /\ Raise(p)
    /\ UNCHANGED <<now, nextId, at, dry, todo, lost, runId>>

\* The `except` branch: finish_run("failed") on the connection whose transaction
\* nobody rolled back, so its commit makes the executed MERGEs durable too.
FinishFailed(p) ==
    /\ pc[p] = "fail"
    /\ ~lost[p]
    /\ runs' = Finished(runId[p], "failed", Null)
    /\ CommitTxn(p)
    /\ Raise(p)
    /\ UNCHANGED <<now, nextId, at, dry, todo, lost, runId>>

\* Mutation: an error of finish_run("failed") is swallowed and run() returns.
FinishFailedSwallowed(p) ==
    /\ pc[p] = "fail"
    /\ \/ UNCHANGED <<runs, fact, hist, txn>>
       \/ /\ ~lost[p]
          /\ runs' = Finished(runId[p], "failed", Null)
          /\ CommitTxn(p)
    /\ Return(p)
    /\ UNCHANGED <<now, nextId, at, dry, todo, lost, runId>>

\* finish_run("failed") itself raises, before or after its commit took effect.
FinishFailedFails(p) ==
    /\ pc[p] = "fail"
    /\ \/ UNCHANGED <<runs, fact, hist, txn>>
       \/ /\ ~lost[p]
          /\ runs' = Finished(runId[p], "failed", Null)
          /\ CommitTxn(p)
    /\ Raise(p)
    /\ UNCHANGED <<now, nextId, at, dry, todo, lost, runId>>

-----------------------------------------------------------------------------

\* The process or its host dies; the server rolls its transaction back.
Crash(p) ==
    /\ Active(p)
    /\ Rollback(p)
    /\ todo' = [todo EXCEPT ![p] = {}]
    /\ lost' = [lost EXCEPT ![p] = FALSE]
    /\ runId' = [runId EXCEPT ![p] = 0]
    /\ Goto(p, "dead")
    /\ UNCHANGED <<now, repoVars, at, dry, reported, exitCode>>

Tick ==
    /\ now < MaxTime
    /\ now' = now + 1
    /\ UNCHANGED <<repoVars, procVars>>

\* Nothing is left to run: not a deadlock.
AllEnded ==
    /\ \A p \in Invocations : pc[p] \in {"done", "dead"}
    /\ UNCHANGED vars

\* The steps of a run whose rows are known.
RunStep(p) ==
    \/ StartRun(p)
    \/ \E row \in todo[p] : Merge(p, row)
    \/ CommitBatch(p)
    \/ FinishSuccess(p)
    \/ FinishFailed(p)

Failure(p) ==
    \/ ConnectFails(p)
    \/ FetchFails(p)
    \/ StartRunFails(p)
    \/ MergeRejected(p)
    \/ TransactionAborted(p)
    \/ ConnectionLost(p)
    \/ CommitUnacknowledged(p)
    \/ FinishSuccessFails(p)
    \/ FinishFailedFails(p)
    \/ Crash(p)

Loop(p) == Launch(p) \/ ConfigRejected(p) \/ Connect(p) \/ Close(p)

Next ==
    \/ \E p \in Invocations :
         \/ Loop(p)
         \/ \E batch \in Batches : Fetch(p, batch)
         \/ RunStep(p)
         \/ Failure(p)
    \/ Tick
    \/ AllEnded

Spec == Init /\ [][Next]_vars

\* p waits for a row lock, as does everyone it waits for: SQL Server's lock monitor
\* finds the cycle and aborts one of them.
InDeadlock(p) ==
    \E S \in SUBSET Invocations :
        /\ p \in S
        /\ \A q \in S : /\ pc[q] = "persist"
                        /\ todo[q] # {}
                        /\ \A row \in todo[q] : Locked(q, row.key)
                        /\ \A h \in Invocations \ S : \A x \in txn[h], y \in todo[q] :
                             x.key = y.key => Source(h) # Source(q)

Victim(p) == InDeadlock(p) /\ TransactionAborted(p)

\* Every call to a server returns, and a broken connection is reported.
Progress(p) ==
    \/ Connect(p)
    \/ \E batch \in Batches : Fetch(p, batch)
    \/ RunStep(p)
    \/ (lost[p] /\ FinishFailedFails(p))
    \/ Victim(p)
    \/ Close(p)

FairSpec == Spec /\ \A p \in Invocations : WF_vars(Progress(p))

-----------------------------------------------------------------------------
(* The inductive invariant. Base holds for collectors whose batches have several rows of *)
(* one key, too, and while old rows of collection_run are deleted; Core is for the others. *)

Owns(p) == pc[p] \in {"persist", "finish", "fail"}

\* An active invocation is at an instance, and knows its run_id once start_run returned.
PlaceInv ==
    \A p \in Invocations : /\ Active(p) => at[p] \in Places
                           /\ Owns(p) => runId[p] # 0

FiniteInv ==
    /\ \A p \in Invocations : IsFiniteSet(todo[p])
    /\ \A r \in DOMAIN hist : IsFiniteSet(hist[r].batch)

\* Between start_run and finish_run an invocation has a run_id of its own, and its row, if
\* nobody has deleted it, is "running".
OwnerInv ==
    /\ DOMAIN runs \subseteq DOMAIN hist
    /\ \A r \in DOMAIN runs : runs[r].inst = Monitored[hist[r].place]
    /\ \A p \in Invocations : Owns(p) =>
         /\ runId[p] \in DOMAIN hist
         /\ hist[runId[p]].by = p
         /\ hist[runId[p]].place = at[p]
         /\ runId[p] \in DOMAIN runs => runs[runId[p]].status = "running"

\* Every row of b is in l, or another one of its key is.
Covered(b, l) == \A x \in b : \E y \in l : y.key = x.key

\* Its open transaction holds the part of the batch that is executed and not durable, the
\* last row of each key; after a failure that part is never the whole batch.
BatchInv ==
    \A p \in Invocations :
        LET h == hist[runId[p]]
        IN  /\ pc[p] = "persist" => /\ h.landed = {}
                                    /\ txn[p] \cup todo[p] \subseteq h.batch
                                    /\ txn[p] \cap todo[p] = {}
                                    /\ Covered(h.batch, txn[p] \cup todo[p])
            /\ pc[p] = "finish" => Covered(h.batch, h.landed) /\ txn[p] = {}
            /\ pc[p] = "fail" /\ ~lost[p] => /\ h.landed = {}
                                             /\ txn[p] \subseteq h.batch
                                             /\ txn[p] # h.batch
            /\ pc[p] = "fail" /\ lost[p] => txn[p] = {}
            /\ pc[p] \notin {"persist", "fail", "close"} => txn[p] = {}
            /\ pc[p] \notin {"fail", "close"} => lost[p] = FALSE
            /\ KeysDiffer(txn[p])

\* What has landed is of the batch: one row for each key, or not all of it.
LandInv ==
    /\ \A r \in DOMAIN hist : hist[r].landed \subseteq hist[r].batch
    /\ \A r \in DOMAIN runs :
         /\ runs[r].status = "success" => /\ Covered(hist[r].batch, hist[r].landed)
                                          /\ runs[r].count = Cardinality(hist[r].batch)
         /\ runs[r].status = "failed" => hist[r].landed # hist[r].batch

TypeInv == TypeOK /\ PlaceInv /\ FiniteInv
RunInv == OwnerInv /\ BatchInv /\ LandInv
Base == TypeInv /\ RunInv

\* Batches have one row per key, and rows of collection_run stay.
ProperInv ==
    /\ \A p \in Invocations : Proper(todo[p])
    /\ \A r \in DOMAIN hist : Proper(hist[r].batch)

Core == Base /\ ProperInv /\ DOMAIN runs = DOMAIN hist

-----------------------------------------------------------------------------
(* Properties *)

\* A reader can trust a closed row of collection_run: "success" means that every row
\* transform() returned was committed and counted, "failed" that some row was not.
\* At stake: the order of _persist, its commit and finish_run on every error path
\* of Collector.run (src/src/collectors/base.py).
StatusIsTruthful ==
    \A r \in DOMAIN runs :
        /\ runs[r].status = "success" =>
             /\ hist[r].landed = hist[r].batch
             /\ runs[r].count = Cardinality(hist[r].batch)
        /\ runs[r].status = "failed" => hist[r].landed # hist[r].batch

\* A row is left "running" only while its run is under way, or when the process died or
\* reported that instance as failed: a stuck row never hides behind exit code 0.
StuckRowIsExplained ==
    \A r \in DOMAIN runs :
        runs[r].status = "running" =>
            LET p == hist[r].by
                i == hist[r].place
            IN  \/ pc[p] = "dead"
                \/ reported[p][i] = "failed"
                \/ Active(p) /\ at[p] = i

\* The contract of run.py: exit code 0 exactly when every configured instance was
\* reported ok, and an instance is reported ok (but for a dry run) only with a
\* "success" row of its own.
ExitCodeIsHonest ==
    \A p \in Invocations :
        /\ pc[p] = "done" =>
             (exitCode[p] = 0 <=> \A i \in Places : reported[p][i] = "ok")
        /\ \A i \in Places :
             reported[p][i] = "ok" /\ ~dry[p] =>
                \E r \in DOMAIN runs : /\ hist[r].by = p
                                       /\ hist[r].place = i
                                       /\ runs[r].inst = Monitored[i]
                                       /\ runs[r].status = "success"

\* --dry-run performs no writes: no row of collection_run and no fact is its own.
DryRunWritesNothing ==
    \A p \in Invocations :
        dry[p] => /\ txn[p] = {}
                  /\ \A r \in DOMAIN hist : hist[r].by # p

\* What a successful run landed stays readable, whatever other invocations, rollbacks and
\* crashes do: each of its keys holds its value, or one another run landed.
SuccessIsDurable ==
    \A r \in DOMAIN runs : runs[r].status = "success" =>
        \A row \in hist[r].batch :
            LET v == fact[runs[r].inst][row.key]
            IN  \/ v = row.val
                \/ \E s \in DOMAIN hist \ {r} : [key |-> row.key, val |-> v] \in hist[s].landed

ClosedRowsKept ==
    \A r \in DOMAIN runs \cap DOMAIN runs' :
        runs[r].status # "running" => runs'[r] = runs[r] /\ hist'[r] = hist[r]

\* A closed row of collection_run is never written again, neither by its own run nor by
\* another invocation's finish_run, and nothing lands under it.
ClosedRowsAreFinal == [][ClosedRowsKept]_vars

\* One failing instance must not block others (the comment in main()): every invocation
\* that starts its loop reaches a verdict on every instance, unless it is killed; locks
\* of other invocations do not stop it for ever.
EveryInstanceIsReached ==
    \A p \in Invocations : \A i \in Places :
        pc[p] = "connect" ~> (reported[p][i] # "none" \/ pc[p] = "dead")

\* The abstract ledger this module implements.
LedgerRows == [r \in DOMAIN runs |-> [status |-> runs[r].status,
                                      wanted |-> hist[r].batch,
                                      landed |-> hist[r].landed]]

Ledger == INSTANCE RunLedger WITH Id <- 1 .. MaxRuns, ledger <- LedgerRows

\* Every step of the collectors is a step of the ledger, or leaves it alone.
ImplementsLedger == Ledger!LedgerSpec
=============================================================================
