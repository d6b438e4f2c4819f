------------------------- MODULE CollectionRunProofs -------------------------
(* Proofs about CollectionRun, for every value of its constants. *)
EXTENDS CollectionRun, FiniteSetTheorems, TLAPS

\* A batch stays finite while it is executed.
LEMMA FiniteRemove ==
  ASSUME NEW b, IsFiniteSet(b), NEW row
  PROVE  IsFiniteSet(b \ {row})
  BY FS_RemoveElement

LEMMA PlacesType == Len(Monitored) \in Nat \ {0} /\ \A i \in Places : Monitored[i] \in Inst
  BY MonitoredAssumption DEF Places

\* A MERGE leaves a well-typed table.
LEMMA MergedType ==
  ASSUME NEW table \in [Inst -> [Keys -> Vals \cup {NoVal}]],
         NEW i \in Inst, NEW rows \in SUBSET Row
  PROVE  Merged(table, i, rows) \in [Inst -> [Keys -> Vals \cup {NoVal}]]
  BY DEF Merged, Row

\* What a commit does to the tables, whoever commits.
LEMMA CommitType ==
  ASSUME NEW p \in Invocations, TypeInv, Active(p), CommitTxn(p)
  PROVE  /\ fact' \in [Inst -> [Keys -> Vals \cup {NoVal}]]
         /\ txn' \in [Invocations -> SUBSET Row]
         /\ DOMAIN hist' = DOMAIN hist
         /\ hist' \in [DOMAIN hist -> HistRow]
         /\ \A r \in DOMAIN hist : hist'[r].batch = hist[r].batch
<1>1. Source(p) \in Inst
  BY PlacesType DEF TypeInv, PlaceInv, Source
<1>2. fact' \in [Inst -> [Keys -> Vals \cup {NoVal}]]
  BY <1>1, MergedType DEF CommitTxn, TypeInv, TypeOK
<1>3. txn' \in [Invocations -> SUBSET Row]
  BY DEF CommitTxn, TypeInv, TypeOK
<1>4. /\ DOMAIN hist' = DOMAIN hist
      /\ hist' \in [DOMAIN hist -> HistRow]
      /\ \A r \in DOMAIN hist : hist'[r].batch = hist[r].batch
  <2>1. txn[p] \in SUBSET Row /\ hist \in [DOMAIN hist -> HistRow]
    BY DEF TypeInv, TypeOK
  <2>2. CASE txn[p] = {}
    BY <2>1, <2>2 DEF CommitTxn
  <2>3. CASE txn[p] # {}
    <3>1. hist' = [hist EXCEPT ![runId[p]].landed = @ \cup txn[p]]
      BY <2>3 DEF CommitTxn
    <3>2. ASSUME NEW h \in HistRow
          PROVE  [h EXCEPT !.landed = @ \cup txn[p]] \in HistRow
                   /\ [h EXCEPT !.landed = @ \cup txn[p]].batch = h.batch
      BY <2>1 DEF HistRow
    <3> QED
      BY <2>1, <3>1, <3>2
  <2> QED
    BY <2>2, <2>3
<1> QED
  BY <1>2, <1>3, <1>4

\* What start_run's INSERT does to the tables.
LEMMA InsertType ==
  ASSUME NEW p \in Invocations, TypeInv, Active(p), InsertRun(p)
  PROVE  /\ now' \in Nat
         /\ nextId' \in Nat \ {0}
         /\ DOMAIN runs' \subseteq 1 .. nextId' - 1
         /\ runs' \in [DOMAIN runs' -> RunRow]
         /\ DOMAIN hist' = 1 .. nextId' - 1
         /\ hist' \in [DOMAIN hist' -> HistRow]
         /\ \A r \in DOMAIN hist' : IsFiniteSet(hist'[r].batch)
         /\ 0 .. nextId - 1 \subseteq 0 .. nextId' - 1
         /\ nextId \in 0 .. nextId' - 1
<1> USE DEF TypeInv, InsertRun
<1>1. nextId \in Nat /\ nextId > 0 /\ now \in Nat
  BY DEF TypeOK
<1>2. Source(p) \in Inst /\ at[p] \in Places
  BY PlacesType DEF PlaceInv, Source
<1>3. runs' \in [DOMAIN runs' -> RunRow] /\ DOMAIN runs' = DOMAIN runs \cup {nextId}
  BY <1>1, <1>2 DEF TypeOK, RunRow, Statuses
<1>4. hist' \in [DOMAIN hist' -> HistRow] /\ DOMAIN hist' = DOMAIN hist \cup {nextId}
  BY <1>1, <1>2 DEF TypeOK, HistRow
<1>5. \A r \in DOMAIN hist' : IsFiniteSet(hist'[r].batch)
  BY DEF FiniteInv
<1>6. DOMAIN runs \subseteq 1 .. nextId - 1 /\ DOMAIN hist = 1 .. nextId - 1
  BY DEF TypeOK
<1>7. nextId' = nextId + 1 /\ now' = now + 1
  OBVIOUS
<1>8. (1 .. nextId - 1) \cup {nextId} = 1 .. nextId' - 1
  BY <1>1, <1>7
<1>9. DOMAIN hist' = 1 .. nextId' - 1
  BY <1>4, <1>6, <1>8
<1>10. DOMAIN runs' \subseteq 1 .. nextId' - 1
  BY <1>3, <1>6, <1>8
<1>11. 0 .. nextId - 1 \subseteq 0 .. nextId' - 1 /\ nextId \in 0 .. nextId' - 1
  BY <1>1, <1>7
<1>12. now' \in Nat /\ nextId' \in Nat \ {0}
  BY <1>1, <1>7
<1> HIDE DEF TypeInv, InsertRun
<1> QED
  BY <1>3, <1>4, <1>5, <1>9, <1>10, <1>11, <1>12

\* What finish_run's UPDATE does to the table.
LEMMA FinishedType ==
  ASSUME NEW r, NEW status \in Statuses, NEW n \in Nat \cup {Null},
         runs \in [DOMAIN runs -> RunRow]
  PROVE  /\ DOMAIN Finished(r, status, n) = DOMAIN runs
         /\ Finished(r, status, n) \in [DOMAIN runs -> RunRow]
  BY DEF Finished, RunRow

\* row_count is the length of a finite batch.
LEMMA CountType ==
  ASSUME NEW p \in Invocations, TypeInv, pc[p] = "finish"
  PROVE  Cardinality(hist[runId[p]].batch) \in Nat
<1>1. runId[p] \in DOMAIN hist
  <2>1. runId[p] \in 0 .. nextId - 1 /\ runId[p] # 0 /\ DOMAIN hist = 1 .. nextId - 1
         /\ nextId \in Nat
    BY DEF TypeInv, TypeOK, PlaceInv, Owns
  <2> QED
    BY <2>1
<1> QED
  BY <1>1, FS_CardinalityType DEF TypeInv, FiniteInv

LEMMA InitType == Init => TypeInv
<1> SUFFICES ASSUME Init PROVE TypeInv
  OBVIOUS
<1>1. TypeOK
  BY PlacesType DEF Init, TypeOK, Pcs
<1>2. PlaceInv
  BY DEF Init, PlaceInv, Active, Owns
<1>3. FiniteInv
  BY FS_EmptySet DEF Init, FiniteInv
<1> QED
  BY <1>1, <1>2, <1>3 DEF TypeInv

-----------------------------------------------------------------------------
(* The types are preserved, one step per action. *)

\* Any finite batch may be fetched, whatever Batches are.
LEMMA FetchType ==
  ASSUME TypeInv, NEW p \in Invocations, NEW batch \in SUBSET Row, IsFiniteSet(batch), Fetch(p, batch)
  PROVE  TypeInv'
<1> USE DEF TypeInv
<1>1. CASE dry[p]
  <2>1. /\ reported' = [reported EXCEPT ![p][at[p]] = "ok"]
        /\ pc' = [pc EXCEPT ![p] = "close"]
        /\ pc[p] = "fetch"
        /\ UNCHANGED <<now, repoVars, at, dry, todo, txn, lost, runId, exitCode>>
    BY <1>1 DEF Fetch, Return, Goto
  <2>2. TypeOK'
    BY <2>1 DEF TypeOK, Pcs, repoVars
  <2> QED
    BY <2>1, <2>2 DEF TypeOK, PlaceInv, Owns, FiniteInv, Active, repoVars
<1>2. CASE ~dry[p]
  <2>1. /\ todo' = [todo EXCEPT ![p] = batch]
        /\ pc' = [pc EXCEPT ![p] = "start"]
        /\ pc[p] = "fetch"
        /\ UNCHANGED <<now, repoVars, at, dry, txn, lost, runId, reported, exitCode>>
    BY <1>2 DEF Fetch, Goto
  <2>2. TypeOK'
    BY <2>1 DEF TypeOK, Pcs, repoVars
  <2> QED
    BY <2>1, <2>2 DEF TypeOK, PlaceInv, Owns, FiniteInv, Active, repoVars
<1> QED
  BY <1>1, <1>2

LEMMA TypeStep == TypeInv /\ [Next]_vars => TypeInv'
<1> SUFFICES ASSUME TypeInv, [Next]_vars PROVE TypeInv'
  OBVIOUS
<1> USE DEF TypeInv
<1>1. ASSUME NEW p \in Invocations, Launch(p) PROVE TypeInv'
  <2>1. dry' \in [Invocations -> BOOLEAN]
    BY <1>1, BoundsAssumption DEF Launch, TypeOK
  <2> QED
    BY <1>1, <2>1, PlacesType DEF Launch, MayStart, Goto, TypeOK, PlaceInv, Owns, FiniteInv, Active,
       Pcs, repoVars, Places
<1>2. ASSUME NEW p \in Invocations, ConfigRejected(p) PROVE TypeInv'
  BY <1>2 DEF ConfigRejected, MayStart, Goto, TypeOK, PlaceInv, Owns, FiniteInv, Active, Pcs, repoVars
<1>3. ASSUME NEW p \in Invocations, Connect(p) PROVE TypeInv'
  BY <1>3 DEF Connect, Goto, TypeOK, PlaceInv, Owns, FiniteInv, Active, Pcs, repoVars
<1>4. ASSUME NEW p \in Invocations, ConnectFails(p) PROVE TypeInv'
  BY <1>4 DEF ConnectFails, Raise, Goto, TypeOK, PlaceInv, Owns, FiniteInv, Active, Pcs, repoVars
<1>5. ASSUME NEW p \in Invocations, Close(p) PROVE TypeInv'
  BY <1>5, PlacesType, FS_EmptySet DEF Close, AfterInstance, Rollback, Goto, TypeOK, PlaceInv, Owns,
     FiniteInv, Active, Pcs, repoVars, Places
<1>6. ASSUME NEW p \in Invocations, NEW batch \in Batches, Fetch(p, batch) PROVE TypeInv'
  BY <1>6, BatchesAssumption, FetchType DEF Proper
<1>7. ASSUME NEW p \in Invocations, FetchFails(p) PROVE TypeInv'
  BY <1>7 DEF FetchFails, Raise, Goto, TypeOK, PlaceInv, Owns, FiniteInv, Active, Pcs, repoVars
<1>8. ASSUME NEW p \in Invocations, StartRun(p) PROVE TypeInv'
  BY <1>8, InsertType DEF StartRun, Goto, TypeOK, PlaceInv, Owns, FiniteInv, Active, Pcs
<1>9. ASSUME NEW p \in Invocations, StartRunFails(p) PROVE TypeInv'
  BY <1>9, InsertType DEF StartRunFails, Raise, Goto, TypeOK, PlaceInv, Owns, FiniteInv, Active, Pcs
<1>10. ASSUME NEW p \in Invocations, NEW row \in todo[p], Merge(p, row) PROVE TypeInv'
  <2>1. /\ todo' = [todo EXCEPT ![p] = @ \ {row}]
        /\ txn' = [txn EXCEPT ![p] = Executed(@, row)]
        /\ UNCHANGED <<now, repoVars, pc, at, dry, lost, runId, reported, exitCode>>
    BY <1>10 DEF Merge
  <2>2. todo[p] \in SUBSET Row /\ row \in Row /\ IsFiniteSet(todo[p] \ {row})
    BY <1>10, FiniteRemove DEF TypeOK, FiniteInv
  <2>3. TypeOK'
    BY <2>1, <2>2 DEF TypeOK, repoVars, Executed
  <2> QED
    BY <2>1, <2>2, <2>3 DEF TypeOK, PlaceInv, Owns, FiniteInv, Active, repoVars
<1>11. ASSUME NEW p \in Invocations, MergeRejected(p) PROVE TypeInv'
  BY <1>11 DEF MergeRejected, OnPersistError, Goto, TypeOK, PlaceInv, Owns, FiniteInv, Active, Pcs,
     repoVars
<1>12. ASSUME NEW p \in Invocations, TransactionAborted(p) PROVE TypeInv'
  BY <1>12 DEF TransactionAborted, OnPersistError, Rollback, Goto, TypeOK, PlaceInv, Owns, FiniteInv,
     Active, Pcs, repoVars
<1>13. ASSUME NEW p \in Invocations, ConnectionLost(p) PROVE TypeInv'
  BY <1>13 DEF ConnectionLost, OnPersistError, Rollback, Goto, TypeOK, PlaceInv, Owns, FiniteInv,
     Active, Pcs, repoVars
<1>14. ASSUME NEW p \in Invocations, CommitBatch(p) PROVE TypeInv'
  BY <1>14, CommitType DEF CommitBatch, Goto, TypeOK, PlaceInv, Owns, FiniteInv, Active, Pcs
<1>15. ASSUME NEW p \in Invocations, CommitUnacknowledged(p) PROVE TypeInv'
  BY <1>15, CommitType DEF CommitUnacknowledged, OnPersistError, Goto, TypeOK, PlaceInv, Owns,
     FiniteInv, Active, Pcs
<1>16. ASSUME NEW p \in Invocations, FinishSuccess(p) PROVE TypeInv'
  <2>1. Cardinality(hist[runId[p]].batch) \in Nat
    BY <1>16, CountType DEF FinishSuccess
  <2> QED
    BY <1>16, <2>1, FinishedType DEF FinishSuccess, Return, Goto, TypeOK, PlaceInv, Owns, FiniteInv,
       Active, Pcs, Statuses
<1>17. ASSUME NEW p \in Invocations, FinishSuccessFails(p) PROVE TypeInv'
  <2>1. Cardinality(hist[runId[p]].batch) \in Nat
    BY <1>17, CountType DEF FinishSuccessFails
  <2>2. DOMAIN runs' = DOMAIN runs /\ runs' \in [DOMAIN runs -> RunRow]
    <3>1. runs \in [DOMAIN runs -> RunRow]
      BY DEF TypeOK
    <3>2. LET new == Finished(runId[p], "success", Cardinality(hist[runId[p]].batch))
          IN  DOMAIN new = DOMAIN runs /\ new \in [DOMAIN runs -> RunRow]
      BY <2>1, <3>1, FinishedType DEF Statuses
    <3> QED
      BY <1>17, <3>1, <3>2 DEF FinishSuccessFails
  <2>3. /\ reported' = [reported EXCEPT ![p][at[p]] = "failed"]
        /\ exitCode' = [exitCode EXCEPT ![p] = 1]
        /\ pc' = [pc EXCEPT ![p] = "close"]
        /\ pc[p] = "finish"
        /\ UNCHANGED <<now, nextId, fact, hist, at, dry, todo, txn, lost, runId>>
    BY <1>17 DEF FinishSuccessFails, Raise, Goto
  <2>4. TypeOK'
    BY <2>2, <2>3 DEF TypeOK, Pcs
  <2> QED
    BY <2>3, <2>4 DEF TypeOK, PlaceInv, Owns, FiniteInv, Active
<1>18. ASSUME NEW p \in Invocations, FinishFailed(p) PROVE TypeInv'
  BY <1>18, CommitType, FinishedType DEF FinishFailed, Raise, Goto, TypeOK, PlaceInv, Owns, FiniteInv,
     Active, Pcs, Statuses, Null
<1>19. ASSUME NEW p \in Invocations, FinishFailedFails(p) PROVE TypeInv'
  <2>1. CASE UNCHANGED <<runs, fact, hist, txn>>
    BY <1>19, <2>1 DEF FinishFailedFails, Raise, Goto, TypeOK, PlaceInv, Owns, FiniteInv, Active, Pcs
  <2>2. CASE runs' = Finished(runId[p], "failed", Null) /\ CommitTxn(p)
    BY <1>19, <2>2, CommitType, FinishedType DEF FinishFailedFails, Raise, Goto, TypeOK, PlaceInv, Owns,
       FiniteInv, Active, Pcs, Statuses, Null
  <2> QED
    BY <1>19, <2>1, <2>2 DEF FinishFailedFails
<1>20. ASSUME NEW p \in Invocations, Crash(p) PROVE TypeInv'
  BY <1>20, FS_EmptySet DEF Crash, Rollback, Goto, TypeOK, PlaceInv, Owns, FiniteInv, Active, Pcs,
     repoVars
<1>21. CASE Tick
  BY <1>21 DEF Tick, repoVars, procVars, TypeOK, PlaceInv, Owns, FiniteInv, Active
<1>22. CASE UNCHANGED vars
  BY <1>22 DEF vars, repoVars, procVars, TypeOK, PlaceInv, Owns, FiniteInv, Active
<1> HIDE DEF TypeInv
<1> QED
  BY <1>1, <1>2, <1>3, <1>4, <1>5, <1>6, <1>7, <1>8, <1>9, <1>10, <1>11, <1>12, <1>13, <1>14,
     <1>15, <1>16, <1>17, <1>18, <1>19, <1>20, <1>21, <1>22
  DEF Next, Loop, RunStep, Failure, AllEnded

\* Type correctness of the tables and of every invocation's local state.
THEOREM TypeCorrect == Spec => []TypeOK
<1>1. Init => TypeInv
  BY InitType
<1>2. TypeInv /\ [Next]_vars => TypeInv'
  BY TypeStep
<1>3. TypeInv => TypeOK
  BY DEF TypeInv
<1> QED
  BY <1>1, <1>2, <1>3, PTL DEF Spec

-----------------------------------------------------------------------------
(* A row of collection_run has one owner, and says the truth once it is closed. *)

LEMMA InitRun == Init => RunInv
  BY DEF Init, RunInv, OwnerInv, BatchInv, LandInv, Owns, KeysDiffer

\* Two invocations never own the same row.
LEMMA OneOwner ==
  ASSUME OwnerInv, NEW p \in Invocations, NEW q \in Invocations, Owns(p), Owns(q), p # q
  PROVE  runId[p] # runId[q]
  BY DEF OwnerInv

\* The row a commit or a finish_run works on, seen from the invariant.
LEMMA OwnRow ==
  ASSUME RunInv, NEW p \in Invocations, Owns(p)
  PROVE  /\ runId[p] \in DOMAIN hist
         /\ runId[p] \in DOMAIN runs => runs[runId[p]].status = "running"
  BY DEF RunInv, OwnerInv

\* Of several rows of one key the transaction holds the one executed last.
LEMMA ExecutedKeys ==
  ASSUME NEW done, KeysDiffer(done), NEW row
  PROVE  KeysDiffer(Executed(done, row))
  BY DEF KeysDiffer, Executed

\* p is the only invocation that moves.
OnlyMoves(p) ==
    \A q \in Invocations \ {p} :
        /\ pc'[q] = pc[q]
        /\ at'[q] = at[q]
        /\ todo'[q] = todo[q]
        /\ txn'[q] = txn[q]
        /\ lost'[q] = lost[q]
        /\ runId'[q] = runId[q]

\* The others' batches are where they were, if their rows are.
LEMMA Others ==
  ASSUME BatchInv, NEW p, NEW q \in Invocations \ {p}, OnlyMoves(p),
         Owns(q) => hist'[runId[q]] = hist[runId[q]]
  PROVE  BatchInv!(q)'
<1>1. /\ pc'[q] = pc[q] /\ todo'[q] = todo[q] /\ txn'[q] = txn[q]
      /\ lost'[q] = lost[q] /\ runId'[q] = runId[q]
  BY DEF OnlyMoves
<1> QED
  BY <1>1 DEF BatchInv, Owns

\* A step that leaves the tables alone and after which p owns no row.
Releases(p) ==
    /\ OnlyMoves(p)
    /\ UNCHANGED <<runs, hist>>
    /\ pc'[p] \notin {"persist", "finish", "fail"}
    /\ \/ pc'[p] = "close" /\ txn'[p] = txn[p]
       \/ txn'[p] = {} /\ lost'[p] = FALSE

LEMMA ReleaseStep ==
  ASSUME RunInv, NEW p \in Invocations, Releases(p)
  PROVE  RunInv'
<1>1. OwnerInv'
  BY DEF RunInv, OwnerInv, Owns, Releases, OnlyMoves
<1>2. BatchInv'
  <2>1. ASSUME NEW q \in Invocations \ {p} PROVE BatchInv!(q)'
    BY Others DEF RunInv, Releases
  <2>2. BatchInv!(p)'
    BY DEF RunInv, BatchInv, Releases, KeysDiffer, Covered
  <2> QED
    BY <2>1, <2>2 DEF BatchInv
<1>3. LandInv'
  BY DEF RunInv, LandInv, Releases, Covered
<1> QED
  BY <1>1, <1>2, <1>3 DEF RunInv

\* A step inside _persist: the tables are left alone and p keeps its row.
Keeps(p) ==
    /\ OnlyMoves(p)
    /\ UNCHANGED <<runs, hist>>
    /\ Owns(p)
    /\ at'[p] = at[p]
    /\ runId'[p] = runId[p]

LEMMA KeepStep ==
  ASSUME RunInv, NEW p \in Invocations, Keeps(p), KeysDiffer(txn'[p]),
         LET h == hist[runId[p]]
         IN  \/ /\ pc'[p] = "persist"
                /\ lost'[p] = FALSE
                /\ h.landed = {}
                /\ txn'[p] \cup todo'[p] \subseteq h.batch
                /\ txn'[p] \cap todo'[p] = {}
                /\ Covered(h.batch, txn'[p] \cup todo'[p])
             \/ /\ pc'[p] = "fail"
                /\ lost'[p] = FALSE
                /\ h.landed = {}
                /\ txn'[p] \subseteq h.batch
                /\ txn'[p] # h.batch
             \/ /\ pc'[p] = "fail"
                /\ lost'[p] = TRUE
                /\ txn'[p] = {}
  PROVE  RunInv'
<1>1. OwnerInv'
  BY DEF RunInv, OwnerInv, Owns, Keeps, OnlyMoves
<1>2. BatchInv'
  <2>1. ASSUME NEW q \in Invocations \ {p} PROVE BatchInv!(q)'
    BY Others DEF RunInv, Keeps
  <2>2. BatchInv!(p)'
    BY DEF Keeps
  <2> QED
    BY <2>1, <2>2 DEF BatchInv
<1>3. LandInv'
  BY DEF RunInv, LandInv, Keeps, Covered
<1> QED
  BY <1>1, <1>2, <1>3 DEF RunInv

\* start_run's INSERT gives p a row of its own, or leaves a row nobody owns.
LEMMA InsertStep ==
  ASSUME TypeInv, RunInv, NEW p \in Invocations, pc[p] = "start", InsertRun(p), OnlyMoves(p),
         txn'[p] = txn[p], lost'[p] = lost[p],
         \/ pc'[p] = "close"
         \/ /\ pc'[p] = "persist"
            /\ runId'[p] = nextId
            /\ todo'[p] = todo[p]
            /\ at'[p] = at[p]
  PROVE  RunInv'
<1>1. nextId \notin DOMAIN hist /\ nextId \notin DOMAIN runs
  BY DEF TypeInv, TypeOK
<1>2. /\ DOMAIN runs' = DOMAIN runs \cup {nextId}
      /\ DOMAIN hist' = DOMAIN hist \cup {nextId}
      /\ \A r \in DOMAIN runs : runs'[r] = runs[r]
      /\ \A r \in DOMAIN hist : hist'[r] = hist[r]
      /\ runs'[nextId].status = "running" /\ runs'[nextId].inst = Source(p)
      /\ hist'[nextId] = [by |-> p, place |-> at[p], batch |-> todo[p], landed |-> {}]
  BY <1>1 DEF InsertRun
<1>3. txn[p] = {} /\ lost[p] = FALSE
  BY DEF RunInv, BatchInv
<1>4. OwnerInv'
  BY <1>2 DEF RunInv, OwnerInv, Owns, OnlyMoves, Source
<1>5. BatchInv'
  <2>1. \A q \in Invocations : Owns(q) => hist'[runId[q]] = hist[runId[q]]
    BY <1>2 DEF RunInv, OwnerInv
  <2>2. ASSUME NEW q \in Invocations \ {p} PROVE BatchInv!(q)'
    BY <2>1, Others DEF RunInv
  <2>3. BatchInv!(p)'
    BY <1>2, <1>3 DEF BatchInv, KeysDiffer, Covered
  <2> QED
    BY <2>2, <2>3 DEF BatchInv
<1>6. LandInv'
  <2>1. DOMAIN runs \subseteq DOMAIN hist
    BY DEF RunInv, OwnerInv
  <2> QED
    BY <1>2, <2>1 DEF RunInv, LandInv
<1> QED
  BY <1>4, <1>5, <1>6 DEF RunInv

\* A commit lands the open transaction under the row of the invocation that commits.
LEMMA CommitLands ==
  ASSUME TypeInv, NEW p \in Invocations, runId[p] \in DOMAIN hist, CommitTxn(p)
  PROVE  /\ DOMAIN hist' = DOMAIN hist
         /\ \A r \in DOMAIN hist : /\ hist'[r].by = hist[r].by
                                   /\ hist'[r].place = hist[r].place
                                   /\ hist'[r].batch = hist[r].batch
                                   /\ r # runId[p] => hist'[r] = hist[r]
         /\ hist'[runId[p]].landed = hist[runId[p]].landed \cup txn[p]
         /\ txn' = [txn EXCEPT ![p] = {}]
<1>1. hist \in [DOMAIN hist -> HistRow]
  BY DEF TypeInv, TypeOK
<1>2. CASE txn[p] = {}
  BY <1>2 DEF CommitTxn
<1>3. CASE txn[p] # {}
  <2>1. /\ hist' = [hist EXCEPT ![runId[p]].landed = @ \cup txn[p]]
        /\ txn' = [txn EXCEPT ![p] = {}]
    BY <1>3 DEF CommitTxn
  <2>2. ASSUME NEW h \in HistRow, NEW rows
        PROVE  LET g == [h EXCEPT !.landed = @ \cup rows]
               IN  g.by = h.by /\ g.place = h.place /\ g.batch = h.batch
                     /\ g.landed = h.landed \cup rows
    BY DEF HistRow
  <2>3. /\ DOMAIN hist' = DOMAIN hist
        /\ \A r \in DOMAIN hist \ {runId[p]} : hist'[r] = hist[r]
        /\ hist'[runId[p]] = [hist[runId[p]] EXCEPT !.landed = @ \cup txn[p]]
    BY <1>1, <2>1
  <2>4. /\ hist'[runId[p]].by = hist[runId[p]].by
        /\ hist'[runId[p]].place = hist[runId[p]].place
        /\ hist'[runId[p]].batch = hist[runId[p]].batch
        /\ hist'[runId[p]].landed = hist[runId[p]].landed \cup txn[p]
    <3>1. hist[runId[p]] \in HistRow
      BY <1>1
    <3> QED
      BY <2>2, <2>3, <3>1
  <2> QED
    BY <2>1, <2>3, <2>4
<1> QED
  BY <1>2, <1>3

\* What a commit lands belongs to the batch, and is all that has landed under the row.
LEMMA CommitsOwn ==
  ASSUME TypeInv, RunInv, NEW p \in Invocations, Owns(p), ~lost[p] \/ pc[p] # "fail"
  PROVE  /\ txn[p] \subseteq hist[runId[p]].batch
         /\ txn[p] # {} => hist[runId[p]].landed = {}
         /\ KeysDiffer(txn[p])
  BY DEF RunInv, BatchInv, Owns

\* A commit that leaves the row open: _persist's own.
LEMMA CommitStep ==
  ASSUME TypeInv, RunInv, NEW p \in Invocations, pc[p] = "persist", todo[p] = {},
         CommitTxn(p), OnlyMoves(p), UNCHANGED <<runs, at, runId>>,
         \/ pc'[p] = "finish" /\ lost'[p] = lost[p]
         \/ pc'[p] = "fail" /\ lost'[p] = TRUE
  PROVE  RunInv'
<1>1. /\ runId[p] \in DOMAIN hist
      /\ runId[p] \in DOMAIN runs => runs[runId[p]].status = "running"
      /\ hist[runId[p]].landed = {} /\ txn[p] \subseteq hist[runId[p]].batch
      /\ Covered(hist[runId[p]].batch, txn[p])
  <2>1. /\ runId[p] \in DOMAIN hist
        /\ runId[p] \in DOMAIN runs => runs[runId[p]].status = "running"
    BY OwnRow DEF Owns
  <2>2. /\ hist[runId[p]].landed = {} /\ txn[p] \cup todo[p] \subseteq hist[runId[p]].batch
        /\ Covered(hist[runId[p]].batch, txn[p] \cup todo[p])
    BY DEF RunInv, BatchInv
  <2>3. txn[p] \cup todo[p] = txn[p]
    OBVIOUS
  <2> QED
    BY <2>1, <2>2, <2>3
<1>2. /\ DOMAIN hist' = DOMAIN hist
      /\ \A r \in DOMAIN hist : /\ hist'[r].by = hist[r].by
                                /\ hist'[r].place = hist[r].place
                                /\ hist'[r].batch = hist[r].batch
                                /\ r # runId[p] => hist'[r] = hist[r]
      /\ hist'[runId[p]].landed = hist[runId[p]].landed \cup txn[p]
      /\ txn' = [txn EXCEPT ![p] = {}]
  BY <1>1, CommitLands
<1>3. txn'[p] = {}
  BY <1>2 DEF TypeInv, TypeOK
<1>4. OwnerInv'
  BY <1>2 DEF RunInv, OwnerInv, Owns, OnlyMoves
<1>5. BatchInv'
  <2>1. \A q \in Invocations \ {p} : Owns(q) => hist'[runId[q]] = hist[runId[q]]
    BY <1>2, OneOwner DEF RunInv, OwnerInv, Owns
  <2>2. ASSUME NEW q \in Invocations \ {p} PROVE BatchInv!(q)'
    BY <2>1, Others DEF RunInv
  <2>3. lost[p] = FALSE
    BY DEF RunInv, BatchInv
  <2>4. hist'[runId[p]].batch = hist[runId[p]].batch /\ hist'[runId[p]].landed = txn[p]
    BY <1>1, <1>2
  <2>5. BatchInv!(p)'
    BY <1>1, <1>3, <2>3, <2>4 DEF KeysDiffer
  <2> QED
    BY <2>2, <2>5 DEF BatchInv
<1>6. LandInv'
  <2>1. ASSUME NEW r \in DOMAIN runs', runs'[r].status # "running"
        PROVE  r \in DOMAIN hist /\ runs'[r] = runs[r] /\ hist'[r] = hist[r]
    BY <1>1, <1>2, <2>1 DEF RunInv, OwnerInv
  <2>2. \A r \in DOMAIN hist' : hist'[r].landed \subseteq hist'[r].batch
    BY <1>1, <1>2 DEF RunInv, LandInv
  <2> QED
    BY <2>1, <2>2 DEF RunInv, LandInv
<1> QED
  BY <1>4, <1>5, <1>6 DEF RunInv

\* finish_run closes p's row, with the whole batch landed or not.
LEMMA FinishStep ==
  ASSUME TypeInv, RunInv, NEW p \in Invocations, Owns(p), OnlyMoves(p), pc'[p] = "close",
         CommitTxn(p), NEW status, NEW n, runs' = Finished(runId[p], status, n),
         \/ /\ pc[p] = "finish" /\ status = "success"
            /\ n = Cardinality(hist[runId[p]].batch)
         \/ pc[p] = "fail" /\ ~lost[p] /\ status = "failed"
  PROVE  RunInv'
<1>1. runId[p] \in DOMAIN hist
  BY OwnRow
<1>2. /\ DOMAIN hist' = DOMAIN hist
      /\ \A r \in DOMAIN hist : /\ hist'[r].by = hist[r].by
                                /\ hist'[r].place = hist[r].place
                                /\ hist'[r].batch = hist[r].batch
                                /\ r # runId[p] => hist'[r] = hist[r]
      /\ hist'[runId[p]].landed = hist[runId[p]].landed \cup txn[p]
      /\ txn' = [txn EXCEPT ![p] = {}]
  BY <1>1, CommitLands
<1>3. /\ DOMAIN runs' = DOMAIN runs
      /\ \A r \in DOMAIN runs : /\ r # runId[p] => runs'[r] = runs[r]
                                /\ runs'[r].inst = runs[r].inst
      /\ runId[p] \in DOMAIN runs => /\ runs'[runId[p]].status = status
                                     /\ runs'[runId[p]].count = n
  BY DEF Finished, TypeInv, TypeOK, RunRow
<1>4. \A q \in Invocations \ {p} : Owns(q) => runId[q] # runId[p]
  BY OneOwner DEF RunInv
<1>5. OwnerInv'
  BY <1>2, <1>3, <1>4 DEF RunInv, OwnerInv, Owns, OnlyMoves
<1>6. BatchInv'
  <2>1. \A q \in Invocations \ {p} : Owns(q) => hist'[runId[q]] = hist[runId[q]]
    BY <1>2, <1>4 DEF RunInv, OwnerInv
  <2>2. ASSUME NEW q \in Invocations \ {p} PROVE BatchInv!(q)'
    BY <2>1, Others DEF RunInv
  <2>3. txn'[p] = {}
    BY <1>2 DEF TypeInv, TypeOK
  <2>4. BatchInv!(p)'
    BY <2>3 DEF KeysDiffer
  <2> QED
    BY <2>2, <2>4 DEF BatchInv
<1>7. LandInv'
  <2>1. txn[p] \subseteq hist[runId[p]].batch
    BY CommitsOwn
  <2>2. \A r \in DOMAIN hist' : hist'[r].landed \subseteq hist'[r].batch
    BY <1>2, <2>1 DEF RunInv, LandInv
  <2>3. ASSUME NEW r \in DOMAIN runs', r # runId[p] PROVE LandInv!2!(r)'
    BY <1>2, <1>3, <2>3 DEF RunInv, LandInv, OwnerInv
  <2>4. ASSUME NEW r \in DOMAIN runs', r = runId[p] PROVE LandInv!2!(r)'
    <3>1. CASE pc[p] = "finish"
      <4>1. /\ hist'[r].batch = hist[r].batch /\ hist'[r].landed = hist[r].landed
            /\ Covered(hist[r].batch, hist[r].landed)
        BY <1>1, <1>2, <2>4, <3>1 DEF RunInv, BatchInv
      <4> QED
        BY <1>3, <2>4, <3>1, <4>1
    <3>2. CASE pc[p] = "fail"
      <4>1. hist'[r].batch = hist[r].batch /\ hist'[r].landed = txn[p] /\ txn[p] # hist[r].batch
        BY <1>1, <1>2, <2>4, <3>2 DEF RunInv, BatchInv
      <4> QED
        BY <1>3, <2>4, <3>2, <4>1
    <3> QED
      BY <3>1, <3>2
  <2> QED
    BY <2>2, <2>3, <2>4 DEF LandInv
<1> QED
  BY <1>5, <1>6, <1>7 DEF RunInv

\* finish_run("success") commits an empty transaction.
LEMMA EmptyCommit ==
  ASSUME TypeInv, RunInv, NEW p \in Invocations, pc[p] = "finish", UNCHANGED <<fact, hist, txn>>
  PROVE  CommitTxn(p)
<1>1. txn[p] = {} /\ txn \in [Invocations -> SUBSET Row]
  BY DEF RunInv, BatchInv, TypeInv, TypeOK
<1> QED
  BY <1>1 DEF CommitTxn

\* Nothing is owned before start_run, whatever is fetched.
LEMMA FetchRun ==
  ASSUME TypeInv, RunInv, NEW p \in Invocations, NEW batch, Fetch(p, batch)
  PROVE  RunInv'
<1>1. txn[p] = {} /\ lost[p] = FALSE
  BY DEF Fetch, RunInv, BatchInv
<1>2. Releases(p)
  BY <1>1 DEF Fetch, Return, Goto, Releases, OnlyMoves, TypeInv, TypeOK, repoVars
<1> QED
  BY <1>2, ReleaseStep

LEMMA RunStepInv == TypeInv /\ RunInv /\ [Next]_vars => RunInv'
<1> SUFFICES ASSUME TypeInv, RunInv, [Next]_vars PROVE RunInv'
  OBVIOUS
<1>a. ASSUME NEW p \in Invocations, ~Owns(p), pc[p] # "close" PROVE txn[p] = {} /\ lost[p] = FALSE
  BY <1>a DEF RunInv, BatchInv, Owns
<1>1. ASSUME NEW p \in Invocations, Launch(p) PROVE RunInv'
  <2>1. Releases(p)
    BY <1>1, <1>a DEF Launch, MayStart, Goto, Releases, OnlyMoves, Owns, TypeInv, TypeOK, repoVars
  <2> QED
    BY <2>1, ReleaseStep
<1>2. ASSUME NEW p \in Invocations, ConfigRejected(p) PROVE RunInv'
  <2>1. Releases(p)
    BY <1>2, <1>a DEF ConfigRejected, MayStart, Goto, Releases, OnlyMoves, Owns, TypeInv, TypeOK,
       repoVars
  <2> QED
    BY <2>1, ReleaseStep
<1>3. ASSUME NEW p \in Invocations, Connect(p) PROVE RunInv'
  <2>1. Releases(p)
    BY <1>3, <1>a DEF Connect, Goto, Releases, OnlyMoves, Owns, TypeInv, TypeOK, repoVars
  <2> QED
    BY <2>1, ReleaseStep
<1>4. ASSUME NEW p \in Invocations, ConnectFails(p) PROVE RunInv'
  <2>1. Releases(p)
    BY <1>4 DEF ConnectFails, Raise, Goto, Releases, OnlyMoves, TypeInv, TypeOK, repoVars
  <2> QED
    BY <2>1, ReleaseStep
<1>5. ASSUME NEW p \in Invocations, Close(p) PROVE RunInv'
  <2>1. Releases(p)
    BY <1>5 DEF Close, AfterInstance, Rollback, Goto, Releases, OnlyMoves, TypeInv, TypeOK, repoVars
  <2> QED
    BY <2>1, ReleaseStep
<1>6. ASSUME NEW p \in Invocations, NEW batch \in Batches, Fetch(p, batch) PROVE RunInv'
  BY <1>6, FetchRun
<1>7. ASSUME NEW p \in Invocations, FetchFails(p) PROVE RunInv'
  <2>1. Releases(p)
    BY <1>7 DEF FetchFails, Raise, Goto, Releases, OnlyMoves, TypeInv, TypeOK, repoVars
  <2> QED
    BY <2>1, ReleaseStep
<1>8. ASSUME NEW p \in Invocations, StartRun(p) PROVE RunInv'
  BY <1>8, InsertStep DEF StartRun, Goto, OnlyMoves, TypeInv, TypeOK
<1>9. ASSUME NEW p \in Invocations, StartRunFails(p) PROVE RunInv'
  <2>1. /\ OnlyMoves(p) /\ pc[p] = "start" /\ pc'[p] = "close" /\ txn'[p] = txn[p]
        /\ lost'[p] = lost[p]
    BY <1>9 DEF StartRunFails, Raise, Goto, OnlyMoves, TypeInv, TypeOK
  <2>2. CASE InsertRun(p)
    BY <2>1, <2>2, InsertStep
  <2>3. CASE UNCHANGED <<now, runs, nextId, hist>>
    BY <2>1, <2>3, ReleaseStep DEF Releases
  <2> QED
    BY <1>9, <2>2, <2>3 DEF StartRunFails
<1>b. ASSUME NEW p \in Invocations, pc[p] = "persist"
      PROVE  LET h == hist[runId[p]]
             IN  /\ h.landed = {} /\ txn[p] \cap todo[p] = {}
                 /\ txn[p] \cup todo[p] \subseteq h.batch
                 /\ Covered(h.batch, txn[p] \cup todo[p])
                 /\ lost[p] = FALSE /\ KeysDiffer(txn[p])
  BY <1>b DEF RunInv, BatchInv
<1>10. ASSUME NEW p \in Invocations, NEW row \in todo[p], Merge(p, row) PROVE RunInv'
  <2>1. /\ Keeps(p) /\ pc[p] = "persist" /\ pc'[p] = "persist" /\ lost'[p] = lost[p]
        /\ txn'[p] = Executed(txn[p], row) /\ todo'[p] = todo[p] \ {row}
    BY <1>10 DEF Merge, Keeps, OnlyMoves, Owns, TypeInv, TypeOK, repoVars
  <2>2. KeysDiffer(Executed(txn[p], row))
    BY <1>b, <2>1, ExecutedKeys
  <2> DEFINE h == hist[runId[p]]
             done == Executed(txn[p], row)
             left == todo[p] \ {row}
  <2>3. done \cup left \subseteq h.batch /\ done \cap left = {}
    BY <1>b, <2>1 DEF Executed
  <2>4. ASSUME NEW x \in h.batch PROVE \E y \in done \cup left : y.key = x.key
    <3>1. PICK y \in txn[p] \cup todo[p] : y.key = x.key
      BY <1>b, <2>1 DEF Covered
    <3>2. row \in done /\ (y.key # row.key => y \in done \cup left)
      BY <3>1 DEF Executed
    <3> QED
      BY <3>1, <3>2
  <2>5. Covered(h.batch, done \cup left)
    BY <2>4 DEF Covered
  <2> HIDE DEF done, left, h
  <2>6. /\ KeysDiffer(txn'[p]) /\ txn'[p] \cup todo'[p] \subseteq h.batch
        /\ txn'[p] \cap todo'[p] = {} /\ Covered(h.batch, txn'[p] \cup todo'[p])
    BY <2>1, <2>2, <2>3, <2>5 DEF done, left
  <2> QED
    BY <1>b, <2>1, <2>6, KeepStep DEF h
<1>c. KeysDiffer({})
  BY DEF KeysDiffer
<1>11. ASSUME NEW p \in Invocations, MergeRejected(p) PROVE RunInv'
  <2>1. /\ Keeps(p) /\ pc[p] = "persist" /\ pc'[p] = "fail" /\ todo[p] # {}
        /\ txn'[p] = txn[p] /\ lost'[p] = lost[p]
    BY <1>11 DEF MergeRejected, OnPersistError, Goto, Keeps, OnlyMoves, Owns, TypeInv, TypeOK,
       repoVars
  <2>2. txn[p] \subseteq hist[runId[p]].batch /\ txn[p] # hist[runId[p]].batch
    BY <1>b, <2>1
  <2> QED
    BY <1>b, <2>1, <2>2, KeepStep
<1>12. ASSUME NEW p \in Invocations, TransactionAborted(p) PROVE RunInv'
  <2>1. /\ Keeps(p) /\ pc[p] = "persist" /\ pc'[p] = "fail" /\ txn[p] \cup todo[p] # {}
        /\ txn'[p] = {} /\ lost'[p] = lost[p]
    BY <1>12 DEF TransactionAborted, OnPersistError, Rollback, Goto, Keeps, OnlyMoves, Owns,
       TypeInv, TypeOK, repoVars
  <2>2. hist[runId[p]].batch # {}
    BY <1>b, <2>1
  <2> QED
    BY <1>b, <1>c, <2>1, <2>2, KeepStep
<1>13. ASSUME NEW p \in Invocations, ConnectionLost(p) PROVE RunInv'
  <2>1. Keeps(p) /\ pc'[p] = "fail" /\ txn'[p] = {} /\ lost'[p] = TRUE
    BY <1>13 DEF ConnectionLost, OnPersistError, Rollback, Goto, Keeps, OnlyMoves, Owns, TypeInv,
       TypeOK, repoVars
  <2> QED
    BY <1>c, <2>1, KeepStep
<1>14. ASSUME NEW p \in Invocations, CommitBatch(p) PROVE RunInv'
  BY <1>14, CommitStep DEF CommitBatch, CommitTxn, Goto, OnlyMoves, TypeInv, TypeOK
<1>15. ASSUME NEW p \in Invocations, CommitUnacknowledged(p) PROVE RunInv'
  BY <1>15, CommitStep DEF CommitUnacknowledged, OnPersistError, CommitTxn, Goto, OnlyMoves,
     TypeInv, TypeOK
<1>16. ASSUME NEW p \in Invocations, FinishSuccess(p) PROVE RunInv'
  <2>1. OnlyMoves(p) /\ pc[p] = "finish" /\ pc'[p] = "close" /\ CommitTxn(p)
    BY <1>16, EmptyCommit DEF FinishSuccess, Return, Goto, OnlyMoves, TypeInv, TypeOK
  <2> QED
    BY <1>16, <2>1, FinishStep DEF FinishSuccess, Owns
<1>17. ASSUME NEW p \in Invocations, FinishSuccessFails(p) PROVE RunInv'
  <2>1. /\ OnlyMoves(p) /\ pc[p] = "finish" /\ pc'[p] = "close" /\ CommitTxn(p)
        /\ UNCHANGED <<hist, txn>>
    BY <1>17, EmptyCommit DEF FinishSuccessFails, Raise, Goto, OnlyMoves, TypeInv, TypeOK
  <2>2. CASE runs' = runs
    BY <2>1, <2>2, ReleaseStep DEF Releases
  <2>3. CASE runs' = Finished(runId[p], "success", Cardinality(hist[runId[p]].batch))
    BY <2>1, <2>3, FinishStep DEF Owns
  <2> QED
    BY <1>17, <2>2, <2>3 DEF FinishSuccessFails
<1>18. ASSUME NEW p \in Invocations, FinishFailed(p) PROVE RunInv'
  <2>1. OnlyMoves(p) /\ pc[p] = "fail" /\ ~lost[p] /\ pc'[p] = "close" /\ CommitTxn(p)
    BY <1>18 DEF FinishFailed, CommitTxn, Raise, Goto, OnlyMoves, TypeInv, TypeOK
  <2> QED
    BY <1>18, <2>1, FinishStep DEF FinishFailed, Owns
<1>19. ASSUME NEW p \in Invocations, FinishFailedFails(p) PROVE RunInv'
  <2>1. pc[p] = "fail" /\ pc'[p] = "close"
    BY <1>19 DEF FinishFailedFails, Raise, Goto, TypeInv, TypeOK
  <2>2. CASE UNCHANGED <<runs, fact, hist, txn>>
    <3>1. Releases(p)
      BY <1>19, <2>1, <2>2 DEF FinishFailedFails, Raise, Goto, Releases, OnlyMoves, TypeInv, TypeOK
    <3> QED
      BY <3>1, ReleaseStep
  <2>3. CASE ~lost[p] /\ runs' = Finished(runId[p], "failed", Null) /\ CommitTxn(p)
    <3>1. OnlyMoves(p)
      BY <1>19, <2>3 DEF FinishFailedFails, CommitTxn, Raise, Goto, OnlyMoves, TypeInv, TypeOK
    <3> QED
      BY <2>1, <2>3, <3>1, FinishStep DEF Owns
  <2> QED
    BY <1>19, <2>2, <2>3 DEF FinishFailedFails
<1>20. ASSUME NEW p \in Invocations, Crash(p) PROVE RunInv'
  <2>1. Releases(p)
    BY <1>20 DEF Crash, Rollback, Goto, Releases, OnlyMoves, TypeInv, TypeOK, repoVars
  <2> QED
    BY <2>1, ReleaseStep
<1>21. CASE Tick \/ UNCHANGED vars
  <2>1. UNCHANGED <<repoVars, procVars>>
    BY <1>21 DEF Tick, vars
  <2> QED
    BY <2>1 DEF repoVars, procVars, RunInv, OwnerInv, BatchInv, LandInv, Owns, KeysDiffer, Covered
<1> QED
  BY <1>1, <1>2, <1>3, <1>4, <1>5, <1>6, <1>7, <1>8, <1>9, <1>10, <1>11, <1>12, <1>13, <1>14,
     <1>15, <1>16, <1>17, <1>18, <1>19, <1>20, <1>21
  DEF Next, Loop, RunStep, Failure, AllEnded

-----------------------------------------------------------------------------
(* What a step may do to collection_run and to what has landed under its rows. *)

\* A step of the specification, or the fetch of a batch that Batches need not have.
AnyStep ==
    \/ [Next]_vars
    \/ \E p \in Invocations : \E batch \in SUBSET Row : IsFiniteSet(batch) /\ Fetch(p, batch)

LEMMA BaseInit == Init => Base
  BY InitType, InitRun DEF Base

LEMMA BaseStep == Base /\ AnyStep => Base'
<1>1. ASSUME Base, NEW p \in Invocations, NEW batch \in SUBSET Row, IsFiniteSet(batch), Fetch(p, batch)
      PROVE  Base'
  BY <1>1, FetchType, FetchRun DEF Base
<1> QED
  BY <1>1, TypeStep, RunStepInv DEF Base, AnyStep

Opens(p) == pc[p] = "start" /\ InsertRun(p)

Commits(p) == pc[p] = "persist" /\ todo[p] = {} /\ CommitTxn(p) /\ UNCHANGED runs

Closes(p, status, n) ==
    /\ CommitTxn(p)
    /\ runs' = Finished(runId[p], status, n)
    /\ \/ pc[p] = "finish" /\ status = "success"
       \/ pc[p] = "fail" /\ ~lost[p] /\ status = "failed"

TableStep ==
    \/ UNCHANGED <<runs, hist>>
    \/ \E p \in Invocations : Opens(p)
    \/ \E p \in Invocations : Commits(p)
    \/ \E p \in Invocations : \E status \in {"success", "failed"} :
         \E n \in Nat \cup {Null} : Closes(p, status, n)

LEMMA StepEffect == TypeInv /\ RunInv /\ [Next]_vars => TableStep
<1> SUFFICES ASSUME TypeInv, RunInv, [Next]_vars PROVE TableStep
  OBVIOUS
<1>1. ASSUME NEW p \in Invocations, Loop(p) PROVE TableStep
  BY <1>1 DEF Loop, Launch, ConfigRejected, Connect, Close, TableStep, repoVars
<1>2. ASSUME NEW p \in Invocations, NEW batch \in Batches, Fetch(p, batch) PROVE TableStep
  BY <1>2 DEF Fetch, TableStep, repoVars
<1>3. ASSUME NEW p \in Invocations, RunStep(p) PROVE TableStep
  <2>1. CASE StartRun(p)
    BY <2>1 DEF StartRun, TableStep, Opens
  <2>2. CASE \E row \in todo[p] : Merge(p, row)
    BY <2>2 DEF Merge, TableStep, repoVars
  <2>3. CASE CommitBatch(p)
    BY <2>3 DEF CommitBatch, TableStep, Commits
  <2>4. CASE FinishSuccess(p)
    <3>1. CommitTxn(p) /\ Cardinality(hist[runId[p]].batch) \in Nat
      BY <2>4, EmptyCommit, CountType DEF FinishSuccess
    <3> QED
      BY <2>4, <3>1 DEF FinishSuccess, TableStep, Closes
  <2>5. CASE FinishFailed(p)
    BY <2>5 DEF FinishFailed, TableStep, Closes
  <2> QED
    BY <1>3, <2>1, <2>2, <2>3, <2>4, <2>5 DEF RunStep
<1>4. ASSUME NEW p \in Invocations, Failure(p) PROVE TableStep
  <2>1. CASE StartRunFails(p)
    BY <2>1 DEF StartRunFails, TableStep, Opens
  <2>2. CASE CommitUnacknowledged(p)
    BY <2>2 DEF CommitUnacknowledged, TableStep, Commits
  <2>3. CASE FinishSuccessFails(p)
    <3>1. CommitTxn(p) /\ Cardinality(hist[runId[p]].batch) \in Nat
      BY <2>3, EmptyCommit, CountType DEF FinishSuccessFails
    <3> QED
      BY <2>3, <3>1 DEF FinishSuccessFails, TableStep, Closes
  <2>4. CASE FinishFailedFails(p)
    BY <2>4 DEF FinishFailedFails, TableStep, Closes
  <2>5. CASE \/ ConnectFails(p) \/ FetchFails(p) \/ MergeRejected(p)
             \/ TransactionAborted(p) \/ ConnectionLost(p) \/ Crash(p)
    BY <2>5 DEF ConnectFails, FetchFails, MergeRejected, TransactionAborted, ConnectionLost,
       Crash, TableStep, repoVars
  <2> QED
    BY <1>4, <2>1, <2>2, <2>3, <2>4, <2>5 DEF Failure
<1>5. CASE Tick \/ AllEnded \/ UNCHANGED vars
  BY <1>5 DEF Tick, AllEnded, vars, repoVars, TableStep
<1> QED
  BY <1>1, <1>2, <1>3, <1>4, <1>5 DEF Next

LEMMA AnyEffect == Base /\ AnyStep => TableStep
  BY StepEffect DEF Base, AnyStep, Fetch, TableStep, repoVars

LEMMA ClosedStep ==
  ASSUME Base, TableStep
  PROVE  \A r \in DOMAIN runs : runs[r].status # "running" => /\ runs'[r] = runs[r]
                                                              /\ hist'[r] = hist[r]
<1> SUFFICES ASSUME NEW r \in DOMAIN runs, runs[r].status # "running"
             PROVE  runs'[r] = runs[r] /\ hist'[r] = hist[r]
  OBVIOUS
<1>0. TypeInv /\ RunInv
  BY DEF Base
<1>1. r \in DOMAIN hist
  BY <1>0 DEF RunInv, OwnerInv
<1>2. CASE UNCHANGED <<runs, hist>>
  BY <1>2
<1>3. ASSUME NEW p \in Invocations, Opens(p)
      PROVE  runs'[r] = runs[r] /\ hist'[r] = hist[r]
  <2>1. r # nextId
    BY <1>0 DEF TypeInv, TypeOK
  <2> QED
    BY <1>1, <1>3, <2>1 DEF Opens, InsertRun
<1>4. ASSUME NEW p \in Invocations, Commits(p)
      PROVE  runs'[r] = runs[r] /\ hist'[r] = hist[r]
  <2>1. Owns(p)
    BY <1>4 DEF Commits, Owns
  <2> QED
    BY <1>0, <1>1, <1>4, <2>1, OwnRow, CommitLands DEF Commits
<1>5. ASSUME NEW p \in Invocations, NEW status \in {"success", "failed"},
             NEW n \in Nat \cup {Null}, Closes(p, status, n)
      PROVE  runs'[r] = runs[r] /\ hist'[r] = hist[r]
  <2>1. Owns(p)
    BY <1>5 DEF Closes, Owns
  <2>2. r # runId[p]
    BY <1>0, <2>1, OwnRow
  <2>3. hist'[r] = hist[r]
    BY <1>0, <1>1, <1>5, <2>1, <2>2, OwnRow, CommitLands DEF Closes
  <2> QED
    BY <1>5, <2>2, <2>3 DEF Closes, Finished
<1> QED
  BY <1>2, <1>3, <1>4, <1>5 DEF TableStep

\* The rows that were there keep their origin, their batch and what has landed of it.
KeepsHist ==
    /\ DOMAIN hist \subseteq DOMAIN hist'
    /\ \A r \in DOMAIN hist : /\ hist'[r].by = hist[r].by
                              /\ hist'[r].place = hist[r].place
                              /\ hist'[r].batch = hist[r].batch
                              /\ hist[r].landed \subseteq hist'[r].landed

\* In collection_run they keep their start and their instance, and a success stays one.
KeepsRows ==
    /\ KeepsHist
    /\ DOMAIN runs \subseteq DOMAIN runs'
    /\ \A r \in DOMAIN runs : /\ runs'[r].started = runs[r].started
                              /\ runs'[r].inst = runs[r].inst
                              /\ runs[r].status = "success" => runs'[r].status = "success"

LEMMA RowsKept == Base /\ TableStep => KeepsRows
<1> SUFFICES ASSUME Base, TableStep PROVE KeepsRows
  OBVIOUS
<1>0. TypeInv /\ RunInv
  BY DEF Base
<1>1. CASE UNCHANGED <<runs, hist>>
  BY <1>1 DEF KeepsRows, KeepsHist
<1>2. ASSUME NEW p \in Invocations, Opens(p) PROVE KeepsRows
  <2>1. nextId \notin DOMAIN hist /\ nextId \notin DOMAIN runs
    BY <1>0 DEF TypeInv, TypeOK
  <2> QED
    BY <1>2, <2>1 DEF Opens, InsertRun, KeepsRows, KeepsHist
<1>3. ASSUME NEW p \in Invocations, Owns(p), CommitTxn(p) PROVE KeepsHist
  <2>1. runId[p] \in DOMAIN hist
    BY <1>0, <1>3, OwnRow
  <2>2. /\ DOMAIN hist' = DOMAIN hist
        /\ \A r \in DOMAIN hist : /\ hist'[r].by = hist[r].by
                                  /\ hist'[r].place = hist[r].place
                                  /\ hist'[r].batch = hist[r].batch
                                  /\ r # runId[p] => hist'[r] = hist[r]
        /\ hist'[runId[p]].landed = hist[runId[p]].landed \cup txn[p]
    BY <1>0, <1>3, <2>1, CommitLands
  <2>3. \A r \in DOMAIN hist : hist[r].landed \subseteq hist'[r].landed
    BY <2>2
  <2> QED
    BY <2>2, <2>3 DEF KeepsHist
<1>4. ASSUME NEW p \in Invocations, Commits(p) PROVE KeepsRows
  BY <1>3, <1>4 DEF Commits, Owns, KeepsRows
<1>5. ASSUME NEW p \in Invocations, NEW status \in {"success", "failed"},
             NEW n \in Nat \cup {Null}, Closes(p, status, n)
      PROVE  KeepsRows
  <2>1. Owns(p) /\ CommitTxn(p) /\ runs' = Finished(runId[p], status, n)
    BY <1>5 DEF Closes, Owns
  <2>2. runs \in [DOMAIN runs -> RunRow]
    BY <1>0 DEF TypeInv, TypeOK
  <2>3. /\ DOMAIN runs' = DOMAIN runs
        /\ \A r \in DOMAIN runs : /\ runs'[r].started = runs[r].started
                                  /\ runs'[r].inst = runs[r].inst
                                  /\ r # runId[p] => runs'[r] = runs[r]
    BY <2>1, <2>2 DEF Finished, RunRow
  <2>4. \A r \in DOMAIN runs : runs[r].status = "success" => runs'[r].status = "success"
    BY <1>0, <2>1, <2>3, OwnRow
  <2> QED
    BY <1>3, <2>1, <2>3, <2>4 DEF KeepsRows
<1> QED
  BY <1>0, <1>1, <1>2, <1>4, <1>5 DEF TableStep

-----------------------------------------------------------------------------
(* Batches with one row per key *)

ProperStep ==
    \/ [Next]_vars
    \/ \E p \in Invocations : \E batch \in SUBSET Row : Proper(batch) /\ Fetch(p, batch)

LEMMA ProperIsAny == ProperStep => AnyStep
  BY DEF ProperStep, AnyStep, Proper

LEMMA ProperSubset ==
  ASSUME NEW b, Proper(b), NEW c \in SUBSET b
  PROVE  Proper(c)
  BY FS_Subset DEF Proper, KeysDiffer

\* Only a fetch gives an invocation rows to write.
LEMMA TodoStep ==
  ASSUME TypeInv, ProperStep, NEW q \in Invocations
  PROVE  todo'[q] \subseteq todo[q] \/ Proper(todo'[q])
<1> DEFINE Goal == todo'[q] \subseteq todo[q] \/ Proper(todo'[q])
<1>0. todo \in [Invocations -> SUBSET Row]
  BY DEF TypeInv, TypeOK
<1>1. ASSUME NEW p \in Invocations, NEW batch, Proper(batch), Fetch(p, batch) PROVE Goal
  BY <1>0, <1>1 DEF Fetch
<1>2. ASSUME NEW p \in Invocations, Loop(p) PROVE Goal
  BY <1>0, <1>2 DEF Loop, Launch, ConfigRejected, Connect, Close
<1>3. ASSUME NEW p \in Invocations, RunStep(p) PROVE Goal
  BY <1>0, <1>3 DEF RunStep, StartRun, Merge, CommitBatch, FinishSuccess, FinishFailed
<1>4. ASSUME NEW p \in Invocations, Failure(p) PROVE Goal
  BY <1>0, <1>4 DEF Failure, ConnectFails, FetchFails, StartRunFails, MergeRejected,
     TransactionAborted, ConnectionLost, CommitUnacknowledged, FinishSuccessFails,
     FinishFailedFails, Crash
<1>5. CASE Tick \/ AllEnded \/ UNCHANGED vars
  BY <1>5 DEF Tick, AllEnded, vars, procVars
<1> HIDE DEF Goal
<1> QED
  BY <1>1, <1>2, <1>3, <1>4, <1>5, BatchesAssumption DEF ProperStep, Next, Goal

\* The rows of collection_run are those of hist, and a new one takes the batch of its run.
LEMMA TableRows ==
  ASSUME Base, TableStep, DOMAIN runs = DOMAIN hist
  PROVE  /\ DOMAIN runs' = DOMAIN hist'
         /\ \A r \in DOMAIN hist' \ DOMAIN hist : \E p \in Invocations : hist'[r].batch = todo[p]
<1>0. TypeInv /\ RunInv
  BY DEF Base
<1>1. ASSUME NEW p \in Invocations, Owns(p), CommitTxn(p) PROVE DOMAIN hist' = DOMAIN hist
  BY <1>0, <1>1, OwnRow, CommitLands
<1>2. ASSUME NEW p \in Invocations, Opens(p)
      PROVE  /\ DOMAIN runs' = DOMAIN runs \cup {nextId} /\ DOMAIN hist' = DOMAIN hist \cup {nextId}
             /\ hist'[nextId].batch = todo[p]
  BY <1>2 DEF Opens, InsertRun
<1> QED
  BY <1>1, <1>2 DEF TableStep, Commits, Closes, Owns, Finished

LEMMA CoreInit == Init => Core
  BY BaseInit, FS_EmptySet DEF Init, Core, ProperInv, Proper, KeysDiffer

LEMMA CoreStep == Core /\ ProperStep => Core'
<1> SUFFICES ASSUME Core, ProperStep PROVE Core'
  OBVIOUS
<1>1. Base /\ Base' /\ TableStep /\ KeepsRows /\ TypeInv
  BY ProperIsAny, BaseStep, AnyEffect, RowsKept DEF Core, Base
<1>2. /\ DOMAIN runs' = DOMAIN hist'
      /\ \A r \in DOMAIN hist' \ DOMAIN hist : \E p \in Invocations : hist'[r].batch = todo[p]
  BY <1>1, TableRows DEF Core
<1>3. \A p \in Invocations : Proper(todo'[p])
  BY <1>1, TodoStep, ProperSubset DEF Core, ProperInv
<1>4. \A r \in DOMAIN hist' : Proper(hist'[r].batch)
  BY <1>1, <1>2 DEF Core, ProperInv, KeepsRows, KeepsHist
<1> QED
  BY <1>1, <1>2, <1>3, <1>4 DEF Core, ProperInv

LEMMA NextIsProper == [Next]_vars => ProperStep
  BY DEF ProperStep

\* With one row per key, nothing is missing from a batch whose keys have all landed.
LEMMA CoveredAll ==
  ASSUME NEW b, Proper(b), NEW l \in SUBSET b, Covered(b, l)
  PROVE  l = b
  BY DEF Proper, KeysDiffer, Covered

LEMMA CoreIsTruthful == Core => StatusIsTruthful
<1> SUFFICES ASSUME Core, NEW r \in DOMAIN runs PROVE StatusIsTruthful!(r)
  BY DEF StatusIsTruthful
<1>1. /\ Proper(hist[r].batch) /\ hist[r].landed \subseteq hist[r].batch
      /\ runs[r].status = "success" => /\ Covered(hist[r].batch, hist[r].landed)
                                       /\ runs[r].count = Cardinality(hist[r].batch)
      /\ runs[r].status = "failed" => hist[r].landed # hist[r].batch
  BY DEF Core, ProperInv, Base, RunInv, LandInv
<1> QED
  BY <1>1, CoveredAll

\* A "success" row has its whole batch committed and counted, a "failed" row has not,
\* whatever the instances, the batches and the number of overlapping invocations.
THEOREM StatusTruthful == Spec => []StatusIsTruthful
<1>1. Init => Core
  BY CoreInit
<1>2. Core /\ [Next]_vars => Core'
  BY NextIsProper, CoreStep
<1>3. Core => StatusIsTruthful
  BY CoreIsTruthful
<1> QED
  BY <1>1, <1>2, <1>3, PTL DEF Spec

LEMMA ClosedKept == Base /\ AnyStep => ClosedRowsKept
<1> SUFFICES ASSUME Base, AnyStep PROVE ClosedRowsKept
  OBVIOUS
<1>1. TableStep
  BY AnyEffect
<1> QED
  BY <1>1, ClosedStep DEF ClosedRowsKept

\* A closed row of collection_run is never written again, and nothing lands under it.
THEOREM ClosedFinal == Spec => ClosedRowsAreFinal
<1>1. Init => Base
  BY BaseInit
<1>2. Base /\ [Next]_vars => Base'
  BY BaseStep DEF AnyStep
<1>3. Base /\ [Next]_vars => ClosedRowsKept
  BY ClosedKept DEF AnyStep
<1> QED
  BY <1>1, <1>2, <1>3, PTL DEF Spec, ClosedRowsAreFinal

-----------------------------------------------------------------------------
(* The refinement of RunLedger *)

LEMMA LedgerStep == Core /\ TableStep => [Ledger!LedgerNext]_LedgerRows
<1> SUFFICES ASSUME TypeInv, RunInv, ProperInv, DOMAIN runs = DOMAIN hist, TableStep
             PROVE  [Ledger!LedgerNext]_LedgerRows
  BY DEF Core, Base
<1>0. /\ DOMAIN LedgerRows = DOMAIN runs
      /\ DOMAIN LedgerRows' = DOMAIN runs'
      /\ DOMAIN runs = DOMAIN hist
      /\ DOMAIN runs \subseteq 1 .. nextId - 1 /\ nextId \in Nat /\ MaxRuns \in Nat
  BY BoundsAssumption DEF LedgerRows, TypeInv, TypeOK
<1>1. CASE UNCHANGED <<runs, hist>>
  BY <1>1 DEF LedgerRows
<1>2. ASSUME NEW p \in Invocations, Opens(p) PROVE Ledger!LedgerNext
  <2>1. nextId \in 1 .. MaxRuns /\ nextId \notin DOMAIN runs /\ nextId > 0
    BY <1>0, <1>2 DEF Opens, InsertRun, TypeInv, TypeOK
  <2>2. todo[p] \in SUBSET Row
    BY DEF TypeInv, TypeOK
  <2>3. Ledger!Open(nextId, todo[p])
    <3>1. LedgerRows' = [x \in DOMAIN LedgerRows \cup {nextId} |->
                           IF x = nextId
                           THEN [status |-> "running", wanted |-> todo[p], landed |-> {}]
                           ELSE LedgerRows[x]]
      BY <1>0, <1>2, <2>1 DEF Opens, InsertRun, LedgerRows
    <3> QED
      BY <1>0, <2>1, <3>1 DEF Ledger!Open
  <2> QED
    BY <2>1, <2>2, <2>3 DEF Ledger!LedgerNext
<1>3. ASSUME NEW p \in Invocations, NEW status \in {"running", "success", "failed"},
             Owns(p), CommitTxn(p),
             DOMAIN runs' = DOMAIN runs,
             runs'[runId[p]].status = status,
             \A r \in DOMAIN runs : r # runId[p] => runs'[r] = runs[r],
             hist[runId[p]].landed \cup txn[p] \subseteq hist[runId[p]].batch,
             status = "success" => hist[runId[p]].landed \cup txn[p] = hist[runId[p]].batch,
             status = "failed" => hist[runId[p]].landed \cup txn[p] # hist[runId[p]].batch
      PROVE  Ledger!LedgerNext
  <2> DEFINE id == runId[p]
  <2>1. id \in DOMAIN runs /\ id \in DOMAIN hist /\ runs[id].status = "running"
    BY <1>0, <1>3, OwnRow
  <2>2. /\ DOMAIN hist' = DOMAIN hist
        /\ \A r \in DOMAIN hist : /\ hist'[r].batch = hist[r].batch
                                  /\ r # id => hist'[r] = hist[r]
        /\ hist'[id].landed = hist[id].landed \cup txn[p]
    BY <1>3, <2>1, CommitLands
  <2>3. txn[p] \in SUBSET Row
    BY DEF TypeInv, TypeOK
  <2>4. /\ LedgerRows[id].status = "running"
        /\ LedgerRows[id].wanted = hist[id].batch
        /\ LedgerRows[id].landed = hist[id].landed
    BY <2>1 DEF LedgerRows
  <2> DEFINE entry == [status |-> status, wanted |-> LedgerRows[id].wanted,
                       landed |-> LedgerRows[id].landed \cup txn[p]]
  <2>5. LedgerRows' = [LedgerRows EXCEPT ![id] = entry]
    <3>1. ASSUME NEW r \in DOMAIN runs, r # id PROVE LedgerRows'[r] = LedgerRows[r]
      BY <1>0, <1>3, <2>2, <3>1 DEF LedgerRows
    <3>2. LedgerRows'[id] = entry
      <4>1. id \in DOMAIN runs'
        BY <1>3, <2>1
      <4> QED
        BY <1>3, <2>1, <2>2, <2>4, <4>1 DEF LedgerRows
    <3>3. LedgerRows = [r \in DOMAIN runs |-> LedgerRows[r]]
      BY DEF LedgerRows
    <3>4. LedgerRows' = [r \in DOMAIN runs |-> LedgerRows'[r]]
      BY <1>3 DEF LedgerRows
    <3> HIDE DEF id, entry
    <3> QED
      BY <1>0, <2>1, <3>1, <3>2, <3>3, <3>4
  <2>6. Ledger!Land(id, txn[p], status)
    BY <1>0, <1>3, <2>1, <2>4, <2>5 DEF Ledger!Land
  <2> QED
    BY <1>0, <2>1, <2>3, <2>6 DEF Ledger!LedgerNext
<1>4. ASSUME NEW p \in Invocations, Commits(p) PROVE Ledger!LedgerNext
  <2>1. Owns(p) /\ CommitTxn(p) /\ runs' = runs /\ runs[runId[p]].status = "running"
    BY <1>0, <1>4, OwnRow DEF Commits, Owns
  <2>2. hist[runId[p]].landed \cup txn[p] \subseteq hist[runId[p]].batch
    BY <1>4 DEF Commits, RunInv, BatchInv
  <2> QED
    BY <1>3, <2>1, <2>2
<1>5. ASSUME NEW p \in Invocations, NEW status \in {"success", "failed"},
             NEW n \in Nat \cup {Null}, Closes(p, status, n)
      PROVE  Ledger!LedgerNext
  <2>1. Owns(p) /\ CommitTxn(p) /\ runId[p] \in DOMAIN runs
    BY <1>0, <1>5, OwnRow DEF Closes, Owns
  <2>2. /\ DOMAIN runs' = DOMAIN runs
        /\ runs'[runId[p]].status = status
        /\ \A r \in DOMAIN runs : r # runId[p] => runs'[r] = runs[r]
    <3>1. runs[runId[p]] \in RunRow
      BY <2>1 DEF TypeInv, TypeOK
    <3>2. runs' = Finished(runId[p], status, n)
      BY <1>5 DEF Closes
    <3> QED
      BY <2>1, <3>1, <3>2 DEF Finished, RunRow
  <2>3. /\ hist[runId[p]].landed \cup txn[p] \subseteq hist[runId[p]].batch
        /\ status = "success" => hist[runId[p]].landed \cup txn[p] = hist[runId[p]].batch
        /\ status = "failed" => hist[runId[p]].landed \cup txn[p] # hist[runId[p]].batch
    <3>1. hist[runId[p]].landed \subseteq hist[runId[p]].batch /\ Proper(hist[runId[p]].batch)
      BY <1>0, <2>1 DEF RunInv, LandInv, ProperInv
    <3>2. CASE pc[p] = "finish"
      <4>1. Covered(hist[runId[p]].batch, hist[runId[p]].landed) /\ txn[p] = {}
        BY <3>2 DEF RunInv, BatchInv
      <4>2. hist[runId[p]].landed = hist[runId[p]].batch
        BY <3>1, <4>1, CoveredAll
      <4> QED
        BY <1>5, <3>2, <4>1, <4>2 DEF Closes
    <3>3. CASE pc[p] = "fail"
      BY <1>5, <3>3 DEF Closes, RunInv, BatchInv
    <3> QED
      BY <1>5, <3>2, <3>3 DEF Closes
  <2> QED
    BY <1>3, <2>1, <2>2, <2>3
<1> QED
  BY <1>1, <1>2, <1>4, <1>5 DEF TableStep

\* The collectors implement the ledger that readers of collection_run rely on.
THEOREM Refinement == Spec => ImplementsLedger
<1>1. Init => Core
  BY CoreInit
<1>2. Core /\ [Next]_vars => Core'
  BY NextIsProper, CoreStep
<1>3. Init => Ledger!LedgerInit
  BY DEF Init, Ledger!LedgerInit, LedgerRows
<1>4. Core /\ [Next]_vars => [Ledger!LedgerNext]_LedgerRows
  BY AnyEffect, LedgerStep DEF Core, AnyStep
<1> QED
  BY <1>1, <1>2, <1>3, <1>4, PTL DEF Spec, ImplementsLedger, Ledger!LedgerSpec

-----------------------------------------------------------------------------
(* What run.py reports *)

\* main() so far: verdicts up to the current instance, and the exit code they ask for.
ReportInv ==
    \A p \in Invocations :
        /\ pc[p] = "idle" => /\ exitCode[p] = 0
                             /\ \A i \in Places : reported[p][i] = "none"
        /\ Active(p) =>
             /\ \A i \in Places :
                  reported[p][i] = "none" <=> i > at[p] \/ (i = at[p] /\ pc[p] # "close")
             /\ exitCode[p] = 0 <=> \A i \in Places : reported[p][i] # "failed"
        /\ pc[p] = "done" =>
             (exitCode[p] = 0 <=> \A i \in Places : reported[p][i] = "ok")

\* A verdict ok of a run that writes has its row.
SuccessRow(p, i) ==
    \E r \in DOMAIN runs : /\ hist[r].by = p
                           /\ hist[r].place = i
                           /\ runs[r].inst = Monitored[i]
                           /\ runs[r].status = "success"

VerdictInv ==
    \A p \in Invocations : \A i \in Places :
        reported[p][i] = "ok" /\ ~dry[p] => SuccessRow(p, i)

Writing == {"start", "persist", "finish", "fail"}

\* A dry run never reaches start_run, and a process not yet started has done nothing.
DryInv ==
    \A p \in Invocations :
        /\ dry[p] => pc[p] \notin Writing /\ txn[p] = {}
        /\ dry[p] \/ pc[p] = "idle" => \A r \in DOMAIN hist : hist[r].by # p

\* A row is "running" because its owner is at it, or no longer can be.
StuckInv ==
    \A r \in DOMAIN runs :
        runs[r].status = "running" =>
            LET p == hist[r].by
                i == hist[r].place
            IN  \/ pc[p] = "dead"
                \/ reported[p][i] = "failed"
                \/ Owns(p) /\ runId[p] = r

-----------------------------------------------------------------------------
(* The ways in which a step moves main() *)

Verdict(p, v) ==
    /\ Active(p) /\ pc[p] # "close"
    /\ pc' = [pc EXCEPT ![p] = "close"]
    /\ reported' = [reported EXCEPT ![p][at[p]] = v]
    /\ exitCode' = IF v = "failed" THEN [exitCode EXCEPT ![p] = 1] ELSE exitCode
    /\ UNCHANGED <<at, dry>>

Proceed(p, l) ==
    /\ Active(p) /\ pc[p] # "close"
    /\ l \in Writing => ~dry[p] \/ pc[p] \in Writing
    /\ pc' = [pc EXCEPT ![p] = l]
    /\ UNCHANGED <<at, dry, reported, exitCode>>

Working == {"connect", "fetch", "start", "persist", "finish", "fail"}

MainStep ==
    \/ UNCHANGED <<pc, at, dry, reported, exitCode>>
    \/ \E p \in Invocations : \E l \in Working : Proceed(p, l)
    \/ \E p \in Invocations : \E v \in {"ok", "failed"} : Verdict(p, v)
    \/ \E p \in Invocations : Launch(p) \/ ConfigRejected(p) \/ Close(p) \/ Crash(p)

LEMMA MainEffect == [Next]_vars => MainStep
<1> SUFFICES ASSUME [Next]_vars PROVE MainStep
  OBVIOUS
<1>1. ASSUME NEW p \in Invocations, Loop(p) PROVE MainStep
  <2>1. CASE Connect(p)
    <3>1. Proceed(p, "fetch")
      BY <2>1 DEF Connect, Goto, Proceed, Active, Writing
    <3> QED
      BY <3>1 DEF MainStep, Working
  <2> QED
    BY <1>1, <2>1 DEF Loop, MainStep
<1>2. ASSUME NEW p \in Invocations, NEW batch \in Batches, Fetch(p, batch) PROVE MainStep
  <2>1. CASE dry[p]
    <3>1. Verdict(p, "ok")
      BY <1>2, <2>1 DEF Fetch, Return, Goto, Verdict, Active
    <3> QED
      BY <3>1 DEF MainStep
  <2>2. CASE ~dry[p]
    <3>1. Proceed(p, "start")
      BY <1>2, <2>2 DEF Fetch, Goto, Proceed, Active, Writing
    <3> QED
      BY <3>1 DEF MainStep, Working
  <2> QED
    BY <2>1, <2>2
<1>3. ASSUME NEW p \in Invocations, RunStep(p) PROVE MainStep
  <2>1. CASE StartRun(p)
    <3>1. Proceed(p, "persist")
      BY <2>1 DEF StartRun, Goto, Proceed, Active, Writing
    <3> QED
      BY <3>1 DEF MainStep, Working
  <2>2. CASE \E row \in todo[p] : Merge(p, row)
    BY <2>2 DEF Merge, MainStep
  <2>3. CASE CommitBatch(p)
    <3>1. Proceed(p, "finish")
      BY <2>3 DEF CommitBatch, Goto, Proceed, Active, Writing
    <3> QED
      BY <3>1 DEF MainStep, Working
  <2>4. CASE FinishSuccess(p)
    <3>1. Verdict(p, "ok")
      BY <2>4 DEF FinishSuccess, Return, Goto, Verdict, Active
    <3> QED
      BY <3>1 DEF MainStep
  <2>5. CASE FinishFailed(p)
    <3>1. Verdict(p, "failed")
      BY <2>5 DEF FinishFailed, Raise, Goto, Verdict, Active
    <3> QED
      BY <3>1 DEF MainStep
  <2> QED
    BY <1>3, <2>1, <2>2, <2>3, <2>4, <2>5 DEF RunStep
<1>4. ASSUME NEW p \in Invocations, Failure(p) PROVE MainStep
  <2>1. CASE MergeRejected(p) \/ TransactionAborted(p) \/ ConnectionLost(p) \/ CommitUnacknowledged(p)
    <3>1. Proceed(p, "fail")
      BY <2>1 DEF MergeRejected, TransactionAborted, ConnectionLost, CommitUnacknowledged,
         OnPersistError, Goto, Proceed, Active, Writing
    <3> QED
      BY <3>1 DEF MainStep, Working
  <2>2. CASE \/ ConnectFails(p) \/ FetchFails(p) \/ StartRunFails(p)
             \/ FinishSuccessFails(p) \/ FinishFailedFails(p)
    <3>1. Verdict(p, "failed")
      BY <2>2 DEF ConnectFails, FetchFails, StartRunFails, FinishSuccessFails, FinishFailedFails,
         Raise, Goto, Verdict, Active
    <3> QED
      BY <3>1 DEF MainStep
  <2> QED
    BY <1>4, <2>1, <2>2 DEF Failure, MainStep
<1>5. CASE Tick \/ AllEnded \/ UNCHANGED vars
  BY <1>5 DEF Tick, AllEnded, vars, procVars, MainStep
<1> QED
  BY <1>1, <1>2, <1>3, <1>4, <1>5 DEF Next

LEMMA ReportInit == Init => ReportInv
  BY PlacesType DEF Init, ReportInv, Active

LEMMA ReportStep == TypeInv /\ ReportInv /\ MainStep => ReportInv'
<1> SUFFICES ASSUME TypeInv, ReportInv, MainStep PROVE ReportInv'
  OBVIOUS
<1>0. /\ Len(Monitored) \in Nat \ {0} /\ Places = 1 .. Len(Monitored)
      /\ pc \in [Invocations -> Pcs]
      /\ at \in [Invocations -> 0 .. Len(Monitored)]
      /\ reported \in [Invocations -> [Places -> {"none", "ok", "failed"}]]
      /\ exitCode \in [Invocations -> {0, 1}]
      /\ \A p \in Invocations : Active(p) => at[p] \in Places
  BY PlacesType DEF Places, TypeInv, TypeOK, PlaceInv
<1>1. CASE UNCHANGED <<pc, at, dry, reported, exitCode>>
  BY <1>1 DEF ReportInv, Active
<1>2. ASSUME NEW p \in Invocations, NEW l \in Working, Proceed(p, l) PROVE ReportInv'
  BY <1>0, <1>2 DEF Proceed, Working, ReportInv, Active
<1>3. ASSUME NEW p \in Invocations, NEW v \in {"ok", "failed"}, Verdict(p, v) PROVE ReportInv'
  <2>1. at[p] \in Places
    BY <1>0, <1>3 DEF Verdict
  <2>2. ASSUME NEW q \in Invocations \ {p} PROVE ReportInv!(q)'
    BY <1>0, <1>3 DEF Verdict, ReportInv, Active
  <2>3. /\ pc'[p] = "close" /\ at'[p] = at[p]
        /\ reported'[p][at[p]] = v
        /\ \A i \in Places \ {at[p]} : reported'[p][i] = reported[p][i]
        /\ exitCode'[p] = IF v = "failed" THEN 1 ELSE exitCode[p]
    BY <1>0, <1>3, <2>1 DEF Verdict
  <2>4. /\ \A i \in Places : reported[p][i] = "none" <=> i > at[p] \/ i = at[p]
        /\ exitCode[p] = 0 <=> \A i \in Places : reported[p][i] # "failed"
    BY <1>3 DEF Verdict, ReportInv
  <2>5. \A i \in Places : reported'[p][i] = "none" <=> i > at[p]
    BY <1>0, <2>1, <2>3, <2>4
  <2>6. exitCode'[p] = 0 <=> \A i \in Places : reported'[p][i] # "failed"
    BY <2>1, <2>3, <2>4
  <2>7. ReportInv!(p)'
    BY <2>3, <2>5, <2>6
  <2> QED
    BY <2>2, <2>7 DEF ReportInv
<1>4. ASSUME NEW p \in Invocations, Launch(p) PROVE ReportInv'
  <2>1. ASSUME NEW q \in Invocations \ {p} PROVE ReportInv!(q)'
    BY <1>0, <1>4 DEF Launch, Goto, ReportInv, Active
  <2>2. ReportInv!(p)'
    BY <1>0, <1>4 DEF Launch, MayStart, Goto, ReportInv, Active
  <2> QED
    BY <2>1, <2>2 DEF ReportInv
<1>5. ASSUME NEW p \in Invocations, ConfigRejected(p) PROVE ReportInv'
  <2>1. ASSUME NEW q \in Invocations \ {p} PROVE ReportInv!(q)'
    BY <1>0, <1>5 DEF ConfigRejected, Goto, ReportInv, Active
  <2>2. 1 \in Places
    BY <1>0
  <2>3. pc'[p] = "done" /\ exitCode'[p] # 0 /\ reported'[p] = reported[p]
    BY <1>0, <1>5 DEF ConfigRejected, Goto
  <2>4. \A i \in Places : reported[p][i] = "none"
    BY <1>0, <1>5 DEF ConfigRejected, MayStart, ReportInv
  <2>5. ReportInv!(p)'
    BY <2>2, <2>3, <2>4 DEF Active
  <2> QED
    BY <2>1, <2>5 DEF ReportInv
<1>6. ASSUME NEW p \in Invocations, Close(p) PROVE ReportInv'
  <2>1. ASSUME NEW q \in Invocations \ {p} PROVE ReportInv!(q)'
    BY <1>0, <1>6 DEF Close, Goto, ReportInv, Active
  <2>2. /\ pc[p] = "close" /\ at[p] \in Places
        /\ \A i \in Places : reported[p][i] = "none" <=> i > at[p]
        /\ exitCode[p] = 0 <=> \A i \in Places : reported[p][i] # "failed"
        /\ reported' = reported /\ exitCode' = exitCode
    BY <1>0, <1>6 DEF Close, ReportInv, Active
  <2>3. CASE at[p] < Len(Monitored)
    <3>1. pc'[p] = "connect" /\ at'[p] = at[p] + 1
      BY <1>0, <1>6, <2>3 DEF Close, AfterInstance, Goto
    <3>2. \A i \in Places : i > at[p] <=> i > at'[p] \/ i = at'[p]
      BY <1>0, <2>2, <3>1
    <3>3. ReportInv!(p)'
      BY <2>2, <3>1, <3>2
    <3> QED
      BY <2>1, <3>3 DEF ReportInv
  <2>4. CASE ~(at[p] < Len(Monitored))
    <3>1. pc'[p] = "done" /\ at'[p] = at[p]
      BY <1>0, <1>6, <2>4 DEF Close, AfterInstance, Goto
    <3>2. \A i \in Places : reported[p][i] \in {"ok", "failed"}
      BY <1>0, <2>2, <2>4
    <3>3. ReportInv!(p)'
      BY <2>2, <3>1, <3>2 DEF Active
    <3> QED
      BY <2>1, <3>3 DEF ReportInv
  <2> QED
    BY <2>3, <2>4
<1>7. ASSUME NEW p \in Invocations, Crash(p) PROVE ReportInv'
  BY <1>0, <1>7 DEF Crash, Goto, ReportInv, Active
<1> QED
  BY <1>1, <1>2, <1>3, <1>4, <1>5, <1>6, <1>7 DEF MainStep

\* What a step of the specification does to the tables.
LEMMA NextEffect ==
  ASSUME Core, [Next]_vars
  PROVE  /\ Base /\ TypeInv /\ RunInv /\ DOMAIN runs = DOMAIN hist
         /\ TableStep /\ KeepsRows /\ KeepsHist
  BY AnyEffect, RowsKept DEF Core, Base, AnyStep, KeepsRows

-----------------------------------------------------------------------------
(* Dry runs *)

\* Only start_run adds rows, for the invocation that calls it.
LEMMA NewRow ==
  ASSUME Core, [Next]_vars
  PROVE  \/ DOMAIN hist' = DOMAIN hist
         \/ \E p \in Invocations : /\ pc[p] = "start"
                                   /\ DOMAIN hist' = DOMAIN hist \cup {nextId}
                                   /\ nextId \notin DOMAIN hist
                                   /\ hist'[nextId].by = p
                                   /\ hist'[nextId].place = at[p]
                                   /\ hist'[nextId].landed = {}
<1>0. TypeInv /\ RunInv /\ TableStep
  BY NextEffect
<1>1. ASSUME NEW p \in Invocations, Opens(p)
      PROVE  /\ pc[p] = "start"
             /\ DOMAIN hist' = DOMAIN hist \cup {nextId}
             /\ nextId \notin DOMAIN hist
             /\ hist'[nextId].by = p /\ hist'[nextId].place = at[p] /\ hist'[nextId].landed = {}
  BY <1>0, <1>1 DEF Opens, InsertRun, TypeInv, TypeOK
<1>2. ASSUME NEW p \in Invocations, Owns(p), CommitTxn(p) PROVE DOMAIN hist' = DOMAIN hist
  BY <1>0, <1>2, OwnRow, CommitLands
<1> QED
  BY <1>0, <1>1, <1>2 DEF TableStep, Commits, Closes, Owns

LEMMA DryInit == Init => DryInv
  BY DEF Init, DryInv

\* Only a run in _persist adds to its open transaction.
LEMMA TxnStep ==
  ASSUME TypeInv, [Next]_vars, NEW p \in Invocations
  PROVE  txn'[p] = txn[p] \/ txn'[p] = {} \/ pc[p] = "persist"
<1>0. txn \in [Invocations -> SUBSET Row]
  BY DEF TypeInv, TypeOK
<1>1. ASSUME NEW q \in Invocations, Loop(q) \/ (\E batch \in Batches : Fetch(q, batch))
      PROVE  txn'[p] = txn[p] \/ txn'[p] = {}
  BY <1>0, <1>1 DEF Loop, Launch, ConfigRejected, Connect, Close, Rollback, Fetch
<1>2. ASSUME NEW q \in Invocations, RunStep(q)
      PROVE  txn'[p] = txn[p] \/ txn'[p] = {} \/ pc[p] = "persist"
  BY <1>0, <1>2 DEF RunStep, StartRun, Merge, CommitBatch, FinishSuccess, FinishFailed, CommitTxn
<1>3. ASSUME NEW q \in Invocations, Failure(q)
      PROVE  txn'[p] = txn[p] \/ txn'[p] = {}
  <2>1. CASE \/ ConnectFails(q) \/ FetchFails(q) \/ StartRunFails(q) \/ MergeRejected(q)
             \/ TransactionAborted(q) \/ ConnectionLost(q) \/ FinishSuccessFails(q) \/ Crash(q)
    BY <1>0, <2>1 DEF ConnectFails, FetchFails, StartRunFails, MergeRejected, TransactionAborted,
       ConnectionLost, FinishSuccessFails, Crash, Rollback
  <2>2. CASE CommitUnacknowledged(q) \/ FinishFailedFails(q)
    BY <1>0, <2>2 DEF CommitUnacknowledged, FinishFailedFails, CommitTxn
  <2> QED
    BY <1>3, <2>1, <2>2 DEF Failure
<1>4. CASE Tick \/ AllEnded \/ UNCHANGED vars
  BY <1>4 DEF Tick, AllEnded, vars, procVars
<1> QED
  BY <1>1, <1>2, <1>3, <1>4 DEF Next

\* Where a dry run may go, and who is one.
LEMMA DryMoves ==
  ASSUME TypeInv, DryInv, MainStep, NEW p \in Invocations
  PROVE  /\ dry'[p] => pc'[p] \notin Writing
         /\ dry'[p] \/ pc'[p] = "idle" => dry[p] \/ pc[p] = "idle"
<1>0. pc \in [Invocations -> Pcs] /\ dry \in [Invocations -> BOOLEAN]
  BY DEF TypeInv, TypeOK
<1>1. CASE UNCHANGED <<pc, at, dry, reported, exitCode>>
  BY <1>1 DEF DryInv
<1>2. ASSUME NEW q \in Invocations, NEW l \in Working, Proceed(q, l)
      PROVE  /\ dry'[p] => pc'[p] \notin Writing
             /\ dry'[p] \/ pc'[p] = "idle" => dry[p] \/ pc[p] = "idle"
  BY <1>0, <1>2 DEF Proceed, Working, DryInv
<1>3. ASSUME NEW q \in Invocations,
             (\E v \in {"ok", "failed"} : Verdict(q, v)) \/ ConfigRejected(q) \/ Close(q) \/ Crash(q)
      PROVE  /\ dry'[p] => pc'[p] \notin Writing
             /\ dry'[p] \/ pc'[p] = "idle" => dry[p] \/ pc[p] = "idle"
  BY <1>0, <1>3 DEF Verdict, ConfigRejected, Close, Crash, AfterInstance, Goto, DryInv, Writing
<1>4. ASSUME NEW q \in Invocations, Launch(q)
      PROVE  /\ dry'[p] => pc'[p] \notin Writing
             /\ dry'[p] \/ pc'[p] = "idle" => dry[p] \/ pc[p] = "idle"
  BY <1>0, <1>4 DEF Launch, MayStart, Goto, DryInv, Writing
<1> QED
  BY <1>1, <1>2, <1>3, <1>4 DEF MainStep

LEMMA DryStep == Core /\ DryInv /\ [Next]_vars => DryInv'
<1> SUFFICES ASSUME Core, DryInv, [Next]_vars, NEW p \in Invocations PROVE DryInv!(p)'
  BY DEF DryInv
<1>0. TypeInv /\ RunInv /\ MainStep /\ KeepsHist
  BY MainEffect, NextEffect
<1>1. /\ dry'[p] => pc'[p] \notin Writing
      /\ dry'[p] \/ pc'[p] = "idle" => dry[p] \/ pc[p] = "idle"
  BY <1>0, DryMoves
<1>2. dry[p] \/ pc[p] = "idle" => txn[p] = {} /\ pc[p] \notin Writing
  BY <1>0 DEF DryInv, RunInv, BatchInv, Writing
<1>3. dry'[p] => txn'[p] = {}
  BY <1>0, <1>1, <1>2, TxnStep DEF Writing
<1>4. ASSUME dry'[p] \/ pc'[p] = "idle", NEW r \in DOMAIN hist' PROVE hist'[r].by # p
  <2>1. \A s \in DOMAIN hist : hist[s].by # p
    BY <1>1, <1>4 DEF DryInv
  <2>2. CASE r \in DOMAIN hist
    BY <1>0, <2>1, <2>2 DEF KeepsHist
  <2>3. CASE r \notin DOMAIN hist
    BY <1>1, <1>2, <1>4, <2>3, NewRow DEF Writing
  <2> QED
    BY <2>2, <2>3
<1> QED
  BY <1>1, <1>3, <1>4

\* A dry run writes nothing, whatever happens around it.
THEOREM DryRunIsDry == Spec => []DryRunWritesNothing
<1>1. Init => Core /\ DryInv
  BY CoreInit, DryInit
<1>2. Core /\ DryInv /\ [Next]_vars => (Core /\ DryInv)'
  BY NextIsProper, CoreStep, DryStep
<1>3. DryInv => DryRunWritesNothing
  BY DEF DryInv, DryRunWritesNothing
<1> QED
  BY <1>1, <1>2, <1>3, PTL DEF Spec

-----------------------------------------------------------------------------
(* Stuck rows *)

OwnsNext(p) == pc'[p] \in {"persist", "finish", "fail"}

\* finish_run writes the status it is given.
LEMMA FinishedStatus ==
  ASSUME Core, NEW p \in Invocations, Owns(p), NEW status, NEW n, runs' = Finished(runId[p], status, n)
  PROVE  runs'[runId[p]].status = status
<1>1. runId[p] \in DOMAIN runs /\ runs[runId[p]] \in RunRow
  BY OwnRow DEF Core, Base, TypeInv, TypeOK
<1> QED
  BY <1>1 DEF Finished, RunRow

\* An invocation gives its row up when it closes it, reports a failure or dies.
LEMMA OwnerMoves ==
  ASSUME Core, [Next]_vars, NEW p \in Invocations, Owns(p)
  PROVE  \/ OwnsNext(p) /\ runId'[p] = runId[p]
         \/ pc'[p] = "dead"
         \/ reported'[p][at[p]] = "failed"
         \/ runs'[runId[p]].status = "success"
<1> DEFINE Goal == \/ OwnsNext(p) /\ runId'[p] = runId[p]
                   \/ pc'[p] = "dead"
                   \/ reported'[p][at[p]] = "failed"
                   \/ runs'[runId[p]].status = "success"
<1>0. /\ pc \in [Invocations -> Pcs] /\ runId \in [Invocations -> 0 .. nextId - 1]
      /\ reported \in [Invocations -> [Places -> {"none", "ok", "failed"}]]
      /\ at[p] \in Places
  BY DEF Core, Base, TypeInv, TypeOK, PlaceInv, Owns, Active
<1>1. ASSUME NEW q \in Invocations, Loop(q) \/ (\E batch \in Batches : Fetch(q, batch)) PROVE Goal
  BY <1>0, <1>1 DEF Loop, Launch, ConfigRejected, Connect, Close, MayStart, Fetch, Return, Goto, Owns, OwnsNext
<1>2. ASSUME NEW q \in Invocations, RunStep(q) PROVE Goal
  <2>1. CASE StartRun(q) \/ CommitBatch(q) \/ (\E row \in todo[q] : Merge(q, row))
    BY <1>0, <2>1 DEF StartRun, CommitBatch, Merge, Goto, Owns, OwnsNext
  <2>2. CASE FinishSuccess(q)
    <3>1. CASE q = p
      BY <2>2, <3>1, FinishedStatus DEF FinishSuccess
    <3>2. CASE q # p
      BY <1>0, <2>2, <3>2 DEF FinishSuccess, Return, Goto, Owns, OwnsNext
    <3> QED
      BY <3>1, <3>2
  <2>3. CASE FinishFailed(q)
    BY <1>0, <2>3 DEF FinishFailed, Raise, Goto, Owns, OwnsNext
  <2> QED
    BY <1>2, <2>1, <2>2, <2>3 DEF RunStep
<1>3. ASSUME NEW q \in Invocations, Failure(q) PROVE Goal
  <2>1. CASE \/ ConnectFails(q) \/ FetchFails(q) \/ StartRunFails(q)
             \/ FinishSuccessFails(q) \/ FinishFailedFails(q)
    BY <1>0, <2>1 DEF ConnectFails, FetchFails, StartRunFails, FinishSuccessFails,
       FinishFailedFails, Raise, Goto, Owns, OwnsNext
  <2>2. CASE \/ MergeRejected(q) \/ TransactionAborted(q) \/ ConnectionLost(q)
             \/ CommitUnacknowledged(q)
    BY <1>0, <2>2 DEF MergeRejected, TransactionAborted, ConnectionLost, CommitUnacknowledged,
       OnPersistError, Goto, Owns, OwnsNext
  <2>3. CASE Crash(q)
    BY <1>0, <2>3 DEF Crash, Goto, Owns, OwnsNext
  <2> QED
    BY <1>3, <2>1, <2>2, <2>3 DEF Failure
<1>4. CASE Tick \/ AllEnded \/ UNCHANGED vars
  BY <1>4 DEF Tick, AllEnded, vars, procVars, Owns, OwnsNext
<1> QED
  BY <1>1, <1>2, <1>3, <1>4 DEF Next

\* A new row has its owner, or its invocation reported the failure of start_run.
LEMMA OpenedRow ==
  ASSUME Core, [Next]_vars, NEW r \in DOMAIN runs' \ DOMAIN runs
  PROVE  LET p == hist'[r].by
             i == hist'[r].place
         IN  (OwnsNext(p) /\ runId'[p] = r) \/ reported'[p][i] = "failed"
<1> DEFINE p == hist'[r].by
           i == hist'[r].place
           Goal == (OwnsNext(p) /\ runId'[p] = r) \/ reported'[p][i] = "failed"
<1>0. /\ TypeInv /\ RunInv
      /\ pc \in [Invocations -> Pcs] /\ runId \in [Invocations -> 0 .. nextId - 1]
      /\ reported \in [Invocations -> [Places -> {"none", "ok", "failed"}]]
      /\ \A q \in Invocations : Active(q) => at[q] \in Places
  BY DEF Core, Base, TypeInv, TypeOK, PlaceInv
<1>1. ASSUME NEW q \in Invocations, pc[q] = "start", InsertRun(q)
      PROVE  r = nextId /\ p = q /\ i = at[q] /\ at[q] \in Places
  BY <1>0, <1>1 DEF InsertRun, Active, TypeInv, TypeOK
<1>2. ASSUME NEW q \in Invocations, StartRun(q) PROVE Goal
  <2>1. r = nextId /\ p = q
    BY <1>1, <1>2 DEF StartRun
  <2>2. runId'[q] = nextId /\ pc'[q] = "persist"
    BY <1>0, <1>2 DEF StartRun, Goto
  <2> QED
    BY <2>1, <2>2 DEF OwnsNext
<1>3. ASSUME NEW q \in Invocations, StartRunFails(q) PROVE Goal
  <2>1. CASE InsertRun(q)
    BY <1>0, <1>1, <1>3, <2>1 DEF StartRunFails, Raise
  <2>2. CASE UNCHANGED <<now, runs, nextId, hist>>
    BY <2>2
  <2> QED
    BY <1>3, <2>1, <2>2 DEF StartRunFails
<1>4. ASSUME NEW q \in Invocations, CommitBatch(q) \/ FinishSuccess(q) \/ FinishFailed(q)
                                    \/ (\E row \in todo[q] : Merge(q, row))
      PROVE  FALSE
  BY <1>4 DEF CommitBatch, FinishSuccess, FinishFailed, Merge, Finished, repoVars
<1>5. ASSUME NEW q \in Invocations,
             \/ ConnectFails(q) \/ FetchFails(q) \/ MergeRejected(q) \/ TransactionAborted(q)
             \/ ConnectionLost(q) \/ CommitUnacknowledged(q) \/ FinishSuccessFails(q)
             \/ FinishFailedFails(q) \/ Crash(q)
      PROVE  FALSE
  BY <1>5 DEF ConnectFails, FetchFails, MergeRejected, TransactionAborted, ConnectionLost,
     CommitUnacknowledged, FinishSuccessFails, FinishFailedFails, Crash, Finished, repoVars
<1>6. ASSUME NEW q \in Invocations, Loop(q) \/ (\E batch \in Batches : Fetch(q, batch)) PROVE FALSE
  BY <1>6 DEF Loop, Launch, ConfigRejected, Connect, Close, Fetch, repoVars
<1>7. CASE Tick \/ AllEnded \/ UNCHANGED vars
  BY <1>7 DEF Tick, AllEnded, vars, repoVars
<1> QED
  BY <1>2, <1>3, <1>4, <1>5, <1>6, <1>7 DEF Next, RunStep, Failure

\* A verdict, once given, stays.
LEMMA VerdictStays ==
  ASSUME TypeInv, ReportInv, MainStep, NEW p \in Invocations, NEW i \in Places, reported[p][i] # "none"
  PROVE  reported'[p][i] = reported[p][i]
<1>0. /\ reported \in [Invocations -> [Places -> {"none", "ok", "failed"}]]
      /\ \A q \in Invocations : Active(q) => at[q] \in Places
  BY DEF TypeInv, TypeOK, PlaceInv
<1>1. ASSUME NEW q \in Invocations, NEW v \in {"ok", "failed"}, Verdict(q, v)
      PROVE  reported'[p][i] = reported[p][i]
  <2>1. q = p => i # at[q]
    BY <1>0, <1>1 DEF Verdict, ReportInv
  <2> QED
    BY <1>0, <1>1, <2>1 DEF Verdict
<1> QED
  BY <1>1 DEF MainStep, Proceed, Launch, ConfigRejected, Close, Crash

LEMMA StuckInit == Init => StuckInv
  BY DEF Init, StuckInv

LEMMA StuckStep == Core /\ ReportInv /\ StuckInv /\ [Next]_vars => StuckInv'
<1> SUFFICES ASSUME Core, ReportInv, StuckInv, [Next]_vars,
                    NEW r \in DOMAIN runs', runs'[r].status = "running"
             PROVE  LET p == hist'[r].by
                        i == hist'[r].place
                    IN  \/ pc'[p] = "dead"
                        \/ reported'[p][i] = "failed"
                        \/ OwnsNext(p) /\ runId'[p] = r
  BY DEF StuckInv, Owns, OwnsNext
<1> DEFINE p == hist'[r].by
           i == hist'[r].place
<1>0. Base /\ TypeInv /\ RunInv /\ MainStep /\ KeepsHist /\ TableStep /\ DOMAIN runs = DOMAIN hist
  BY MainEffect, NextEffect
<1>1. CASE r \notin DOMAIN runs
  BY <1>1, OpenedRow
<1>2. CASE r \in DOMAIN runs
  <2>1. /\ r \in DOMAIN hist /\ p = hist[r].by /\ i = hist[r].place
        /\ p \in Invocations /\ i \in Places
    BY <1>0, <1>2 DEF KeepsHist, TypeInv, TypeOK, HistRow
  <2>2. runs[r].status = "running"
    BY <1>0, <1>2, ClosedStep
  <2>3. CASE pc[p] = "dead"
    <3>1. pc'[p] = "dead"
      BY <1>0, <2>1, <2>3 DEF MainStep, Proceed, Verdict, Active, Launch, ConfigRejected, Close, Crash,
         MayStart, Goto, TypeInv, TypeOK
    <3> QED
      BY <3>1
  <2>4. CASE reported[p][i] = "failed"
    BY <1>0, <2>1, <2>4, VerdictStays
  <2>5. CASE Owns(p) /\ runId[p] = r
    <3>1. i = at[p]
      BY <1>0, <2>1, <2>5 DEF RunInv, OwnerInv
    <3>2. runs'[runId[p]].status # "success"
      BY <2>5
    <3> QED
      BY <2>1, <2>5, <3>1, <3>2, OwnerMoves
  <2> QED
    BY <1>2, <2>1, <2>2, <2>3, <2>4, <2>5 DEF StuckInv
<1> QED
  BY <1>1, <1>2

\* A row left "running" is that of a dead process or of a reported failure.
THEOREM StuckExplained == Spec => []StuckRowIsExplained
<1>1. Init => Core /\ ReportInv /\ StuckInv
  BY CoreInit, ReportInit, StuckInit
<1>2. Core /\ ReportInv /\ StuckInv /\ [Next]_vars => (Core /\ ReportInv /\ StuckInv)'
  BY NextIsProper, CoreStep, ReportStep, StuckStep, MainEffect DEF Core, Base
<1>3. Core /\ StuckInv => StuckRowIsExplained
  <2>1. Core => \A r \in DOMAIN runs : hist[r].by \in Invocations
    BY DEF Core, Base, TypeInv, TypeOK, HistRow
  <2>2. Core => \A p \in Invocations : Owns(p) => Active(p) /\ at[p] = hist[runId[p]].place
    BY DEF Core, Base, RunInv, OwnerInv, Owns, Active
  <2> QED
    BY <2>1, <2>2 DEF StuckInv, StuckRowIsExplained
<1> QED
  BY <1>1, <1>2, <1>3, PTL DEF Spec

-----------------------------------------------------------------------------
(* Exit codes *)

LEMMA VerdictInit == Init => VerdictInv
  BY DEF Init, VerdictInv

\* A new "ok" is the end of a dry run, or of a run that closed its row.
LEMMA OkStep ==
  ASSUME Core, ReportInv, [Next]_vars, NEW p \in Invocations, NEW i \in Places,
         reported'[p][i] = "ok", ~dry'[p]
  PROVE  \/ reported[p][i] = "ok" /\ ~dry[p]
         \/ i = at[p] /\ Owns(p) /\ runs'[runId[p]].status = "success"
<1> DEFINE Goal == \/ reported[p][i] = "ok" /\ ~dry[p]
                   \/ i = at[p] /\ Owns(p) /\ runs'[runId[p]].status = "success"
<1>0. /\ reported \in [Invocations -> [Places -> {"none", "ok", "failed"}]]
      /\ dry \in [Invocations -> BOOLEAN]
      /\ \A q \in Invocations : Active(q) => at[q] \in Places
  BY DEF Core, Base, TypeInv, TypeOK, PlaceInv
<1>1. ASSUME NEW q \in Invocations, Launch(q) PROVE Goal
  BY <1>0, <1>1 DEF Launch, MayStart, ReportInv
<1>2. ASSUME NEW q \in Invocations, ConfigRejected(q) \/ Connect(q) \/ Close(q) PROVE Goal
  BY <1>2 DEF ConfigRejected, Connect, Close
<1>3. ASSUME NEW q \in Invocations, NEW batch \in Batches, Fetch(q, batch) PROVE Goal
  BY <1>0, <1>3 DEF Fetch, Return
<1>4. ASSUME NEW q \in Invocations, RunStep(q) PROVE Goal
  <2>1. CASE FinishSuccess(q)
    <3>1. Owns(q) /\ runs'[runId[q]].status = "success"
      BY <2>1, FinishedStatus DEF FinishSuccess, Owns
    <3> QED
      BY <1>0, <2>1, <3>1 DEF FinishSuccess, Return
  <2>2. CASE FinishFailed(q)
    BY <1>0, <2>2 DEF FinishFailed, Raise, Active
  <2> QED
    BY <1>4, <2>1, <2>2 DEF RunStep, StartRun, Merge, CommitBatch
<1>5. ASSUME NEW q \in Invocations, Failure(q) PROVE Goal
  <2>1. CASE \/ ConnectFails(q) \/ FetchFails(q) \/ StartRunFails(q)
             \/ FinishSuccessFails(q) \/ FinishFailedFails(q)
    BY <1>0, <2>1 DEF ConnectFails, FetchFails, StartRunFails, FinishSuccessFails,
       FinishFailedFails, Raise, Active
  <2> QED
    BY <1>5, <2>1 DEF Failure, MergeRejected, TransactionAborted, ConnectionLost,
       CommitUnacknowledged, Crash
<1>6. CASE Tick \/ AllEnded \/ UNCHANGED vars
  BY <1>6 DEF Tick, AllEnded, vars, procVars
<1> QED
  BY <1>1, <1>2, <1>3, <1>4, <1>5, <1>6 DEF Next, Loop

LEMMA VerdictStep == Core /\ ReportInv /\ VerdictInv /\ [Next]_vars => VerdictInv'
<1> SUFFICES ASSUME Core, ReportInv, VerdictInv, [Next]_vars, NEW p \in Invocations, NEW i \in Places,
                    reported'[p][i] = "ok", ~dry'[p]
             PROVE  SuccessRow(p, i)'
  BY DEF VerdictInv
<1>0. Base /\ RunInv /\ KeepsRows /\ KeepsHist /\ TableStep /\ DOMAIN runs = DOMAIN hist
  BY NextEffect
<1>1. CASE reported[p][i] = "ok" /\ ~dry[p]
  <2>1. PICK r \in DOMAIN runs : /\ hist[r].by = p
                                 /\ hist[r].place = i
                                 /\ runs[r].inst = Monitored[i]
                                 /\ runs[r].status = "success"
    BY <1>1 DEF VerdictInv, SuccessRow
  <2>2. runs'[r] = runs[r] /\ hist'[r] = hist[r] /\ r \in DOMAIN runs'
    BY <1>0, <2>1, ClosedStep DEF KeepsRows
  <2> QED
    BY <2>1, <2>2 DEF SuccessRow
<1>2. CASE i = at[p] /\ Owns(p) /\ runs'[runId[p]].status = "success"
  <2>1. /\ runId[p] \in DOMAIN runs /\ runId[p] \in DOMAIN hist
        /\ runs[runId[p]].inst = Monitored[at[p]]
        /\ hist[runId[p]].by = p /\ hist[runId[p]].place = at[p]
    BY <1>0, <1>2 DEF RunInv, OwnerInv
  <2>2. /\ runId[p] \in DOMAIN runs' /\ runs'[runId[p]].inst = Monitored[i]
        /\ hist'[runId[p]].by = p /\ hist'[runId[p]].place = i
    BY <1>0, <1>2, <2>1 DEF KeepsRows, KeepsHist
  <2> QED
    BY <1>2, <2>2 DEF SuccessRow
<1> QED
  BY <1>1, <1>2, OkStep

\* Exit code 0 stands for a success of every instance, and "ok" for a success row.
THEOREM ExitHonest == Spec => []ExitCodeIsHonest
<1>1. Init => Core /\ ReportInv /\ VerdictInv
  BY CoreInit, ReportInit, VerdictInit
<1>2. Core /\ ReportInv /\ VerdictInv /\ [Next]_vars => (Core /\ ReportInv /\ VerdictInv)'
  BY NextIsProper, CoreStep, ReportStep, VerdictStep, MainEffect DEF Core, Base
<1>3. ReportInv /\ VerdictInv => ExitCodeIsHonest
  BY DEF ReportInv, VerdictInv, SuccessRow, ExitCodeIsHonest
<1> QED
  BY <1>1, <1>2, <1>3, PTL DEF Spec


-----------------------------------------------------------------------------
(* Durability *)

\* What has landed under a key stays there, or gives way to what another run landed.
DurableAt(k) ==
    \A r \in DOMAIN hist : \A row \in hist[r].landed :
        row.key = k =>
            LET v == fact[Monitored[hist[r].place]][k]
            IN  \/ v = row.val
                \/ \E s \in DOMAIN hist \ {r} : [key |-> k, val |-> v] \in hist[s].landed

DurableInv == \A k \in Keys : DurableAt(k)

\* p makes durable what it executed.
Lands(p) == Owns(p) /\ (pc[p] = "fail" => ~lost[p]) /\ CommitTxn(p)

\* Facts change by the commit of an invocation that owns a row, and only then.
LEMMA FactEffect == AnyStep => UNCHANGED fact \/ \E p \in Invocations : Lands(p)
<1> SUFFICES ASSUME AnyStep PROVE UNCHANGED fact \/ \E p \in Invocations : Lands(p)
  OBVIOUS
<1>1. ASSUME NEW p \in Invocations, Loop(p) \/ (\E batch : Fetch(p, batch)) PROVE UNCHANGED fact
  BY <1>1 DEF Loop, Launch, ConfigRejected, Connect, Close, Fetch, repoVars
<1>2. ASSUME NEW p \in Invocations, RunStep(p) PROVE UNCHANGED fact \/ Lands(p)
  BY <1>2 DEF RunStep, StartRun, Merge, CommitBatch, FinishSuccess, FinishFailed, Lands, Owns, repoVars
<1>3. ASSUME NEW p \in Invocations, Failure(p) PROVE UNCHANGED fact \/ Lands(p)
  BY <1>3 DEF Failure, ConnectFails, FetchFails, StartRunFails, MergeRejected, TransactionAborted,
     ConnectionLost, CommitUnacknowledged, FinishSuccessFails, FinishFailedFails, Crash, Lands, Owns,
     repoVars
<1>4. CASE Tick \/ AllEnded \/ UNCHANGED vars
  BY <1>4 DEF Tick, AllEnded, vars, repoVars
<1> QED
  BY <1>1, <1>2, <1>3, <1>4 DEF AnyStep, Next

\* A MERGE stores a row of the set for each of its keys, and touches nothing else.
LEMMA MergedValue ==
  ASSUME NEW table \in [Inst -> [Keys -> Vals \cup {NoVal}]], NEW i \in Inst,
         NEW rows \in SUBSET Row, NEW j \in Inst, NEW k \in Keys
  PROVE  \/ /\ j = i
            /\ [key |-> k, val |-> Merged(table, i, rows)[j][k]] \in rows
         \/ /\ Merged(table, i, rows)[j][k] = table[j][k]
            /\ j = i => \A row \in rows : row.key # k
<1>1. CASE j = i /\ \E row \in rows : row.key = k
  <2>1. PICK row \in rows : row.key = k /\ row = CHOOSE x \in rows : x.key = k
    BY <1>1
  <2>2. Merged(table, i, rows)[j][k] = row.val
    BY <1>1, <2>1 DEF Merged
  <2>3. row = [key |-> k, val |-> row.val]
    BY <2>1 DEF Row
  <2> QED
    BY <1>1, <2>1, <2>2, <2>3
<1>2. CASE ~(j = i /\ \E row \in rows : row.key = k)
  BY <1>2 DEF Merged
<1> QED
  BY <1>1, <1>2

\* What a commit does to the rows of the runs.
LEMMA LandsRows ==
  ASSUME Base, NEW p \in Invocations, Lands(p)
  PROVE  /\ runId[p] \in DOMAIN hist /\ hist[runId[p]].place = at[p]
         /\ DOMAIN hist' = DOMAIN hist
         /\ hist'[runId[p]].landed = hist[runId[p]].landed \cup txn[p]
         /\ \A r \in DOMAIN hist : /\ hist'[r].place = hist[r].place
                                   /\ r # runId[p] => hist'[r] = hist[r]
         /\ txn[p] # {} => hist[runId[p]].landed = {}
         /\ KeysDiffer(txn[p])
<1>1. /\ TypeInv /\ RunInv /\ Owns(p) /\ CommitTxn(p) /\ (~lost[p] \/ pc[p] # "fail")
      /\ runId[p] \in DOMAIN hist /\ hist[runId[p]].place = at[p]
  BY DEF Base, Lands, RunInv, OwnerInv
<1> QED
  BY <1>1, CommitLands, CommitsOwn

\* It gives each key of the transaction the value of one of its rows, and leaves the others.
LEMMA LandsValue ==
  ASSUME Base, NEW p \in Invocations, Lands(p), NEW i \in Inst, NEW k \in Keys
  PROVE  \/ i = Source(p) /\ [key |-> k, val |-> fact'[i][k]] \in txn[p]
         \/ fact'[i][k] = fact[i][k] /\ (i = Source(p) => \A row \in txn[p] : row.key # k)
<1>1. /\ TypeInv /\ Owns(p) /\ CommitTxn(p)
      /\ txn[p] \in SUBSET Row /\ fact \in [Inst -> [Keys -> Vals \cup {NoVal}]]
  BY DEF Base, Lands, TypeInv, TypeOK
<1>2. Source(p) \in Inst
  BY <1>1, PlacesType DEF Source, TypeInv, PlaceInv, Owns, Active
<1>3. CASE txn[p] = {}
  BY <1>1, <1>3 DEF CommitTxn
<1>4. CASE txn[p] # {}
  <2>1. fact' = Merged(fact, Source(p), txn[p])
    BY <1>1, <1>4 DEF CommitTxn
  <2> QED
    BY <1>1, <1>2, <2>1, MergedValue
<1> QED
  BY <1>3, <1>4

\* The argument goes key by key, so that it holds for the keys a purge spares.
LEMMA DurableStep ==
  ASSUME Base, AnyStep, NEW k \in Keys, DurableAt(k)
  PROVE  DurableAt(k)'
<1> SUFFICES ASSUME NEW r \in DOMAIN hist', NEW row \in hist'[r].landed, row.key = k
             PROVE  LET v == fact'[Monitored[hist'[r].place]][k]
                    IN  \/ v = row.val
                        \/ \E s \in DOMAIN hist' \ {r} : [key |-> k, val |-> v] \in hist'[s].landed
  BY DEF DurableAt
<1> DEFINE i == Monitored[hist'[r].place]
           v == fact'[i][k]
           Goal == \/ v = row.val
                   \/ \E s \in DOMAIN hist' \ {r} : [key |-> k, val |-> v] \in hist'[s].landed
<1>0. TypeInv /\ TableStep /\ KeepsHist
  BY AnyEffect, RowsKept DEF Base, KeepsRows
\* A row that had landed and whose value does not change.
<1>1. ASSUME r \in DOMAIN hist, row \in hist[r].landed, v = fact[i][k] PROVE Goal
  <2>1. i = Monitored[hist[r].place]
    BY <1>0, <1>1 DEF KeepsHist
  <2>2. CASE v = row.val
    BY <2>2
  <2>3. CASE \E s \in DOMAIN hist \ {r} : [key |-> k, val |-> v] \in hist[s].landed
    BY <1>0, <2>3 DEF KeepsHist
  <2> QED
    BY <1>1, <2>1, <2>2, <2>3 DEF DurableAt
<1>2. ASSUME UNCHANGED fact, UNCHANGED <<runs, hist>> \/ \E p \in Invocations : Opens(p)
      PROVE  Goal
  <2>1. r \in DOMAIN hist /\ row \in hist[r].landed
    BY <1>0, <1>2 DEF Opens, InsertRun, TypeInv, TypeOK
  <2> QED
    BY <1>1, <1>2, <2>1
<1>3. ASSUME NEW p \in Invocations, Lands(p) PROVE Goal
  <2> DEFINE id == runId[p]
  <2>1. r \in DOMAIN hist /\ i \in Inst
    <3>1. DOMAIN hist' = DOMAIN hist /\ hist'[r].place = hist[r].place
      BY <1>3, LandsRows
    <3> QED
      BY <1>0, <3>1, PlacesType DEF TypeInv, TypeOK, HistRow
  <2>2. /\ id \in DOMAIN hist /\ DOMAIN hist' = DOMAIN hist
        /\ hist'[id].landed = hist[id].landed \cup txn[p]
        /\ \A s \in DOMAIN hist : /\ hist'[s].place = hist[s].place
                                  /\ s # id => hist'[s] = hist[s]
        /\ txn[p] # {} => hist[id].landed = {}
        /\ KeysDiffer(txn[p])
        /\ \/ i = Source(p) /\ [key |-> k, val |-> v] \in txn[p]
           \/ v = fact[i][k] /\ (i = Source(p) => \A x \in txn[p] : x.key # k)
    BY <1>3, <2>1, LandsRows, LandsValue
  <2>3. r = id => i = Source(p)
    BY <1>3, <2>1, <2>2, LandsRows DEF Source
  <2>4. CASE i = Source(p) /\ [key |-> k, val |-> v] \in txn[p]
    <3>1. CASE r # id
      BY <2>2, <2>4, <3>1
    <3>2. CASE r = id
      <4>1. row \in txn[p]
        BY <2>2, <2>4, <3>2
      <4> QED
        BY <2>2, <2>4, <4>1 DEF KeysDiffer
    <3> QED
      BY <3>1, <3>2
  <2>5. CASE v = fact[i][k] /\ (i = Source(p) => \A x \in txn[p] : x.key # k)
    BY <1>1, <2>1, <2>2, <2>3, <2>5
  <2> QED
    BY <2>2, <2>4, <2>5
<1>4. Goal
  <2>1. \/ UNCHANGED <<runs, hist>> \/ \E p \in Invocations : Opens(p)
        \/ \E p \in Invocations : Lands(p)
    BY <1>0 DEF TableStep, Commits, Closes, Lands, Owns
  <2> HIDE DEF Goal
  <2> QED
    BY <1>2, <1>3, <2>1, FactEffect
<1> QED
  BY <1>4

LEMMA DurableInit == Init => DurableInv
  BY DEF Init, DurableInv, DurableAt

LEMMA DurableSuccess == Core /\ DurableInv => SuccessIsDurable
<1> SUFFICES ASSUME Core, DurableInv, NEW r \in DOMAIN runs, runs[r].status = "success",
                    NEW row \in hist[r].batch
             PROVE  SuccessIsDurable!(r)!2!(row)
  BY DEF SuccessIsDurable
<1>1. row \in hist[r].landed
  BY CoreIsTruthful DEF StatusIsTruthful
<1>2. row.key \in Keys /\ runs[r].inst = Monitored[hist[r].place]
  BY DEF Core, Base, TypeInv, TypeOK, RunInv, OwnerInv, HistRow, Row
<1>3. DurableAt(row.key)
  BY <1>2 DEF DurableInv
<1>4. r \in DOMAIN hist
  BY DEF Core
<1> QED
  BY <1>1, <1>2, <1>3, <1>4 DEF DurableAt

\* What a successful run landed stays readable, or gives way to what another run landed.
THEOREM SuccessDurable == Spec => []SuccessIsDurable
<1>1. Init => Core /\ DurableInv
  BY CoreInit, DurableInit
<1>2. Core /\ DurableInv /\ [Next]_vars => (Core /\ DurableInv)'
  BY NextIsProper, CoreStep, DurableStep DEF Core, DurableInv, AnyStep
<1> QED
  BY <1>1, <1>2, DurableSuccess, PTL DEF Spec

-----------------------------------------------------------------------------
(* The steps of CollectionRun that other collectors inherit *)

Inherits(p) == Loop(p) \/ RunStep(p) \/ Failure(p)

\* Only start_run adds a row, for the invocation that calls it, and takes time.
LEMMA OpenedBy ==
  ASSUME NEW p \in Invocations, Inherits(p)
  PROVE  Opens(p) \/ UNCHANGED <<now, nextId>>
<1>1. CASE Loop(p)
  BY <1>1 DEF Loop, Launch, ConfigRejected, Connect, Close, repoVars
<1>2. CASE RunStep(p)
  BY <1>2 DEF RunStep, StartRun, Merge, CommitBatch, FinishSuccess, FinishFailed, Opens, repoVars
<1>3. CASE Failure(p)
  BY <1>3 DEF Failure, ConnectFails, FetchFails, StartRunFails, MergeRejected, TransactionAborted,
     ConnectionLost, CommitUnacknowledged, FinishSuccessFails, FinishFailedFails, Crash, Opens, repoVars
<1> QED
  BY <1>1, <1>2, <1>3 DEF Inherits

\* Only a fetch leads to start_run.
LEMMA StartersStay ==
  ASSUME TypeOK, NEW p \in Invocations, Inherits(p), NEW q \in Invocations, pc'[q] = "start"
  PROVE  q # p /\ pc[q] = "start" /\ todo'[q] = todo[q]
<1>0. pc \in [Invocations -> Pcs] /\ todo \in [Invocations -> SUBSET Row]
  BY DEF TypeOK
<1>1. CASE Loop(p)
  BY <1>0, <1>1 DEF Loop, Launch, ConfigRejected, Connect, Close, AfterInstance, Goto
<1>2. CASE RunStep(p)
  BY <1>0, <1>2 DEF RunStep, StartRun, Merge, CommitBatch, FinishSuccess, FinishFailed, Return, Raise,
     Goto
<1>3. CASE Failure(p)
  BY <1>0, <1>3 DEF Failure, ConnectFails, FetchFails, StartRunFails, MergeRejected,
     TransactionAborted, ConnectionLost, CommitUnacknowledged, FinishSuccessFails,
     FinishFailedFails, Crash, OnPersistError, Raise, Goto
<1> QED
  BY <1>1, <1>2, <1>3 DEF Inherits

-----------------------------------------------------------------------------
(* Retention *)

\* Retention deletes rows of either table.
PurgeStep ==
    /\ DOMAIN runs' \subseteq DOMAIN runs
    /\ runs' = [r \in DOMAIN runs' |-> runs[r]]
    /\ fact' \in [Inst -> [Keys -> Vals \cup {NoVal}]]
    /\ UNCHANGED <<now, nextId, hist, procVars>>

\* Neither the runs under way nor what has landed depend on the rows that are deleted.
LEMMA PurgeBase == Base /\ PurgeStep => Base' /\ KeepsHist
<1> SUFFICES ASSUME Base, PurgeStep PROVE Base' /\ KeepsHist
  OBVIOUS
<1>1. /\ UNCHANGED <<now, nextId, hist, pc, at, dry, todo, txn, lost, runId, reported, exitCode>>
      /\ DOMAIN runs' \subseteq DOMAIN runs
      /\ \A r \in DOMAIN runs' : runs'[r] = runs[r]
      /\ runs' = [r \in DOMAIN runs' |-> runs[r]]
      /\ fact' \in [Inst -> [Keys -> Vals \cup {NoVal}]]
  BY DEF PurgeStep, procVars
<1>2. TypeOK'
  <2>1. runs' \in [DOMAIN runs' -> RunRow] /\ DOMAIN runs' \subseteq 1 .. nextId - 1
    BY <1>1 DEF Base, TypeInv, TypeOK
  <2> QED
    BY <1>1, <2>1 DEF Base, TypeInv, TypeOK
<1>3. PlaceInv' /\ FiniteInv'
  BY <1>1 DEF Base, TypeInv, PlaceInv, FiniteInv, Owns, Active
<1>4. OwnerInv'
  BY <1>1 DEF Base, RunInv, OwnerInv, Owns
<1>5. BatchInv'
  BY <1>1 DEF Base, RunInv, BatchInv, KeysDiffer, Covered
<1>6. LandInv'
  BY <1>1 DEF Base, RunInv, LandInv, Covered
<1>7. KeepsHist
  BY <1>1 DEF KeepsHist
<1> QED
  BY <1>2, <1>3, <1>4, <1>5, <1>6, <1>7 DEF Base, TypeInv, RunInv

\* What retention leaves of collection_run it leaves as it was.
LEMMA PurgeCloses == PurgeStep => ClosedRowsKept
<1> SUFFICES ASSUME PurgeStep, NEW r \in DOMAIN runs \cap DOMAIN runs'
             PROVE  runs'[r] = runs[r] /\ hist'[r] = hist[r]
  BY DEF ClosedRowsKept
<1>1. runs' = [s \in DOMAIN runs' |-> runs[s]] /\ hist' = hist
  BY DEF PurgeStep
<1> QED
  BY <1>1

LEMMA StillRecent ==
  ASSUME NEW t \in Nat, NEW u \in Nat, NEW age \in Nat, NEW k \in Nat, t <= u, k >= u - age
  PROVE  k >= t - age
  OBVIOUS

LEMMA OneInstance ==
  ASSUME Base, Len(Monitored) = 1
  PROVE  \A r \in DOMAIN hist : Monitored[hist[r].place] = Monitored[1]
<1>1. Places = {1}
  BY DEF Places
<1> QED
  BY <1>1 DEF Base, TypeInv, TypeOK, HistRow

\* A key whose facts are spared is as durable as before.
LEMMA DurableSpared ==
  ASSUME NEW k \in Keys, DurableAt(k), UNCHANGED hist,
         \A r \in DOMAIN hist : fact'[Monitored[hist[r].place]][k] = fact[Monitored[hist[r].place]][k]
  PROVE  DurableAt(k)'
<1> SUFFICES ASSUME NEW r \in DOMAIN hist, NEW row \in hist[r].landed, row.key = k
             PROVE  LET v == fact'[Monitored[hist[r].place]][k]
                    IN  \/ v = row.val
                        \/ \E s \in DOMAIN hist \ {r} : [key |-> k, val |-> v] \in hist[s].landed
  BY DEF DurableAt
<1>1. fact'[Monitored[hist[r].place]][k] = fact[Monitored[hist[r].place]][k]
  OBVIOUS
<1> QED
  BY <1>1 DEF DurableAt
=============================================================================
