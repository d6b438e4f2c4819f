--------------------------- MODULE WorkloadProofs ---------------------------
(* Proofs about Workload, for any events, groups and clocks and any number of overlapping *)
(* runs.                                                                                  *)
EXTENDS Workload, WatermarkProofs

\* Windows of any time make keys, and events, which are finitely many, make values.
Roomy ==
    /\ IsFiniteSet(Event)
    /\ [window : Nat, group : Group] \subseteq Keys
    /\ (SUBSET Event) \ {{}} \subseteq Vals

\* A row of the fact table has landed under a row of collection_run.
FactInv ==
    \A i \in Inst, k \in Keys :
        fact[i][k] # NoVal =>
            \E s \in DOMAIN hist : [key |-> k, val |-> fact[i][k]] \in hist[s].landed

\* No timestamp is in the future of the instance's clock, and buffers are dispatched in order.
EventInv ==
    /\ \A e \in Event : Happened(e) => ts[e] <= now + setup.skew
    /\ \A e, f \in Event : stage[e] \in {"file", "gone"} /\ stage[f] = "buffer" => ts[e] <= ts[f]

\* What a read of the files finds: they were filled in order, and lost their oldest events.
Snapshot(place, t, events) ==
    \A e \in events :
        /\ place[e] \in {"file", "gone"}
        /\ \A f \in Event \ events : place[f] \in {"none", "gone"} \/ t[e] <= t[f]

\* What transform makes of it: the events after the watermark are in the batch, and no other;
\* the window is the watermark or, without one, the oldest timestamp.
Transformed(t, events, mark, batch) ==
    /\ \A e \in events : Later(t, e, mark) => \E x \in batch : e \in x.val
    /\ \A x \in batch :
         /\ x.val \subseteq {e \in events : Later(t, e, mark)}
         /\ mark # Null => x.key.window = mark
         /\ mark = Null => \E f \in events : /\ t[f] = x.key.window
                                             /\ \A g \in events : t[f] <= t[g]

ReadInv ==
    /\ \A p \in Invocations : pc[p] = "start" =>
         Snapshot(stage, ts, seen[p]) /\ Transformed(ts, seen[p], watermark[p], todo[p])
    /\ \A r \in DOMAIN hist :
         /\ Snapshot(stage, ts, saw[r].events)
         /\ Transformed(ts, saw[r].events, saw[r].mark, hist[r].batch)

WorkloadInv ==
    /\ Core /\ DurableInv /\ FactInv
    /\ WatermarkInv /\ WorkloadTypeOK /\ EventInv /\ ReadInv

\* What a step does to the events: time stands still for those that have happened, the
\* others are stamped now, and everyone moves on in order.
Onward ==
    /\ setup' = setup /\ groupOf' = groupOf
    /\ \A e \in Event :
         /\ stage[e] # "none" => ts'[e] = ts[e] /\ stage'[e] # "none"
         /\ stage[e] = "none" => stage'[e] = "none" \/ ts'[e] = now + setup.skew
         /\ stage[e] \in {"file", "gone"} => stage'[e] \in {"file", "gone"}
         /\ stage[e] = "gone" => stage'[e] = "gone"

-----------------------------------------------------------------------------
(* The facts *)

\* Facts change by a commit, which lands them under the row of its run.
LEMMA FactStep == Base /\ FactInv /\ AnyStep => FactInv'
<1> SUFFICES ASSUME Base, FactInv, AnyStep, NEW i \in Inst, NEW k \in Keys, fact'[i][k] # NoVal
             PROVE  \E s \in DOMAIN hist' : [key |-> k, val |-> fact'[i][k]] \in hist'[s].landed
  BY DEF FactInv
<1>0. KeepsHist
  BY AnyEffect, RowsKept DEF KeepsRows
<1>1. ASSUME fact'[i][k] = fact[i][k]
      PROVE  \E s \in DOMAIN hist' : [key |-> k, val |-> fact'[i][k]] \in hist'[s].landed
  <2>1. PICK s \in DOMAIN hist : [key |-> k, val |-> fact[i][k]] \in hist[s].landed
    BY <1>1 DEF FactInv
  <2>2. s \in DOMAIN hist' /\ hist[s].landed \subseteq hist'[s].landed
    BY <1>0 DEF KeepsHist
  <2> QED
    BY <1>1, <2>1, <2>2
<1>2. ASSUME NEW p \in Invocations, Lands(p)
      PROVE  \E s \in DOMAIN hist' : [key |-> k, val |-> fact'[i][k]] \in hist'[s].landed
  <2>1. CASE fact'[i][k] = fact[i][k]
    BY <1>1, <2>1
  <2>2. CASE [key |-> k, val |-> fact'[i][k]] \in txn[p]
    <3>1. runId[p] \in DOMAIN hist' /\ txn[p] \subseteq hist'[runId[p]].landed
      BY <1>2, LandsRows
    <3> QED
      BY <2>2, <3>1
  <2> QED
    BY <1>2, <2>1, <2>2, LandsValue
<1>3. CASE UNCHANGED fact
  BY <1>1, <1>3
<1> QED
  BY <1>2, <1>3, FactEffect

-----------------------------------------------------------------------------
(* The batch *)

LEMMA OldestOf ==
  ASSUME ts \in [Event -> Nat], NEW E \in SUBSET Event, E # {}
  PROVE  Oldest(E) # {}
<1> DEFINE T == {ts[e] : e \in E}
<1>1. T \in SUBSET Nat /\ T # {}
  OBVIOUS
<1>2. PICK m \in T : \A n \in T : m <= n
  BY <1>1, LeastOf
<1>3. PICK e \in E : m = ts[e]
  BY <1>2
<1>4. \A f \in E : ts[e] <= ts[f]
  BY <1>2, <1>3
<1> QED
  BY <1>3, <1>4 DEF Oldest

\* The window is the watermark, or the oldest of the events that are kept.
LEMMA WindowOf ==
  ASSUME WorkloadTypeOK, NEW mark \in Nat \cup {Null}, NEW E \in SUBSET Event, E # {}
  PROVE  /\ Window(mark, E) \in Nat
         /\ mark # Null => Window(mark, E) = mark
         /\ mark = Null => \E f \in E : ts[f] = Window(mark, E) /\ \A g \in E : ts[f] <= ts[g]
<1>1. ts \in [Event -> Nat]
  BY DEF WorkloadTypeOK, WatermarkTypeOK
<1>2. CASE mark # Null
  BY <1>2 DEF Window
<1>3. CASE mark = Null
  <2> DEFINE f == CHOOSE e \in Oldest(E) : TRUE
  <2>1. f \in Oldest(E)
    BY <1>1, OldestOf
  <2>2. f \in E /\ \A g \in E : ts[f] <= ts[g]
    BY <2>1 DEF Oldest
  <2>3. Window(mark, E) = ts[f]
    BY <1>3 DEF Window
  <2> HIDE DEF f
  <2> QED
    BY <1>1, <1>3, <2>2, <2>3
<1> QED
  BY <1>2, <1>3

\* transform returns one row per group, of the right type.
LEMMA BatchType ==
  ASSUME Roomy, WorkloadTypeOK, NEW mark \in Nat \cup {Null}, NEW E \in SUBSET Event
  PROVE  Aggregates(mark, E) \in SUBSET Row /\ Proper(Aggregates(mark, E))
<1> DEFINE Groups == {groupOf[e] : e \in E}
           RowOf(g) == [key |-> [window |-> Window(mark, E), group |-> g],
                        val |-> {e \in E : groupOf[e] = g}]
           B == {RowOf(g) : g \in Groups}
<1>0. B = Aggregates(mark, E)
  BY DEF Aggregates
<1>1. groupOf \in [Event -> Group]
  BY DEF WorkloadTypeOK
<1>2. ASSUME NEW g \in Groups PROVE RowOf(g) \in Row
  <2>1. PICK e \in E : groupOf[e] = g
    BY <1>2
  <2>2. Window(mark, E) \in Nat
    BY <2>1, WindowOf
  <2>3. [window |-> Window(mark, E), group |-> g] \in Keys
    BY <1>1, <2>1, <2>2 DEF Roomy
  <2>4. {f \in E : groupOf[f] = g} \in (SUBSET Event) \ {{}}
    BY <2>1
  <2>5. {f \in E : groupOf[f] = g} \in Vals
    BY <2>4 DEF Roomy
  <2> QED
    BY <2>3, <2>5 DEF Row
<1>3. IsFiniteSet(B)
  <2>1. IsFiniteSet(E)
    BY FS_Subset DEF Roomy
  <2> DEFINE rowOf == [e \in E |-> RowOf(groupOf[e])]
  <2>2. rowOf \in [E -> B] /\ \A x \in B : \E e \in E : rowOf[e] = x
    OBVIOUS
  <2> HIDE DEF rowOf, B
  <2>3. rowOf \in Surjection(E, B)
    BY <2>2 DEF Surjection
  <2> QED
    BY <2>1, <2>3, FS_Surjection
<1>4. \A x, y \in B : x.key = y.key => x = y
  OBVIOUS
<1>5. B \in SUBSET Row
  BY <1>2
<1> HIDE DEF B
<1> QED
  BY <1>0, <1>3, <1>4, <1>5 DEF Proper, KeysDiffer

\* The batch is what Transformed says.
LEMMA BatchContents ==
  ASSUME WorkloadTypeOK, NEW mark \in Nat \cup {Null}
  PROVE  Transformed(ts, In("file"), mark, Aggregates(mark, Fresh(mark)))
<1> DEFINE E == Fresh(mark)
           RowOf(g) == [key |-> [window |-> Window(mark, E), group |-> g],
                        val |-> {e \in E : groupOf[e] = g}]
<1>1. E = {e \in In("file") : Later(ts, e, mark)} /\ E \in SUBSET Event
  BY DEF Fresh, After, Later, In
<1>2. Aggregates(mark, E) = {RowOf(g) : g \in {groupOf[e] : e \in E}}
  BY DEF Aggregates
<1>3. mark = Null => E = In("file")
  BY <1>1 DEF Later
<1> HIDE DEF E
<1>4. \A e \in E : \E x \in Aggregates(mark, E) : e \in x.val
  <2>1. ASSUME NEW e \in E PROVE RowOf(groupOf[e]) \in Aggregates(mark, E) /\ e \in RowOf(groupOf[e]).val
    BY <1>2, <2>1
  <2> HIDE DEF RowOf
  <2> QED
    BY <2>1
<1>5. ASSUME NEW x \in Aggregates(mark, E)
      PROVE  /\ x.val \subseteq E
             /\ mark # Null => x.key.window = mark
             /\ mark = Null => \E f \in E : /\ ts[f] = x.key.window
                                            /\ \A g \in E : ts[f] <= ts[g]
  <2>1. PICK e \in E : x = RowOf(groupOf[e])
    BY <1>2, <1>5
  <2>2. x.val \subseteq E /\ x.key.window = Window(mark, E)
    BY <2>1
  <2> QED
    BY <1>1, <2>1, <2>2, WindowOf
<1>6. /\ \A e \in In("file") : Later(ts, e, mark) => \E x \in Aggregates(mark, E) : e \in x.val
      /\ \A x \in Aggregates(mark, E) :
           /\ x.val \subseteq {e \in In("file") : Later(ts, e, mark)}
           /\ mark # Null => x.key.window = mark
           /\ mark = Null => \E f \in In("file") : /\ ts[f] = x.key.window
                                                   /\ \A g \in In("file") : ts[f] <= ts[g]
  BY <1>1, <1>3, <1>4, <1>5
<1> QED
  BY <1>6 DEF Transformed, E

LEMMA FileSnapshot ==
  ASSUME WorkloadTypeOK, EventInv
  PROVE  Snapshot(stage, ts, In("file"))
  BY DEF WorkloadTypeOK, EventInv, Snapshot, In

\* What was read before a step stays as it was read.
LEMMA SnapshotStays ==
  ASSUME WorkloadTypeOK, EventInv, Onward, now \in Nat, setup.skew \in Int,
         NEW E \in SUBSET Event, Snapshot(stage, ts, E)
  PROVE  Snapshot(stage', ts', E)
<1>1. /\ stage \in [Event -> {"none", "buffer", "file", "gone"}] /\ ts \in [Event -> Nat]
  BY DEF WorkloadTypeOK, WatermarkTypeOK
<1>2. ASSUME NEW e \in E, NEW f \in Event \ E
      PROVE  stage'[f] \in {"none", "gone"} \/ ts'[e] <= ts'[f]
  <2>1. /\ stage[e] \in {"file", "gone"} /\ ts'[e] = ts[e] /\ ts[e] <= now + setup.skew
        /\ stage[f] \in {"none", "gone"} \/ ts[e] <= ts[f]
    BY <1>2 DEF Snapshot, Onward, EventInv, Happened
  <2>2. CASE stage[f] = "none"
    BY <2>1, <2>2 DEF Onward
  <2>3. CASE stage[f] # "none"
    BY <2>1, <2>3 DEF Onward
  <2> QED
    BY <2>2, <2>3
<1>3. \A e \in E : stage'[e] \in {"file", "gone"}
  BY DEF Snapshot, Onward
<1> QED
  BY <1>2, <1>3 DEF Snapshot

LEMMA TransformedStays ==
  ASSUME Onward, NEW E \in SUBSET Event, Snapshot(stage, ts, E), NEW mark, NEW batch,
         Transformed(ts, E, mark, batch)
  PROVE  Transformed(ts', E, mark, batch)
<1>1. \A e \in E : ts'[e] = ts[e]
  BY DEF Snapshot, Onward
<1>2. \A e \in E : Later(ts', e, mark) = Later(ts, e, mark)
  BY <1>1 DEF Later
<1>3. {e \in E : Later(ts', e, mark)} = {e \in E : Later(ts, e, mark)}
  BY <1>2
<1> QED
  BY <1>1, <1>2, <1>3 DEF Transformed

-----------------------------------------------------------------------------
(* The invariant is kept *)

LEMMA WorkloadInitially == WorkloadInit => WorkloadInv
<1> SUFFICES ASSUME WorkloadInit PROVE WorkloadInv
  OBVIOUS
<1>1. Core /\ DurableInv /\ FactInv
  BY CoreInit, DurableInit DEF WorkloadInit, WatermarkInit, Init, FactInv
<1>2. WatermarkInv
  BY WatermarkInitially DEF WorkloadInit
<1>3. WorkloadTypeOK
  BY <1>2, WorkloadAssumption DEF WorkloadInit, WatermarkInit, WatermarkInv, WorkloadTypeOK
<1>4. EventInv /\ ReadInv
  BY DEF WorkloadInit, WatermarkInit, Init, EventInv, Happened, ReadInv
<1> QED
  BY <1>1, <1>2, <1>3, <1>4 DEF WorkloadInv

\* The steps, by what they do to the tables, to the local state and to the events.
LEMMA WorkloadSteps ==
  ASSUME Roomy, WorkloadTypeOK, [WorkloadNext]_workloadVars
  PROVE  WatermarkStep /\ ProperStep /\ Onward
<1>0. /\ WatermarkTypeOK /\ stage \in [Event -> {"none", "buffer", "file", "gone"}]
      /\ ts \in [Event -> Nat] /\ groupOf' = groupOf
  BY DEF WorkloadTypeOK, WatermarkTypeOK, WorkloadNext, workloadVars
<1>1. ASSUME UNCHANGED sourceVars PROVE Onward
  BY <1>0, <1>1 DEF Onward, sourceVars
<1>2. ASSUME NEW e \in Event, Complete(e) \/ Dispatch(e) \/ RollOver(e)
      PROVE  WatermarkStep /\ ProperStep /\ Onward
  <2>1. SourceStep
    BY <1>0, <1>2, StampStep DEF Complete, Dispatch, RollOver
  <2>2. Onward
    BY <1>0, <1>2 DEF Complete, Dispatch, RollOver, Happen, Move, Oldest, In, Onward
  <2> QED
    BY <2>1, <2>2 DEF SourceStep, WatermarkStep, ProperStep
<1>3. ASSUME NEW p \in Invocations, ReadEvents(p) PROVE WatermarkStep /\ ProperStep /\ Onward
  <2> DEFINE batch == Aggregates(watermark[p], Fresh(watermark[p]))
  <2>1. Collect(p, In("file"), batch) /\ In("file") \in SUBSET Event
    BY <1>3 DEF ReadEvents, In
  <2>2. watermark[p] \in Nat \cup {Null} /\ Fresh(watermark[p]) \in SUBSET Event
    BY <1>0, <2>1 DEF Collect, WatermarkTypeOK, Fresh, In
  <2>3. batch \in SUBSET Row /\ Proper(batch)
    BY <2>2, BatchType
  <2> HIDE DEF batch
  <2>4. Fetch(p, batch) /\ UNCHANGED sourceVars /\ IsFiniteSet(batch)
    BY <2>1, <2>3 DEF Collect, Proper
  <2> QED
    BY <1>1, <2>1, <2>3, <2>4 DEF WatermarkStep, ProperStep
<1>4. ASSUME NEW p \in Invocations, CannotCompare(p) \/ ReadWatermark(p) \/ Inherited(p)
      PROVE  WatermarkStep /\ ProperStep /\ Onward
  <2>1. UNCHANGED sourceVars /\ WatermarkStep
    BY <1>4 DEF CannotCompare, TransformRaises, ReadWatermark, Inherited, WatermarkStep
  <2>2. ProperStep
    BY <1>4 DEF CannotCompare, TransformRaises, ReadWatermark, Inherited, ProperStep, Next, Failure
  <2> QED
    BY <1>1, <2>1, <2>2
<1>5. ASSUME Tick \/ UNCHANGED vars, UNCHANGED wVars PROVE WatermarkStep /\ ProperStep /\ Onward
  BY <1>1, <1>5 DEF WatermarkStep, ProperStep, Next, wVars
<1> QED
  BY <1>2, <1>3, <1>4, <1>5 DEF WorkloadNext, WorkloadStep, Common, AllEnded, workloadVars, allVars

LEMMA EventsKept ==
  ASSUME WorkloadTypeOK, EventInv, WatermarkStep, Onward, [WorkloadNext]_workloadVars
  PROVE  EventInv'
<1>0. /\ stage \in [Event -> {"none", "buffer", "file", "gone"}] /\ ts \in [Event -> Nat]
      /\ now \in Nat /\ now' \in Nat /\ now' >= now /\ setup.skew \in Int
  BY NowGrows, WatermarkAssumption DEF WorkloadTypeOK, WatermarkTypeOK, TypeOK
<1>1. ASSUME NEW e \in Event, stage'[e] # "none" PROVE ts'[e] <= now' + setup'.skew
  <2>1. ts'[e] <= now + setup.skew /\ setup' = setup /\ ts'[e] \in Int
    BY <1>0, <1>1 DEF Onward, EventInv, Happened
  <2> QED
    BY <1>0, <2>1
<1>2. ASSUME NEW e \in Event, NEW f \in Event, stage'[e] \in {"file", "gone"}, stage'[f] = "buffer"
      PROVE  ts'[e] <= ts'[f]
  <2>1. ASSUME NEW d \in Event, Complete(d) PROVE ts'[e] <= ts'[f]
    <3>1. /\ stage[d] = "none" /\ stage' = [stage EXCEPT ![d] = "buffer"]
          /\ ts' = [ts EXCEPT ![d] = now + setup.skew]
      BY <2>1 DEF Complete, Happen
    <3>2. e # d /\ stage[e] \in {"file", "gone"} /\ ts'[e] = ts[e] /\ ts[e] <= now + setup.skew
      BY <1>0, <1>2, <3>1 DEF EventInv, Happened
    <3>3. CASE f = d
      BY <1>0, <3>1, <3>2, <3>3
    <3>4. CASE f # d
      BY <1>0, <1>2, <3>1, <3>2, <3>4 DEF EventInv
    <3> QED
      BY <3>3, <3>4
  <2>2. ASSUME NEW d \in Event, Dispatch(d) PROVE ts'[e] <= ts'[f]
    <3>1. /\ d \in Oldest(In("buffer")) /\ stage' = [stage EXCEPT ![d] = "file"] /\ ts' = ts
      BY <2>2 DEF Dispatch, Move
    <3>2. f # d /\ stage[f] = "buffer"
      BY <1>0, <1>2, <3>1
    <3>3. CASE e = d
      BY <3>1, <3>2, <3>3 DEF Oldest, In
    <3>4. CASE e # d
      BY <1>0, <1>2, <3>1, <3>2, <3>4 DEF EventInv
    <3> QED
      BY <3>3, <3>4
  <2>3. ASSUME NEW d \in Event, RollOver(d) PROVE ts'[e] <= ts'[f]
    BY <1>0, <1>2, <2>3 DEF RollOver, Move, Oldest, In, EventInv
  <2>4. ASSUME UNCHANGED sourceVars PROVE ts'[e] <= ts'[f]
    BY <1>2, <2>4 DEF sourceVars, EventInv
  <2> QED
    BY <2>1, <2>2, <2>3, <2>4 DEF WorkloadNext, WorkloadStep, Common, ReadEvents, CannotCompare,
       ReadWatermark, Inherited, Collect, TransformRaises, workloadVars, allVars, wVars
<1> QED
  BY <1>1, <1>2 DEF EventInv, Happened

\* What is fetched is what the files hold.
LEMMA FilesRead ==
  ASSUME WatermarkInv, [WorkloadNext]_workloadVars, NEW p \in Invocations,
         Collect(p, seen'[p], todo'[p]), pc'[p] = "start"
  PROVE  /\ seen'[p] = In("file")
         /\ todo'[p] = Aggregates(watermark[p], Fresh(watermark[p]))
         /\ stage' = stage /\ ts' = ts
<1> DEFINE Found == /\ seen'[p] = In("file")
                    /\ todo'[p] = Aggregates(watermark[p], Fresh(watermark[p]))
                    /\ stage' = stage /\ ts' = ts
<1>0. /\ TypeOK /\ pc \in [Invocations -> Pcs] /\ todo \in [Invocations -> SUBSET Row]
      /\ seen \in [Invocations -> SUBSET Event]
      /\ pc[p] = "fetch"
  BY DEF WatermarkInv, WatermarkTypeOK, TypeOK, Collect, Fetch
<1>1. ASSUME NEW q \in Invocations, ReadEvents(q) PROVE Found
  <2>1. q = p
    BY <1>0, <1>1 DEF ReadEvents, Collect, Fetch, Return, Goto
  <2> QED
    BY <1>0, <1>1, <2>1 DEF ReadEvents, Collect, Fetch, Return, Goto, sourceVars
<1>2. ASSUME NEW q \in Invocations, CannotCompare(q) \/ ReadWatermark(q) PROVE FALSE
  BY <1>0, <1>2 DEF CannotCompare, TransformRaises, FetchFails, ReadWatermark, Raise, Goto, vars,
     procVars
<1>3. ASSUME NEW q \in Invocations, Inherited(q) PROVE FALSE
  <2>1. Inherits(q)
    BY <1>3 DEF Inherited, Inherits
  <2> QED
    BY <1>0, <2>1, StartersStay
<1>4. ASSUME UNCHANGED pc PROVE FALSE
  BY <1>0, <1>4
<1> QED
  BY <1>1, <1>2, <1>3, <1>4 DEF WorkloadNext, WorkloadStep, Common, Complete, Dispatch, RollOver,
     Happen, Move, Tick, AllEnded, workloadVars, allVars, vars, procVars

LEMMA ReadsKept ==
  ASSUME WatermarkInv, WorkloadTypeOK, EventInv, ReadInv, WatermarkStep, Onward,
         [WorkloadNext]_workloadVars
  PROVE  ReadInv'
<1>0. /\ seen \in [Invocations -> SUBSET Event] /\ saw \in [DOMAIN hist -> SawRow]
      /\ \A r \in DOMAIN hist : saw[r].events \in SUBSET Event
      /\ now \in Nat /\ setup.skew \in Int
  BY WatermarkAssumption DEF WorkloadTypeOK, WatermarkTypeOK, TypeOK, SawRow
<1>1. ASSUME NEW E \in SUBSET Event, NEW mark, NEW batch,
             Snapshot(stage, ts, E), Transformed(ts, E, mark, batch)
      PROVE  Snapshot(stage', ts', E) /\ Transformed(ts', E, mark, batch)
  BY <1>0, <1>1, SnapshotStays, TransformedStays
\* The invocations that had read before the step.
<1>2. ASSUME NEW p \in Invocations, pc[p] = "start"
      PROVE  Snapshot(stage', ts', seen[p]) /\ Transformed(ts', seen[p], watermark[p], todo[p])
  BY <1>0, <1>1, <1>2 DEF ReadInv
<1>3. ASSUME NEW p \in Invocations, pc'[p] = "start"
      PROVE  Snapshot(stage', ts', seen'[p]) /\ Transformed(ts', seen'[p], watermark'[p], todo'[p])
  <2>1. CASE /\ pc[p] = "start" /\ todo'[p] = todo[p] /\ seen'[p] = seen[p]
             /\ watermark'[p] = watermark[p]
    BY <1>2, <2>1
  <2>2. CASE /\ Collect(p, seen'[p], todo'[p]) /\ watermark'[p] = watermark[p]
             /\ watermark[p] \in Nat \cup {Null}
    <3>1. /\ seen'[p] = In("file") /\ stage' = stage /\ ts' = ts
          /\ todo'[p] = Aggregates(watermark[p], Fresh(watermark[p]))
      BY <1>3, <2>2, FilesRead
    <3>2. /\ Snapshot(stage, ts, In("file"))
          /\ Transformed(ts, In("file"), watermark[p], Aggregates(watermark[p], Fresh(watermark[p])))
      BY <2>2, FileSnapshot, BatchContents
    <3> QED
      BY <2>2, <3>1, <3>2
  <2> QED
    BY <1>3, <2>1, <2>2, Readers
<1>4. ASSUME NEW r \in DOMAIN hist'
      PROVE  /\ Snapshot(stage', ts', saw'[r].events)
             /\ Transformed(ts', saw'[r].events, saw'[r].mark, hist'[r].batch)
  <2>1. CASE r \in DOMAIN hist /\ saw'[r] = saw[r] /\ hist'[r].batch = hist[r].batch
    <3>1. Snapshot(stage, ts, saw[r].events) /\ Transformed(ts, saw[r].events, saw[r].mark, hist[r].batch)
      BY <2>1 DEF ReadInv
    <3> QED
      BY <1>0, <1>1, <2>1, <3>1
  <2>2. ASSUME NEW p \in Invocations, pc[p] = "start", hist'[r].batch = todo[p],
               saw'[r].events = seen[p], saw'[r].mark = watermark[p]
        PROVE  /\ Snapshot(stage', ts', saw'[r].events)
               /\ Transformed(ts', saw'[r].events, saw'[r].mark, hist'[r].batch)
    BY <1>2, <2>2
  <2> QED
    BY <2>1, <2>2, Recorded
<1> QED
  BY <1>3, <1>4 DEF ReadInv

LEMMA WorkloadKept == Roomy /\ WorkloadInv /\ [WorkloadNext]_workloadVars => WorkloadInv'
<1> SUFFICES ASSUME Roomy, WorkloadInv, [WorkloadNext]_workloadVars PROVE WorkloadInv'
  OBVIOUS
<1>1. /\ Core /\ DurableInv /\ FactInv /\ WatermarkInv /\ WorkloadTypeOK /\ EventInv /\ ReadInv
      /\ Base
  BY DEF WorkloadInv, Core
<1>2. WatermarkStep /\ ProperStep /\ Onward /\ AnyStep
  BY <1>1, WorkloadSteps, ProperIsAny
<1>3. Core'
  BY <1>1, <1>2, CoreStep
<1>4. DurableInv'
  BY <1>1, <1>2, DurableStep DEF DurableInv
<1>5. FactInv'
  BY <1>1, <1>2, FactStep
<1>6. WatermarkInv'
  BY <1>1, <1>2, WatermarkKept
<1>7. WorkloadTypeOK'
  <2>1. /\ groupOf \in [Event -> Group] /\ groupOf' = groupOf
        /\ stage \in [Event -> {"none", "buffer", "file", "gone"}]
    BY <1>1 DEF WorkloadTypeOK, WorkloadNext, workloadVars
  <2>2. stage' \in [Event -> {"none", "buffer", "file", "gone"}]
    BY <2>1 DEF WorkloadNext, WorkloadStep, Common, Complete, Dispatch, RollOver, Happen, Move,
       ReadEvents, CannotCompare, ReadWatermark, Inherited, Collect, TransformRaises, workloadVars,
       allVars, wVars, sourceVars
  <2> QED
    BY <1>6, <2>1, <2>2 DEF WatermarkInv, WorkloadTypeOK
<1>8. EventInv'
  BY <1>1, <1>2, EventsKept
<1>9. ReadInv'
  BY <1>1, <1>2, ReadsKept
<1> QED
  BY <1>3, <1>4, <1>5, <1>6, <1>7, <1>8, <1>9 DEF WorkloadInv

LEMMA WorkloadAlways == ASSUME Roomy PROVE WorkloadSpec => []WorkloadInv
<1>1. WorkloadInv /\ [WorkloadNext]_workloadVars => WorkloadInv'
  BY WorkloadKept
<1> QED
  BY <1>1, WorkloadInitially, PTL DEF WorkloadSpec

\* Every variable of Workload keeps its type, the windows included.
THEOREM WorkloadTypeCorrect ==
  ASSUME Roomy PROVE WorkloadSpec => []WorkloadTypeOK
<1>1. WorkloadInv => WorkloadTypeOK
  BY DEF WorkloadInv
<1> QED
  BY <1>1, WorkloadAlways, PTL

-----------------------------------------------------------------------------
(* The contract of CollectionRun, inherited *)

\* Runs of the workload collector, watermark, overlaps and failures included, do to
\* collection_run and the data behind it what the ledger promises.
THEOREM WorkloadRefinement ==
  ASSUME Roomy PROVE WorkloadSpec => ImplementsLedger
<1>1. WorkloadInit => Ledger!LedgerInit
  BY DEF WorkloadInit, WatermarkInit, Init, Ledger!LedgerInit, LedgerRows
<1>2. WorkloadInv /\ [WorkloadNext]_workloadVars => [Ledger!LedgerNext]_LedgerRows
  <2> SUFFICES ASSUME WorkloadInv, [WorkloadNext]_workloadVars
               PROVE  [Ledger!LedgerNext]_LedgerRows
    OBVIOUS
  <2>1. Core /\ Base /\ WorkloadTypeOK
    BY DEF WorkloadInv, Core
  <2>2. TableStep
    BY <2>1, WorkloadSteps, ProperIsAny, AnyEffect
  <2> QED
    BY <2>1, <2>2, LedgerStep
<1> QED
  BY <1>1, <1>2, WorkloadAlways, PTL DEF WorkloadSpec, ImplementsLedger, Ledger!LedgerSpec

\* What a successful workload run counted stays in fact_workload, or gives way to what
\* another run made of the same window and group.
THEOREM WorkloadDurable ==
  ASSUME Roomy PROVE WorkloadSpec => []SuccessIsDurable
<1>1. WorkloadInv => SuccessIsDurable
  BY DurableSuccess DEF WorkloadInv
<1> QED
  BY <1>1, WorkloadAlways, PTL

-----------------------------------------------------------------------------
(* Losses *)

\* Whatever the clocks, the delays of the session, the overlaps and the failures, an event
\* behind the watermark is in a row of fact_workload, was missed by a successful run, or was
\* overwritten by another run of its window.
THEOREM LossExplained ==
  ASSUME Roomy PROVE WorkloadSpec => []LossIsExplained
<1>1. WorkloadInv => LossIsExplained
  <2> SUFFICES ASSUME WorkloadInv, NEW e \in Event, Passed(e), Counting(e) = {}, ~Missed(e)
               PROVE  Overwritten(e)
    BY DEF LossIsExplained
  <2>0. /\ DurableInv /\ ReadInv /\ succeeded \subseteq DOMAIN hist
        /\ hist \in [DOMAIN hist -> HistRow]
    BY DEF WorkloadInv, Core, Base, TypeInv, TypeOK, WatermarkInv, WatermarkTypeOK
  <2>1. PICK r \in succeeded : e \in saw[r].events /\ Later(ts, e, saw[r].mark)
    BY FirstPast DEF WorkloadInv
  <2>2. PICK x \in hist[r].batch : e \in x.val
    BY <2>0, <2>1 DEF ReadInv, Transformed
  <2>3. r \in DOMAIN hist /\ x \in hist[r].landed
    <3>1. /\ r \in DOMAIN hist /\ Proper(hist[r].batch) /\ hist[r].landed \subseteq hist[r].batch
          /\ Covered(hist[r].batch, hist[r].landed)
      BY <2>0 DEF WorkloadInv, Core, ProperInv, Base, RunInv, LandInv, WatermarkInv, MarkInv
    <3> QED
      BY <3>1, CoveredAll
  <2>4. Monitored[hist[r].place] = Home /\ x \in Row
    BY <2>0, <2>3, OneInstance, WatermarkAssumption DEF WorkloadInv, Core, HistRow, Home
  <2> DEFINE v == fact[Home][x.key]
  <2>5. v # x.val
    <3>1. x.key \in Keys /\ x.val # NoVal
      BY <2>4, NoValAssumption DEF Row
    <3> QED
      BY <2>2, <3>1 DEF Counting
  <2>6. PICK s \in DOMAIN hist \ {r} : [key |-> x.key, val |-> v] \in hist[s].landed
    <3>1. DurableAt(x.key)
      BY <2>0, <2>4 DEF DurableInv, Row
    <3> QED
      BY <2>3, <2>4, <2>5, <3>1 DEF DurableAt
  <2>7. e \notin v
    <3>1. [key |-> x.key, val |-> v] \in Row
      BY <2>0, <2>6 DEF HistRow
    <3>2. x.key \in Keys /\ v # NoVal
      BY <2>4, <3>1, NoValAssumption DEF Row
    <3> QED
      BY <3>2 DEF Counting
  <2> DEFINE y == [key |-> x.key, val |-> v]
  <2>8. y \in hist[s].landed /\ x.key = y.key /\ e \notin y.val
    BY <2>6, <2>7
  <2> HIDE DEF y
  <2> QED
    BY <2>2, <2>3, <2>6, <2>8 DEF Overwritten
<1> QED
  BY <1>1, WorkloadAlways, PTL

-----------------------------------------------------------------------------
(* Double counts *)

\* A row that counts an event was read by some run, which saw the event after its watermark.
LEMMA ReaderOf ==
  ASSUME WorkloadInv, NEW e \in Event, NEW k \in Counting(e)
  PROVE  \E r \in DOMAIN hist :
           /\ e \in saw[r].events /\ Later(ts, e, saw[r].mark)
           /\ saw[r].mark # Null => k.window = saw[r].mark
           /\ saw[r].mark = Null => \E f \in saw[r].events :
                /\ ts[f] = k.window /\ \A g \in saw[r].events : ts[f] <= ts[g]
<1>1. /\ Home \in Inst /\ k \in Keys /\ fact[Home][k] # NoVal /\ e \in fact[Home][k]
      /\ FactInv /\ LandInv /\ ReadInv
  BY PlacesType, WatermarkAssumption DEF Counting, WorkloadInv, Core, Base, RunInv, Home, Places
<1>2. PICK r \in DOMAIN hist : [key |-> k, val |-> fact[Home][k]] \in hist[r].landed
  BY <1>1 DEF FactInv
<1>3. PICK x \in hist[r].batch : x.key = k /\ e \in x.val
  BY <1>1, <1>2 DEF LandInv
<1>4. Transformed(ts, saw[r].events, saw[r].mark, hist[r].batch)
  BY <1>1 DEF ReadInv
<1> QED
  BY <1>3, <1>4 DEF Transformed

\* If an event is counted twice, the run that read it under the earlier window and the one
\* under the later disagree about the watermark.  Without one, the later of them no longer
\* found the oldest event; with one, a successful run comes between them.
THEOREM DoubleCountExplained ==
  ASSUME Roomy PROVE WorkloadSpec => []DoubleCountIsExplained
<1>1. WorkloadInv => DoubleCountIsExplained
  <2> SUFFICES ASSUME WorkloadInv, NEW e \in Event, NEW k \in Counting(e), NEW l \in Counting(e),
                      k.window < l.window
               PROVE  \/ \E f \in Event : stage[f] = "gone" /\ ts[f] = k.window
                      \/ \E r \in DOMAIN hist :
                           e \in saw[r].events /\ (saw[r].at < ts[e] \/ Overtaken(r))
    BY DEF DoubleCountIsExplained
  <2>0. /\ saw \in [DOMAIN hist -> SawRow] /\ succeeded \subseteq DOMAIN hist
        /\ ts \in [Event -> Nat] /\ MarkInv /\ ReadInv
        /\ \A r \in DOMAIN hist : /\ saw[r].at \in Nat /\ saw[r].events \subseteq Event
                                  /\ saw[r].mark \in Nat \cup {Null}
    BY DEF WorkloadInv, WatermarkInv, WatermarkTypeOK, SawRow, MarkInv
  <2>1. PICK r \in DOMAIN hist :
           /\ e \in saw[r].events /\ Later(ts, e, saw[r].mark)
           /\ saw[r].mark # Null => k.window = saw[r].mark
           /\ saw[r].mark = Null => \E f \in saw[r].events :
                /\ ts[f] = k.window /\ \A g \in saw[r].events : ts[f] <= ts[g]
    BY ReaderOf
  <2>2. PICK s \in DOMAIN hist :
           /\ e \in saw[s].events /\ Later(ts, e, saw[s].mark)
           /\ saw[s].mark # Null => l.window = saw[s].mark
           /\ saw[s].mark = Null => \E f \in saw[s].events :
                /\ ts[f] = l.window /\ \A g \in saw[s].events : ts[f] <= ts[g]
    BY ReaderOf
  \* One of two readers knew a success that the other did not.
  <2>3. ASSUME NEW a \in DOMAIN hist, NEW b \in DOMAIN hist, e \in saw[a].events,
               Later(ts, e, saw[b].mark), saw[b].mark # Null, saw[a].mark < saw[b].mark
        PROVE  saw[a].at < ts[e] \/ Overtaken(a)
    <3>1. PICK c \in succeeded : saw[c].at = saw[b].mark
      BY <2>0, <2>3 DEF MarkInv, Started
    <3>2. saw[b].mark < ts[e]
      BY <2>3 DEF Later
    <3>3. CASE saw[c].at < saw[a].at
      BY <2>3, <3>1, <3>3 DEF Overtaken
    <3>4. CASE ~(saw[c].at < saw[a].at)
      BY <2>0, <3>1, <3>2, <3>4
    <3> QED
      BY <3>3, <3>4
  <2>4. CASE saw[r].mark = Null /\ saw[s].mark = Null
    <3>1. PICK f \in saw[r].events : ts[f] = k.window /\ \A g \in saw[r].events : ts[f] <= ts[g]
      BY <2>1, <2>4
    <3>2. PICK h \in saw[s].events : ts[h] = l.window /\ \A g \in saw[s].events : ts[h] <= ts[g]
      BY <2>2, <2>4
    <3>3. f \in Event /\ stage[f] # "none"
      BY <2>0, <3>1 DEF ReadInv, Snapshot
    <3>4. f \notin saw[s].events /\ ts[f] < ts[e]
      BY <2>0, <2>2, <3>1, <3>2, <3>3
    <3>5. stage[f] \in {"none", "gone"} \/ ts[e] <= ts[f]
      BY <2>0, <2>2, <3>3, <3>4 DEF ReadInv, Snapshot
    <3> QED
      BY <2>0, <3>1, <3>3, <3>4, <3>5
  <2>5. CASE saw[s].mark # Null /\ saw[r].mark < saw[s].mark
    BY <2>1, <2>2, <2>3, <2>5
  <2>6. CASE saw[r].mark # Null /\ saw[s].mark = Null
    <3>1. saw[s].mark < saw[r].mark
      BY <2>0, <2>6 DEF Null
    <3> QED
      BY <2>1, <2>2, <2>3, <2>6, <3>1
  <2>7. saw[s].mark # Null => saw[r].mark < saw[s].mark
    BY <2>0, <2>1, <2>2 DEF Null
  <2> QED
    BY <2>4, <2>5, <2>6, <2>7
<1> QED
  BY <1>1, WorkloadAlways, PTL
=============================================================================
