--------------------------- MODULE WatermarkProofs ---------------------------
(* Proofs about Watermark, for any collector that reads events through it, and about    *)
(* Deadlocks: any events and clocks, any number of overlapping runs, any retention.     *)
EXTENDS Deadlocks, CollectionRunProofs, WellFoundedInduction

(* Extrema *)

LEMMA LeastOf ==
  ASSUME NEW S \in SUBSET Nat, S # {}
  PROVE  \E m \in S : \A n \in S : m <= n
<1>1. IsWellFoundedOn(OpToRel(<, Nat), Nat)
  BY NatLessThanWellFounded
<1>2. PICK m \in S : \A n \in S : ~(<<n, m>> \in OpToRel(<, Nat))
  BY <1>1, WFMin
<1>3. \A n \in S : ~(n < m)
  BY <1>2 DEF OpToRel
<1> QED
  BY <1>3

\* A set of starts that are not in the future has a latest one.
LEMMA LatestOf ==
  ASSUME NEW S \in SUBSET DOMAIN runs, S # {}, now \in Nat,
         \A r \in S : runs[r].started \in Nat /\ runs[r].started <= now
  PROVE  /\ \E r \in S : LatestStart(S) = runs[r].started
         /\ \A r \in S : runs[r].started <= LatestStart(S)
<1> DEFINE T == {runs[r].started : r \in S}
           Ages == {now - t : t \in T}
<1>1. Ages \in SUBSET Nat /\ Ages # {}
  OBVIOUS
<1>2. PICK m \in Ages : \A n \in Ages : m <= n
  BY <1>1, LeastOf
<1>3. PICK u \in T : m = now - u
  BY <1>2
<1>4. \A t \in T : t \in Nat /\ t <= now
  OBVIOUS
<1>5. \A t \in T : t <= u
  <2>1. \A t \in T : now - u <= now - t
    BY <1>2, <1>3
  <2> QED
    BY <1>3, <1>4, <2>1
<1>6. \A r \in S : runs[r].started <= u
  BY <1>5
<1>7. LatestStart(S) = CHOOSE t \in T : \A r \in S : runs[r].started <= t
  BY DEF LatestStart
<1> DEFINE Last == CHOOSE t \in T : \A r \in S : runs[r].started <= t
<1>8. Last \in T /\ \A r \in S : runs[r].started <= Last
  BY <1>3, <1>6
<1> QED
  BY <1>7, <1>8

-----------------------------------------------------------------------------
(* The invariant of the watermark *)

\* A successful run has this start.
Started(t) == \E s \in succeeded : saw[s].at = t

\* saw and succeeded remember what collection_run said, a watermark is the start of a
\* success that came before, and a success left no key of its batch out.
MarkInv ==
    /\ \A r \in DOMAIN runs : /\ runs[r].status = "success" => r \in succeeded
                              /\ saw[r].at = runs[r].started
    /\ \A r \in DOMAIN hist : /\ saw[r].mark # Unread
                              /\ saw[r].mark \in Nat => Started(saw[r].mark)
                              /\ saw[r].mark < saw[r].at
                              /\ saw[r].at <= now
    /\ \A r \in succeeded : Covered(hist[r].batch, hist[r].landed)
    /\ \A p \in Invocations : /\ watermark[p] \in Nat => Started(watermark[p])
                              /\ pc[p] = "start" => watermark[p] # Unread

WatermarkInv == Base /\ WatermarkTypeOK /\ MarkInv

\* Retention deletes rows of either table.
RetentionStep == PurgeStep /\ UNCHANGED wVars

\* Something happens to the events, and to nothing else.
SourceStep == UNCHANGED <<vars, setup, markVars>> /\ ts' \in [Event -> Nat]

\* The steps of either collector, by what they do to the tables and to the local state.
WatermarkStep ==
    \/ SourceStep
    \/ \E p \in Invocations :
         \/ ReadWatermark(p)
         \/ \E events \in SUBSET Event : \E batch \in SUBSET Row :
              IsFiniteSet(batch) /\ Collect(p, events, batch)
         \/ TransformRaises(p)
         \/ Inherited(p)
    \/ (Tick \/ UNCHANGED vars) /\ UNCHANGED wVars
    \/ RetentionStep

\* Events are stamped by a clock that has not gone below its zero.
LEMMA StampStep ==
  ASSUME WatermarkTypeOK, NEW e \in Event, NEW from, NEW to, Happen(e, to) \/ Move(e, from, to)
  PROVE  SourceStep
<1>1. now \in Nat /\ setup.skew \in Int /\ ts \in [Event -> Nat]
  BY WatermarkAssumption DEF WatermarkTypeOK, TypeOK
<1> QED
  BY <1>1 DEF Happen, Move, SourceStep

\* What a step does to the tables of CollectionRun.
LEMMA StepOfBase == WatermarkStep => AnyStep \/ PurgeStep
<1>1. ASSUME NEW p \in Invocations, TransformRaises(p) \/ Inherited(p) PROVE AnyStep
  BY <1>1 DEF TransformRaises, Inherited, AnyStep, Next, Failure
<1>2. ASSUME NEW p \in Invocations, NEW events \in SUBSET Event, NEW batch \in SUBSET Row,
             IsFiniteSet(batch), Collect(p, events, batch)
      PROVE  AnyStep
  BY <1>2 DEF Collect, AnyStep
<1>3. ASSUME Tick \/ UNCHANGED vars PROVE AnyStep
  BY <1>3 DEF AnyStep, Next
<1> QED
  BY <1>1, <1>2, <1>3 DEF WatermarkStep, SourceStep, RetentionStep, ReadWatermark

LEMMA BaseKept == Base /\ WatermarkStep => Base' /\ KeepsHist
  BY StepOfBase, PurgeBase, BaseStep, AnyEffect, RowsKept DEF KeepsRows

\* Time does not go back.
LEMMA NowGrows == TypeOK /\ WatermarkStep => now' >= now /\ now' \in Nat
<1> SUFFICES ASSUME TypeOK, WatermarkStep PROVE now' >= now /\ now' \in Nat
  OBVIOUS
<1>0. now \in Nat
  BY DEF TypeOK
<1>1. ASSUME NEW p \in Invocations, Inherited(p) PROVE now' = now \/ now' = now + 1
  <2>1. Inherits(p)
    BY <1>1 DEF Inherited, Inherits
  <2> QED
    BY <2>1, OpenedBy DEF Opens, InsertRun
<1>2. ASSUME NEW p \in Invocations,
             \/ ReadWatermark(p) \/ TransformRaises(p) \/ \E events, batch : Collect(p, events, batch)
      PROVE  now' = now
  BY <1>2 DEF ReadWatermark, Collect, Fetch, TransformRaises, FetchFails, vars
<1>3. CASE Tick \/ UNCHANGED vars
  BY <1>0, <1>3 DEF Tick, vars
<1> QED
  BY <1>0, <1>1, <1>2, <1>3 DEF WatermarkStep, SourceStep, RetentionStep, PurgeStep

\* A row that an inherited step adds records what its invocation had read.
LEMMA OpenedRows ==
  ASSUME Base, Base', NEW p \in Invocations, Inherited(p)
  PROVE  \/ /\ DOMAIN hist' = DOMAIN hist
            /\ saw' = [r \in DOMAIN hist |-> saw[r]]
         \/ /\ Opens(p)
            /\ DOMAIN hist' = DOMAIN hist \cup {nextId}
            /\ nextId \notin DOMAIN hist
            /\ saw' = [r \in DOMAIN hist \cup {nextId} |->
                         IF r \in DOMAIN hist THEN saw[r]
                         ELSE [events |-> seen[p], mark |-> watermark[p], at |-> now + 1]]
            /\ hist'[nextId].batch = todo[p]
            /\ runs'[nextId].started = now + 1
            /\ now' = now + 1
<1>0. DOMAIN hist = 1 .. nextId - 1 /\ DOMAIN hist' = 1 .. nextId' - 1 /\ nextId \in Nat \ {0}
  BY DEF Base, TypeInv, TypeOK
<1>1. Inherits(p) /\ saw' = [r \in DOMAIN hist' |->
                 IF r \in DOMAIN hist THEN saw[r]
                 ELSE [events |-> seen[p], mark |-> watermark[p], at |-> runs'[r].started]]
  BY DEF Inherited, Inherits
<1>2. CASE UNCHANGED <<now, nextId>>
  BY <1>0, <1>1, <1>2
<1>3. CASE Opens(p)
  <2>1. /\ DOMAIN hist' = DOMAIN hist \cup {nextId} /\ hist'[nextId].batch = todo[p]
        /\ runs'[nextId].started = now + 1
        /\ now' = now + 1
    BY <1>3 DEF Opens, InsertRun
  <2>2. nextId \notin DOMAIN hist
    BY <1>0
  <2>3. saw' = [r \in DOMAIN hist \cup {nextId} |->
                         IF r \in DOMAIN hist THEN saw[r]
                         ELSE [events |-> seen[p], mark |-> watermark[p], at |-> now + 1]]
    BY <1>1, <2>1, <2>2
  <2> QED
    BY <1>3, <2>1, <2>2, <2>3
<1> QED
  BY <1>1, <1>2, <1>3, OpenedBy

\* Every run of the single instance is a candidate once it has succeeded.
LEMMA AtHome == Base => \A r \in DOMAIN runs : runs[r].inst = Home
<1> SUFFICES ASSUME Base, NEW r \in DOMAIN runs PROVE runs[r].inst = Home
  OBVIOUS
<1>1. r \in DOMAIN hist /\ runs[r].inst = Monitored[hist[r].place] /\ hist[r] \in HistRow
  BY DEF Base, RunInv, OwnerInv, TypeInv, TypeOK
<1>2. Places = {1}
  BY WatermarkAssumption DEF Places
<1> QED
  BY <1>1, <1>2 DEF HistRow, Home

\* MAX(started_at_utc) is NULL or the start of a success.
LEMMA MarkOf ==
  ASSUME Base, MarkInv
  PROVE  /\ LatestStart(Candidates) \in Nat \cup {Null}
         /\ LatestStart(Candidates) # Null => Started(LatestStart(Candidates))
<1>1. CASE Candidates = {}
  BY <1>1 DEF LatestStart
<1>2. CASE Candidates # {}
  <2>1. now \in Nat /\ \A r \in DOMAIN runs : runs[r].started \in Nat
    BY DEF Base, TypeInv, TypeOK, RunRow
  <2>2. Candidates \in SUBSET DOMAIN runs
    BY DEF Candidates
  <2>3. \A r \in Candidates : runs[r].started \in Nat /\ runs[r].started <= now
    BY <2>1, <2>2 DEF MarkInv, Base, RunInv, OwnerInv
  <2>4. PICK r \in Candidates : LatestStart(Candidates) = runs[r].started
    BY <1>2, <2>1, <2>2, <2>3, LatestOf
  <2>5. r \in succeeded /\ saw[r].at = LatestStart(Candidates)
    BY <2>4 DEF Candidates, MarkInv
  <2> QED
    BY <2>3, <2>4, <2>5 DEF Started
<1> QED
  BY <1>1, <1>2

-----------------------------------------------------------------------------
(* The invariant is kept *)

LEMMA WatermarkInitially == WatermarkInit => WatermarkInv
<1> SUFFICES ASSUME WatermarkInit PROVE WatermarkInv
  OBVIOUS
<1>1. Base /\ TypeOK
  BY BaseInit DEF WatermarkInit, Base, TypeInv
<1>2. WatermarkTypeOK
  BY <1>1 DEF WatermarkInit, Init, WatermarkTypeOK
<1>3. MarkInv
  BY DEF WatermarkInit, Init, MarkInv, Unread
<1> QED
  BY <1>1, <1>2, <1>3 DEF WatermarkInv

LEMMA TypesKept == WatermarkInv /\ Base' /\ KeepsHist /\ WatermarkStep => WatermarkTypeOK'
<1> SUFFICES ASSUME WatermarkInv, Base', KeepsHist, WatermarkStep PROVE WatermarkTypeOK'
  OBVIOUS
<1>0. /\ setup \in Setups /\ ts \in [Event -> Nat]
      /\ watermark \in [Invocations -> Nat \cup {Null, Unread}]
      /\ raised \in SUBSET Invocations /\ seen \in [Invocations -> SUBSET Event]
      /\ saw \in [DOMAIN hist -> SawRow] /\ succeeded \in SUBSET DOMAIN hist
      /\ now \in Nat /\ Base /\ MarkInv
      /\ TypeOK'
  BY DEF WatermarkInv, WatermarkTypeOK, TypeOK, Base, TypeInv
<1>1. CASE SourceStep
  BY <1>0, <1>1 DEF SourceStep, WatermarkTypeOK, vars, repoVars, markVars
<1>2. ASSUME NEW p \in Invocations, ReadWatermark(p) PROVE WatermarkTypeOK'
  <2>1. /\ watermark' = [watermark EXCEPT ![p] = LatestStart(Candidates)]
        /\ UNCHANGED <<vars, sourceVars, raised, seen, saw, succeeded>>
    BY <1>2 DEF ReadWatermark
  <2> QED
    BY <1>0, <2>1, MarkOf DEF WatermarkTypeOK, vars, repoVars, sourceVars
<1>3. ASSUME NEW p \in Invocations, NEW events \in SUBSET Event, NEW batch, Collect(p, events, batch)
      PROVE  WatermarkTypeOK'
  BY <1>0, <1>3 DEF Collect, Fetch, WatermarkTypeOK, repoVars, sourceVars
<1>4. ASSUME NEW p \in Invocations, TransformRaises(p) PROVE WatermarkTypeOK'
  BY <1>0, <1>4 DEF TransformRaises, FetchFails, WatermarkTypeOK, repoVars, sourceVars
<1>5. ASSUME NEW p \in Invocations, Inherited(p) PROVE WatermarkTypeOK'
  <2>1. /\ watermark' = [watermark EXCEPT ![p] = Unread]
        /\ seen' = [seen EXCEPT ![p] = {}]
        /\ UNCHANGED <<sourceVars, raised>>
        /\ succeeded' = succeeded \cup {r \in DOMAIN runs' : runs'[r].status = "success"}
    BY <1>5 DEF Inherited
  <2>2. DOMAIN runs' \subseteq DOMAIN hist' /\ DOMAIN hist \subseteq DOMAIN hist'
    BY DEF Base, RunInv, OwnerInv, KeepsHist
  <2>3. [events |-> seen[p], mark |-> watermark[p], at |-> now + 1] \in SawRow
    BY <1>0 DEF SawRow
  <2>4. saw' \in [DOMAIN hist' -> SawRow]
    BY <1>0, <1>5, <2>3, OpenedRows
  <2> QED
    BY <1>0, <2>1, <2>2, <2>4 DEF WatermarkTypeOK, sourceVars
<1>6. CASE UNCHANGED <<hist, wVars>>
  BY <1>0, <1>6 DEF WatermarkTypeOK, wVars, sourceVars, markVars
<1> QED
  BY <1>1, <1>2, <1>3, <1>4, <1>5, <1>6 DEF WatermarkStep, RetentionStep, PurgeStep, Tick, vars, repoVars

\* Steps that add no row and close none.
LEMMA QuietMarks ==
  ASSUME WatermarkInv, UNCHANGED <<hist, saw, succeeded>>, now' >= now, now' \in Nat,
         DOMAIN runs' \subseteq DOMAIN runs, \A r \in DOMAIN runs' : runs'[r] = runs[r],
         \A p \in Invocations :
            /\ \/ watermark'[p] = watermark[p]
               \/ watermark[p] = Unread /\ watermark'[p] = LatestStart(Candidates)
            /\ pc'[p] = "start" => pc[p] = "start" \/ watermark[p] # Unread
  PROVE  MarkInv'
<1>0. /\ MarkInv /\ Base /\ now \in Nat /\ \A r \in DOMAIN hist : saw[r].at \in Nat
  BY DEF WatermarkInv, WatermarkTypeOK, TypeOK, SawRow
<1>1. \A r \in DOMAIN runs' : /\ runs'[r].status = "success" => r \in succeeded'
                              /\ saw'[r].at = runs'[r].started
  BY <1>0 DEF MarkInv
<1>2. \A r \in DOMAIN hist' : /\ saw'[r].mark # Unread
                              /\ saw'[r].mark \in Nat => Started(saw[r].mark)
                              /\ saw'[r].mark < saw'[r].at
                              /\ saw'[r].at <= now'
  BY <1>0 DEF MarkInv
<1>3. \A r \in succeeded' : Covered(hist'[r].batch, hist'[r].landed)
  BY <1>0 DEF MarkInv
<1>4. ASSUME NEW p \in Invocations
      PROVE  /\ watermark'[p] \in Nat => \E s \in succeeded' : saw'[s].at = watermark'[p]
             /\ pc'[p] = "start" => watermark'[p] # Unread
  <2>1. watermark'[p] \in Nat => Started(watermark'[p])
    BY <1>0, MarkOf DEF MarkInv, Null
  <2>2. pc[p] = "start" => watermark[p] # Unread
    BY <1>0 DEF MarkInv
  <2>3. LatestStart(Candidates) # Unread
    BY <1>0, MarkOf DEF Null, Unread
  <2> QED
    BY <2>1, <2>2, <2>3 DEF Started
<1>5. \A r \in DOMAIN hist' : saw'[r].mark \in Nat => \E s \in succeeded' : saw'[s].at = saw'[r].mark
  BY <1>2 DEF Started
<1> QED
  BY <1>1, <1>2, <1>3, <1>4, <1>5 DEF MarkInv, Started

\* A new row takes the watermark of its invocation, which is older than the row.
LEMMA InheritedMarks ==
  ASSUME WatermarkInv, Base', KeepsHist, TableStep, NEW p \in Invocations, Inherited(p)
  PROVE  MarkInv'
<1>0. /\ watermark \in [Invocations -> Nat \cup {Null, Unread}]
      /\ saw \in [DOMAIN hist -> SawRow] /\ succeeded \in SUBSET DOMAIN hist
      /\ DOMAIN runs \subseteq DOMAIN hist /\ DOMAIN runs' \subseteq DOMAIN hist'
      /\ DOMAIN hist \subseteq DOMAIN hist'
      /\ pc \in [Invocations -> Pcs] /\ now \in Nat
      /\ \A r \in DOMAIN hist : saw[r].at \in Nat
      /\ Base /\ MarkInv /\ TypeOK
  BY DEF WatermarkInv, WatermarkTypeOK, TypeOK, Base, RunInv, OwnerInv, KeepsHist, SawRow
<1>1. /\ watermark' = [watermark EXCEPT ![p] = Unread]
      /\ succeeded' = succeeded \cup {r \in DOMAIN runs' : runs'[r].status = "success"}
      /\ Inherits(p)
  BY DEF Inherited, Inherits
<1>2. now' \in Nat /\ now' >= now
  BY <1>0, NowGrows DEF WatermarkStep
<1>3. \A r \in DOMAIN hist : saw'[r] = saw[r]
  BY <1>0, OpenedRows
<1>4. ASSUME NEW t, \E s \in succeeded : saw[s].at = t
      PROVE  \E s \in succeeded' : saw'[s].at = t
  BY <1>0, <1>1, <1>3, <1>4
<1>5. ASSUME NEW r \in DOMAIN runs'
      PROVE  saw'[r].at = runs'[r].started
  <2>1. CASE r \in DOMAIN hist
    <3>1. r \in DOMAIN runs
      <4>1. nextId \notin DOMAIN hist
        BY <1>0 DEF TypeOK
      <4> QED
        BY <2>1, <4>1 DEF TableStep, Opens, InsertRun, Commits, Closes, Finished
    <3>2. runs'[r].started = runs[r].started
      BY <1>0, <3>1, RowsKept DEF KeepsRows
    <3> QED
      BY <1>0, <1>3, <2>1, <3>1, <3>2 DEF MarkInv
  <2>2. CASE r \notin DOMAIN hist
    BY <1>0, <2>2, OpenedRows
  <2> QED
    BY <2>1, <2>2
<1>6. ASSUME NEW r \in DOMAIN hist'
      PROVE  /\ saw'[r].mark # Unread
             /\ saw'[r].mark \in Nat => \E s \in succeeded' : saw'[s].at = saw'[r].mark
             /\ saw'[r].mark < saw'[r].at
             /\ saw'[r].at <= now'
  <2>1. CASE r \in DOMAIN hist
    <3>1. /\ saw'[r] = saw[r] /\ saw[r].mark # Unread /\ saw[r].mark < saw[r].at
          /\ saw[r].mark \in Nat => \E s \in succeeded : saw[s].at = saw[r].mark
          /\ saw[r].at <= now
      BY <1>0, <1>3, <2>1 DEF MarkInv, Started
    <3>2. saw'[r].mark \in Nat => \E s \in succeeded' : saw'[s].at = saw'[r].mark
      BY <1>4, <3>1
    <3>3. saw'[r].at <= now'
      BY <1>0, <1>2, <2>1, <3>1
    <3> QED
      BY <3>1, <3>2, <3>3
  <2>2. CASE r \notin DOMAIN hist
    <3>1. /\ Opens(p) /\ now' = now + 1
          /\ saw'[r] = [events |-> seen[p], mark |-> watermark[p], at |-> now + 1]
      <4>1. DOMAIN hist' # DOMAIN hist
        BY <2>2
      <4>2. r \in DOMAIN hist \cup {nextId} /\ Opens(p) /\ now' = now + 1
            /\ saw' = [x \in DOMAIN hist \cup {nextId} |->
                         IF x \in DOMAIN hist THEN saw[x]
                         ELSE [events |-> seen[p], mark |-> watermark[p], at |-> now + 1]]
        BY <1>0, <4>1, OpenedRows
      <4> QED
        BY <2>2, <4>2
    <3>2. watermark[p] \in Nat => \E s \in succeeded : saw[s].at = watermark[p]
      BY <1>0 DEF MarkInv, Started
    <3>3. \A s \in succeeded : saw[s].at \in Nat /\ saw[s].at <= now
      BY <1>0 DEF MarkInv
    <3>4. watermark[p] < now + 1
      BY <1>0, <3>2, <3>3 DEF Null, Unread
    <3> QED
      BY <1>0, <1>4, <3>1, <3>2, <3>4 DEF MarkInv, Opens
  <2> QED
    BY <2>1, <2>2
<1>7. ASSUME NEW r \in succeeded' PROVE Covered(hist'[r].batch, hist'[r].landed)
  <2>1. CASE r \in succeeded
    <3>1. Covered(hist[r].batch, hist[r].landed) /\ r \in DOMAIN hist
      BY <1>0, <2>1 DEF MarkInv
    <3> QED
      BY <3>1 DEF KeepsHist, Covered
  <2>2. CASE r \in DOMAIN runs' /\ runs'[r].status = "success"
    BY <2>2 DEF Base, RunInv, LandInv
  <2> QED
    BY <1>1, <2>1, <2>2
<1>8. ASSUME NEW q \in Invocations
      PROVE  /\ watermark'[q] \in Nat => \E s \in succeeded' : saw'[s].at = watermark'[q]
             /\ pc'[q] = "start" => watermark'[q] # Unread
  <2>1. CASE q = p
    <3>1. pc'[p] # "start" /\ watermark'[p] = Unread
      BY <1>0, <1>1, StartersStay
    <3> QED
      BY <2>1, <3>1 DEF Unread
  <2>2. CASE q # p
    <3>1. watermark'[q] = watermark[q] /\ (pc'[q] = "start" => pc[q] = "start")
      BY <1>0, <1>1, <2>2, StartersStay
    <3> QED
      BY <1>0, <1>4, <3>1 DEF MarkInv, Started
  <2> QED
    BY <2>1, <2>2
<1> QED
  BY <1>1, <1>5, <1>6, <1>7, <1>8 DEF MarkInv, Started

LEMMA MarksKept == WatermarkInv /\ Base' /\ KeepsHist /\ WatermarkStep => MarkInv'
<1> SUFFICES ASSUME WatermarkInv, Base', KeepsHist, WatermarkStep PROVE MarkInv'
  OBVIOUS
<1>0. /\ watermark \in [Invocations -> Nat \cup {Null, Unread}]
      /\ pc \in [Invocations -> Pcs] /\ now' >= now /\ now' \in Nat /\ Base
  BY NowGrows DEF WatermarkInv, WatermarkTypeOK, TypeOK
<1>1. CASE SourceStep \/ RetentionStep \/ ((Tick \/ UNCHANGED vars) /\ UNCHANGED wVars)
  <2>1. UNCHANGED <<hist, saw, succeeded, pc, watermark>>
    BY <1>1 DEF SourceStep, RetentionStep, PurgeStep, Tick, vars, repoVars, procVars, wVars, markVars
  <2>2. DOMAIN runs' \subseteq DOMAIN runs /\ \A r \in DOMAIN runs' : runs'[r] = runs[r]
    BY <1>1 DEF SourceStep, RetentionStep, PurgeStep, Tick, vars, repoVars
  <2> QED
    BY <1>0, <2>1, <2>2, QuietMarks
<1>2. ASSUME NEW p \in Invocations, ReadWatermark(p) PROVE MarkInv'
  <2>1. /\ UNCHANGED <<runs, hist, saw, succeeded, pc>>
        /\ watermark[p] = Unread
        /\ watermark' = [watermark EXCEPT ![p] = LatestStart(Candidates)]
    BY <1>2 DEF ReadWatermark, vars, repoVars, procVars
  <2> QED
    BY <1>0, <2>1, QuietMarks
<1>3. ASSUME NEW p \in Invocations, TransformRaises(p) \/ \E events, batch : Collect(p, events, batch)
      PROVE  MarkInv'
  <2>1. /\ UNCHANGED <<runs, hist, saw, succeeded, watermark>> /\ watermark[p] # Unread
        /\ \A q \in Invocations : q # p => pc'[q] = pc[q]
    BY <1>0, <1>3 DEF Collect, TransformRaises, Fetch, FetchFails, Return, Raise, Goto, repoVars
  <2> QED
    BY <1>0, <2>1, QuietMarks
<1>4. ASSUME NEW p \in Invocations, Inherited(p) PROVE MarkInv'
  <2>1. TableStep
    BY <1>0, <1>4, AnyEffect DEF Inherited, AnyStep, Next
  <2> QED
    BY <1>4, <2>1, InheritedMarks
<1> QED
  BY <1>1, <1>2, <1>3, <1>4 DEF WatermarkStep

LEMMA WatermarkKept == WatermarkInv /\ WatermarkStep => WatermarkInv' /\ KeepsHist
  BY BaseKept, TypesKept, MarksKept DEF WatermarkInv

-----------------------------------------------------------------------------
(* Reads *)

\* Whoever is about to call start_run has just fetched, or is where it was.
LEMMA Readers ==
  ASSUME WatermarkInv, WatermarkStep, NEW p \in Invocations, pc'[p] = "start"
  PROVE  \/ /\ pc[p] = "start" /\ todo'[p] = todo[p] /\ seen'[p] = seen[p]
            /\ watermark'[p] = watermark[p]
         \/ /\ Collect(p, seen'[p], todo'[p]) /\ watermark'[p] = watermark[p]
            /\ watermark[p] \in Nat \cup {Null}
<1> DEFINE Stays == /\ pc[p] = "start" /\ todo'[p] = todo[p] /\ seen'[p] = seen[p]
                    /\ watermark'[p] = watermark[p]
<1>0. /\ watermark \in [Invocations -> Nat \cup {Null, Unread}]
      /\ seen \in [Invocations -> SUBSET Event] /\ todo \in [Invocations -> SUBSET Row]
      /\ pc \in [Invocations -> Pcs] /\ TypeOK
  BY DEF WatermarkInv, WatermarkTypeOK, TypeOK
<1>1. CASE SourceStep \/ RetentionStep \/ ((Tick \/ UNCHANGED vars) /\ UNCHANGED wVars)
  BY <1>1 DEF SourceStep, RetentionStep, PurgeStep, Tick, vars, repoVars, procVars, wVars, markVars
<1>2. ASSUME NEW q \in Invocations, ReadWatermark(q) PROVE Stays
  BY <1>0, <1>2 DEF ReadWatermark, vars, procVars
<1>3. ASSUME NEW q \in Invocations, NEW events \in SUBSET Event, NEW batch \in SUBSET Row,
             Collect(q, events, batch)
      PROVE  \/ Stays
             \/ /\ Collect(p, seen'[p], todo'[p]) /\ watermark'[p] = watermark[p]
                /\ watermark[p] \in Nat \cup {Null}
  <2>1. CASE q # p
    BY <1>0, <1>3, <2>1 DEF Collect, Fetch, Return, Goto
  <2>2. CASE q = p
    <3>1. seen'[p] = events /\ todo'[p] = batch /\ watermark'[p] = watermark[p] /\ watermark[p] # Unread
      BY <1>0, <1>3, <2>2 DEF Collect, Fetch, Return, Goto
    <3> QED
      BY <1>0, <1>3, <2>2, <3>1
  <2> QED
    BY <2>1, <2>2
<1>4. ASSUME NEW q \in Invocations, TransformRaises(q) PROVE Stays
  BY <1>0, <1>4 DEF TransformRaises, FetchFails, Raise, Goto
<1>5. ASSUME NEW q \in Invocations, Inherited(q) PROVE Stays
  <2>1. /\ watermark' = [watermark EXCEPT ![q] = Unread] /\ seen' = [seen EXCEPT ![q] = {}]
        /\ Inherits(q)
    BY <1>5 DEF Inherited, Inherits
  <2> QED
    BY <1>0, <2>1, StartersStay
<1> QED
  BY <1>1, <1>2, <1>3, <1>4, <1>5 DEF WatermarkStep

\* A row keeps its batch and what was read for it; a new one takes them from its invocation.
LEMMA Recorded ==
  ASSUME WatermarkInv, WatermarkStep, NEW r \in DOMAIN hist'
  PROVE  \/ r \in DOMAIN hist /\ saw'[r] = saw[r] /\ hist'[r].batch = hist[r].batch
         \/ \E p \in Invocations : /\ pc[p] = "start" /\ hist'[r].batch = todo[p]
                                   /\ saw'[r].events = seen[p] /\ saw'[r].mark = watermark[p]
<1>0. Base /\ Base' /\ KeepsHist
  BY BaseKept DEF WatermarkInv
<1>1. CASE UNCHANGED <<hist, saw>>
  BY <1>1
<1>2. ASSUME NEW p \in Invocations, Inherited(p)
      PROVE  \/ r \in DOMAIN hist /\ saw'[r] = saw[r] /\ hist'[r].batch = hist[r].batch
             \/ \E q \in Invocations : /\ pc[q] = "start" /\ hist'[r].batch = todo[q]
                                       /\ saw'[r].events = seen[q] /\ saw'[r].mark = watermark[q]
  <2>1. CASE r \in DOMAIN hist
    BY <1>0, <1>2, <2>1, OpenedRows DEF KeepsHist
  <2>2. CASE r \notin DOMAIN hist
    BY <1>0, <1>2, <2>2, OpenedRows DEF Opens
  <2> QED
    BY <2>1, <2>2
<1> QED
  BY <1>1, <1>2 DEF WatermarkStep, SourceStep, RetentionStep, PurgeStep, ReadWatermark, Collect, Fetch,
     TransformRaises, FetchFails, Tick, vars, repoVars, wVars, markVars

-----------------------------------------------------------------------------
(* The first success past an event *)

Later(t, e, mark) == mark # Null => t[e] > mark

\* Of the successful runs that stamped themselves at or past the event, take the first: it
\* missed the event, or kept it.  Its own watermark is no excuse, since an even earlier
\* success would have set it.
LEMMA FirstPast ==
  ASSUME WatermarkInv, NEW e \in Event, Passed(e)
  PROVE  Missed(e) \/ \E r \in succeeded : e \in saw[r].events /\ Later(ts, e, saw[r].mark)
<1>0. /\ Base /\ MarkInv /\ succeeded \subseteq DOMAIN hist /\ ts[e] \in Nat
      /\ \A r \in DOMAIN hist : saw[r].at \in Nat /\ saw[r].mark \in Nat \cup {Null, Unread}
  BY DEF WatermarkInv, WatermarkTypeOK, SawRow
<1> DEFINE Past == {r \in succeeded : ts[e] <= saw[r].at}
           Starts == {saw[r].at : r \in Past}
<1>1. PICK q \in succeeded : saw[q].at = LatestStart(Candidates)
  BY <1>0, MarkOf DEF Passed, Null, Started
<1>2. Starts \in SUBSET Nat /\ Starts # {}
  BY <1>0, <1>1 DEF Passed
<1>3. PICK m \in Starts : \A n \in Starts : m <= n
  BY <1>2, LeastOf
<1>4. PICK r \in Past : saw[r].at = m
  BY <1>3
<1>5. \A s \in Past : saw[r].at <= saw[s].at
  BY <1>3, <1>4
<1>6. CASE e \notin saw[r].events
  BY <1>4, <1>6 DEF Missed
<1>7. CASE e \in saw[r].events /\ ~Later(ts, e, saw[r].mark)
  <2>1. saw[r].mark \in Nat /\ ts[e] <= saw[r].mark /\ saw[r].mark < saw[r].at
    BY <1>0, <1>4, <1>7 DEF Later, MarkInv
  <2>2. PICK s \in succeeded : saw[s].at = saw[r].mark
    BY <1>0, <1>4, <2>1 DEF MarkInv, Started
  <2> QED
    BY <1>0, <1>4, <1>5, <2>1, <2>2
<1> QED
  BY <1>4, <1>6, <1>7

-----------------------------------------------------------------------------
(* Deadlocks: the invariant *)

\* Times make keys; deadlocks, which are finitely many, make values.
TimesAreKeys == IsFiniteSet(Event) /\ Nat \subseteq Keys /\ Event \subseteq Vals

\* What has landed under a time that is too recent for the purge stays there.
KeptInv == \A k \in Keys : k \in Nat /\ k >= now - KeepFacts => DurableAt(k)

\* Who has read some deadlocks has a row at the time of each that is after the watermark.
Reported(place, t, events, mark, batch) ==
    \A e \in events : /\ place[e] # "none"
                      /\ Later(t, e, mark) => \E x \in batch : x.key = t[e]

ReportInBatch ==
    /\ \A p \in Invocations : pc[p] = "start" => Reported(stage, ts, seen[p], watermark[p], todo[p])
    /\ \A r \in DOMAIN hist : Reported(stage, ts, saw[r].events, saw[r].mark, hist[r].batch)

DeadlocksInv == WatermarkInv /\ DeadlocksTypeOK /\ KeptInv /\ ReportInBatch

LEMMA DeadlocksInitially == DeadlocksInit => DeadlocksInv
<1> SUFFICES ASSUME DeadlocksInit PROVE DeadlocksInv
  OBVIOUS
<1>1. WatermarkInv
  BY WatermarkInitially DEF DeadlocksInit
<1>2. DeadlocksTypeOK
  BY <1>1 DEF DeadlocksInit, WatermarkInit, WatermarkInv, DeadlocksTypeOK
<1>3. KeptInv /\ ReportInBatch
  BY DEF DeadlocksInit, WatermarkInit, Init, KeptInv, DurableAt, ReportInBatch
<1> QED
  BY <1>1, <1>2, <1>3 DEF DeadlocksInv

\* transform returns finitely many rows, of the right type.
LEMMA ReportsType ==
  ASSUME TimesAreKeys, WatermarkTypeOK, NEW mark
  PROVE  Reports(mark) \in SUBSET Row /\ IsFiniteSet(Reports(mark))
<1> DEFINE E == {f \in In("ring") : After(f, mark)}
           B == {[key |-> ts[e], val |-> e] : e \in E}
           rowOf == [e \in E |-> [key |-> ts[e], val |-> e]]
<1>1. Reports(mark) = B
  BY DEF Reports
<1>2. E \in SUBSET Event /\ ts \in [Event -> Nat]
  BY DEF In, WatermarkTypeOK
<1>3. B \in SUBSET Row
  BY <1>2 DEF TimesAreKeys, Row
<1>4. IsFiniteSet(E)
  BY <1>2, FS_Subset DEF TimesAreKeys
<1>5. rowOf \in [E -> B] /\ \A x \in B : \E e \in E : rowOf[e] = x
  OBVIOUS
<1> HIDE DEF rowOf, B, E
<1>6. rowOf \in Surjection(E, B)
  BY <1>5 DEF Surjection
<1> QED
  BY <1>1, <1>3, <1>4, <1>6, FS_Surjection

\* An event that has happened keeps its time.
Moved ==
    /\ stage' \in [Event -> {"none", "ring", "gone"}]
    /\ \A e \in Event : stage[e] # "none" => stage'[e] # "none" /\ ts'[e] = ts[e]

\* Neither purge touches what is recent.
SparesRecent ==
    /\ UNCHANGED <<now, hist>>
    /\ \A k \in Keys : k \in Nat /\ k >= now - KeepFacts => fact'[Home][k] = fact[Home][k]

LEMMA RunsPurged == TypeOK /\ PurgeRuns => RetentionStep /\ SparesRecent
  BY DEF PurgeRuns, RetentionStep, PurgeStep, SparesRecent, TypeOK

LEMMA FactsPurged == TypeOK /\ PurgeFacts => RetentionStep /\ SparesRecent
<1> SUFFICES ASSUME TypeOK, PurgeFacts PROVE RetentionStep /\ SparesRecent
  OBVIOUS
<1>1. PICK old \in SUBSET {k \in Keys : Stored(k) /\ k < now - KeepFacts} :
         fact' = [fact EXCEPT ![Home] = [k \in Keys |-> IF k \in old THEN NoVal ELSE @[k]]]
  BY DEF PurgeFacts
<1>2. Home \in Inst /\ fact \in [Inst -> [Keys -> Vals \cup {NoVal}]] /\ now \in Nat
      /\ runs \in [DOMAIN runs -> RunRow] /\ KeepFacts \in Nat
  BY PlacesType, WatermarkAssumption, DeadlocksAssumption DEF Home, Places, TypeOK
<1>3. /\ fact' \in [Inst -> [Keys -> Vals \cup {NoVal}]]
      /\ \A k \in Keys \ old : fact'[Home][k] = fact[Home][k]
  BY <1>1, <1>2
<1>4. \A k \in Keys : k \in Nat /\ k >= now - KeepFacts => k \notin old
  BY <1>1, <1>2
<1> QED
  BY <1>2, <1>3, <1>4 DEF PurgeFacts, RetentionStep, PurgeStep, SparesRecent

LEMMA DeadlocksSteps ==
  ASSUME TimesAreKeys, DeadlocksTypeOK, [DeadlocksNext]_deadlockVars
  PROVE  WatermarkStep /\ Moved /\ bad' = bad /\ (AnyStep \/ SparesRecent)
<1>0. /\ WatermarkTypeOK /\ TypeOK /\ stage \in [Event -> {"none", "ring", "gone"}]
      /\ ts \in [Event -> Nat]
  BY DEF DeadlocksTypeOK, WatermarkTypeOK
<1>1. ASSUME UNCHANGED sourceVars PROVE Moved
  BY <1>0, <1>1 DEF Moved, sourceVars
<1>2. ASSUME NEW e \in Event, Occur(e) \/ Evict(e)
      PROVE  WatermarkStep /\ Moved /\ (AnyStep \/ SparesRecent)
  <2>1. SourceStep
    BY <1>0, <1>2, StampStep DEF Occur, Evict
  <2>2. Moved
    BY <1>0, <1>2 DEF Occur, Evict, Happen, Move, Oldest, In, Moved
  <2> QED
    BY <2>1, <2>2 DEF SourceStep, WatermarkStep, AnyStep
<1>3. ASSUME NEW p \in Invocations, ReadRing(p)
      PROVE  WatermarkStep /\ Moved /\ (AnyStep \/ SparesRecent)
  <2>1. In("ring") \in SUBSET Event /\ Collect(p, In("ring"), Reports(watermark[p]))
        /\ Reports(watermark[p]) \in SUBSET Row /\ IsFiniteSet(Reports(watermark[p]))
    BY <1>0, <1>3, ReportsType DEF ReadRing, In
  <2>2. UNCHANGED sourceVars /\ AnyStep
    BY <2>1 DEF Collect, AnyStep
  <2> QED
    BY <1>1, <2>1, <2>2 DEF WatermarkStep
<1>4. ASSUME NEW p \in Invocations, CannotRead(p) \/ ReadWatermark(p) \/ Inherited(p)
      PROVE  WatermarkStep /\ Moved /\ (AnyStep \/ SparesRecent)
  <2>1. UNCHANGED sourceVars /\ WatermarkStep
    BY <1>4 DEF CannotRead, TransformRaises, ReadWatermark, Inherited, WatermarkStep
  <2>2. AnyStep
    BY <1>4 DEF CannotRead, TransformRaises, ReadWatermark, Inherited, AnyStep, Next, Failure
  <2> QED
    BY <1>1, <2>1, <2>2
<1>5. ASSUME Tick \/ UNCHANGED vars, UNCHANGED wVars
      PROVE  WatermarkStep /\ Moved /\ (AnyStep \/ SparesRecent)
  BY <1>1, <1>5 DEF WatermarkStep, AnyStep, Next, wVars
<1>6. ASSUME PurgeRuns \/ PurgeFacts
      PROVE  WatermarkStep /\ Moved /\ (AnyStep \/ SparesRecent)
  BY <1>0, <1>1, <1>6, RunsPurged, FactsPurged DEF WatermarkStep, RetentionStep, wVars
<1> QED
  BY <1>2, <1>3, <1>4, <1>5, <1>6 DEF DeadlocksNext, DeadlocksStep, Common, AllEnded, deadlockVars,
     allVars

\* Time only lets the purge reach more.
LEMMA KeptKept ==
  ASSUME Base, KeptInv, WatermarkStep, AnyStep \/ SparesRecent
  PROVE  KeptInv'
<1>0. now \in Nat /\ now' \in Nat /\ now' >= now /\ KeepFacts \in Nat
  BY NowGrows, DeadlocksAssumption DEF Base, TypeInv, TypeOK
<1> SUFFICES ASSUME NEW k \in Keys, k \in Nat, k >= now' - KeepFacts PROVE DurableAt(k)'
  BY DEF KeptInv
<1>1. DurableAt(k)
  <2>1. k >= now - KeepFacts
    BY <1>0, StillRecent
  <2> QED
    BY <2>1 DEF KeptInv
<1>2. CASE AnyStep
  BY <1>1, <1>2, DurableStep
<1>3. CASE SparesRecent
  <2>1. UNCHANGED hist /\ fact'[Home][k] = fact[Home][k]
    BY <1>3 DEF SparesRecent
  <2> QED
    BY <1>1, <2>1, OneInstance, DurableSpared, WatermarkAssumption DEF Home
<1> QED
  BY <1>2, <1>3

\* What is fetched is what the ring holds.
LEMMA RingRead ==
  ASSUME WatermarkInv, [DeadlocksNext]_deadlockVars, NEW p \in Invocations,
         Collect(p, seen'[p], todo'[p]), pc'[p] = "start"
  PROVE  seen'[p] = In("ring") /\ todo'[p] = Reports(watermark[p]) /\ stage' = stage /\ ts' = ts
<1>0. /\ TypeOK /\ pc \in [Invocations -> Pcs] /\ todo \in [Invocations -> SUBSET Row]
      /\ seen \in [Invocations -> SUBSET Event]
      /\ pc[p] = "fetch"
  BY DEF WatermarkInv, WatermarkTypeOK, TypeOK, Collect, Fetch
<1>1. ASSUME NEW q \in Invocations, ReadRing(q)
      PROVE  seen'[p] = In("ring") /\ todo'[p] = Reports(watermark[p]) /\ stage' = stage /\ ts' = ts
  <2>1. q = p
    BY <1>0, <1>1 DEF ReadRing, Collect, Fetch, Return, Goto
  <2> QED
    BY <1>0, <1>1, <2>1 DEF ReadRing, Collect, Fetch, Return, Goto, sourceVars
<1>2. ASSUME NEW q \in Invocations, CannotRead(q) \/ ReadWatermark(q) PROVE FALSE
  BY <1>0, <1>2 DEF CannotRead, TransformRaises, FetchFails, ReadWatermark, Raise, Goto, vars, procVars
<1>3. ASSUME NEW q \in Invocations, Inherited(q) PROVE FALSE
  <2>1. Inherits(q)
    BY <1>3 DEF Inherited, Inherits
  <2> QED
    BY <1>0, <2>1, StartersStay
<1>4. ASSUME UNCHANGED pc PROVE FALSE
  BY <1>0, <1>4
<1> QED
  BY <1>1, <1>2, <1>3, <1>4 DEF DeadlocksNext, DeadlocksStep, Common, Occur, Evict, Happen, Move,
     PurgeRuns, PurgeFacts, Tick, AllEnded, deadlockVars, allVars, vars, procVars

LEMMA ReportsKept ==
  ASSUME TimesAreKeys, WatermarkInv, DeadlocksTypeOK, ReportInBatch,
         WatermarkStep, Moved, [DeadlocksNext]_deadlockVars
  PROVE  ReportInBatch'
<1>0. /\ seen \in [Invocations -> SUBSET Event] /\ saw \in [DOMAIN hist -> SawRow]
      /\ \A r \in DOMAIN hist : saw[r].events \in SUBSET Event
  BY DEF WatermarkInv, WatermarkTypeOK, SawRow
<1>1. ASSUME NEW E \in SUBSET Event, NEW mark, NEW batch, Reported(stage, ts, E, mark, batch)
      PROVE  Reported(stage', ts', E, mark, batch)
  BY <1>1 DEF Reported, Moved, Later
<1>2. ASSUME NEW p \in Invocations, pc[p] = "start"
      PROVE  Reported(stage', ts', seen[p], watermark[p], todo[p])
  BY <1>0, <1>1, <1>2 DEF ReportInBatch
<1>3. ASSUME NEW p \in Invocations, pc'[p] = "start"
      PROVE  Reported(stage', ts', seen'[p], watermark'[p], todo'[p])
  <2>1. CASE /\ pc[p] = "start" /\ todo'[p] = todo[p] /\ seen'[p] = seen[p]
             /\ watermark'[p] = watermark[p]
    BY <1>2, <2>1
  <2>2. CASE Collect(p, seen'[p], todo'[p]) /\ watermark'[p] = watermark[p]
    <3>1. seen'[p] = In("ring") /\ todo'[p] = Reports(watermark[p]) /\ stage' = stage /\ ts' = ts
      BY <1>3, <2>2, RingRead
    <3>2. ASSUME NEW e \in In("ring"), Later(ts, e, watermark[p])
          PROVE  \E x \in Reports(watermark[p]) : x.key = ts[e]
      <4>1. [key |-> ts[e], val |-> e] \in Reports(watermark[p])
        BY <3>2 DEF Reports, After, Later
      <4> QED
        BY <4>1
    <3>3. Reported(stage, ts, In("ring"), watermark[p], Reports(watermark[p]))
      BY <3>2 DEF Reported, In
    <3> QED
      BY <2>2, <3>1, <3>3
  <2> QED
    BY <1>3, <2>1, <2>2, Readers
<1>4. ASSUME NEW r \in DOMAIN hist'
      PROVE  Reported(stage', ts', saw'[r].events, saw'[r].mark, hist'[r].batch)
  <2>1. CASE r \in DOMAIN hist /\ saw'[r] = saw[r] /\ hist'[r].batch = hist[r].batch
    BY <1>0, <1>1, <2>1 DEF ReportInBatch
  <2>2. ASSUME NEW p \in Invocations, pc[p] = "start", hist'[r].batch = todo[p],
               saw'[r].events = seen[p], saw'[r].mark = watermark[p]
        PROVE  Reported(stage', ts', saw'[r].events, saw'[r].mark, hist'[r].batch)
    BY <1>2, <2>2
  <2> QED
    BY <2>1, <2>2, Recorded
<1> QED
  BY <1>3, <1>4 DEF ReportInBatch

LEMMA DeadlocksKept ==
  TimesAreKeys /\ DeadlocksInv /\ [DeadlocksNext]_deadlockVars => DeadlocksInv'
<1> SUFFICES ASSUME TimesAreKeys, DeadlocksInv, [DeadlocksNext]_deadlockVars PROVE DeadlocksInv'
  OBVIOUS
<1>1. /\ WatermarkInv /\ DeadlocksTypeOK /\ KeptInv /\ ReportInBatch
      /\ WatermarkStep /\ Moved /\ bad' = bad /\ (AnyStep \/ SparesRecent)
  BY DeadlocksSteps DEF DeadlocksInv
<1>2. WatermarkInv'
  BY <1>1, WatermarkKept
<1>3. DeadlocksTypeOK'
  BY <1>1, <1>2 DEF WatermarkInv, DeadlocksTypeOK, Moved
<1>4. KeptInv'
  BY <1>1, KeptKept DEF WatermarkInv
<1>5. ReportInBatch'
  BY <1>1, ReportsKept
<1> QED
  BY <1>2, <1>3, <1>4, <1>5 DEF DeadlocksInv

LEMMA DeadlocksAlways == ASSUME TimesAreKeys PROVE DeadlocksSpec => []DeadlocksInv
<1>1. DeadlocksInv /\ [DeadlocksNext]_deadlockVars => DeadlocksInv'
  BY DeadlocksKept
<1> QED
  BY <1>1, DeadlocksInitially, PTL DEF DeadlocksSpec

-----------------------------------------------------------------------------
(* Deadlocks: the theorems *)

\* The tables and the local state of deadlocks.py and base.py keep their types.
THEOREM DeadlocksTypeCorrect == ASSUME TimesAreKeys PROVE DeadlocksSpec => []DeadlocksTypeOK
<1>1. DeadlocksInv => DeadlocksTypeOK
  BY DEF DeadlocksInv
<1> QED
  BY <1>1, DeadlocksAlways, PTL

\* A "success" committed a row of the time of each deadlock of its batch; a "failed" did not
\* commit its whole batch (a twin's row may stand for the deadlock that is missing).
THEOREM DeadlocksTruthful == ASSUME TimesAreKeys PROVE DeadlocksSpec => []TruthfulUpToTwins
<1>1. DeadlocksInv => TruthfulUpToTwins
  <2> SUFFICES ASSUME DeadlocksInv PROVE TruthfulUpToTwins
    OBVIOUS
  <2>1. LandInv
    BY DEF DeadlocksInv, WatermarkInv, Base, RunInv
  <2> QED
    BY <2>1 DEF LandInv, Covered, TruthfulUpToTwins
<1> QED
  BY <1>1, DeadlocksAlways, PTL

\* Retention may delete a closed row of collection_run; nothing rewrites one.
THEOREM DeadlocksClosedFinal == ASSUME TimesAreKeys PROVE DeadlocksSpec => ClosedRowsAreFinal
<1>1. DeadlocksInv /\ [DeadlocksNext]_deadlockVars => [ClosedRowsKept]_vars
  <2> SUFFICES ASSUME DeadlocksInv, [DeadlocksNext]_deadlockVars PROVE ClosedRowsKept
    OBVIOUS
  <2>1. Base /\ (AnyStep \/ PurgeStep)
    BY DeadlocksSteps, StepOfBase DEF DeadlocksInv, WatermarkInv
  <2> QED
    BY <2>1, ClosedKept, PurgeCloses
<1> QED
  BY <1>1, DeadlocksAlways, PTL DEF DeadlocksSpec, ClosedRowsAreFinal

\* What a successful run left of a row's key is what the table still holds, if it is recent.
LEMMA CoveredStored ==
  ASSUME TimesAreKeys, DeadlocksInv, NEW r \in succeeded, NEW x \in hist[r].batch,
         x.key \in Nat, x.key >= now - KeepFacts
  PROVE  Stored(x.key)
<1>0. /\ r \in DOMAIN hist /\ Monitored[hist[r].place] = Home
      /\ \A s \in DOMAIN hist : hist[s].landed \in SUBSET Row
  BY OneInstance, WatermarkAssumption DEF DeadlocksInv, WatermarkInv, WatermarkTypeOK, Base, TypeInv,
     TypeOK, HistRow, Home
<1>1. PICK y \in hist[r].landed : y.key = x.key
  BY DEF DeadlocksInv, WatermarkInv, MarkInv, Covered
<1>2. DurableAt(x.key)
  <2>1. x.key \in Keys
    BY DEF TimesAreKeys
  <2> QED
    BY <2>1 DEF DeadlocksInv, KeptInv
<1> DEFINE v == fact[Home][x.key]
<1>3. v = y.val \/ \E s \in DOMAIN hist : [key |-> x.key, val |-> v] \in hist[s].landed
  BY <1>0, <1>1, <1>2 DEF DurableAt
<1>4. v \in Vals
  BY <1>0, <1>1, <1>3 DEF Row
<1> QED
  BY <1>4, NoValAssumption DEF Stored

\* A deadlock that no later run will read has a row of its time, unless a success that
\* stamped itself past it had not seen it, or retention has deleted the row.
THEOREM DeadlockLossExplained ==
  ASSUME TimesAreKeys PROVE DeadlocksSpec => []DeadlockLossOnlyInGap
<1>1. DeadlocksInv => DeadlockLossOnlyInGap
  <2> SUFFICES ASSUME DeadlocksInv PROVE DeadlockLossOnlyInGap
    OBVIOUS
  <2>0. ts \in [Event -> Nat] /\ now \in Nat /\ KeepFacts \in Nat
    BY DeadlocksAssumption DEF DeadlocksInv, DeadlocksTypeOK, WatermarkTypeOK, TypeOK
  <2> SUFFICES ASSUME NEW e \in Event, Passed(e), ~Missed(e), ts[e] >= now - KeepFacts
               PROVE  Stored(ts[e])
    BY <2>0 DEF DeadlockLossOnlyInGap
  <2>1. PICK r \in succeeded : e \in saw[r].events /\ Later(ts, e, saw[r].mark)
    BY FirstPast DEF DeadlocksInv
  <2>2. r \in DOMAIN hist /\ ts[e] \in Nat
    BY DEF DeadlocksInv, DeadlocksTypeOK, WatermarkTypeOK
  <2>3. PICK x \in hist[r].batch : x.key = ts[e]
    BY <2>1, <2>2 DEF DeadlocksInv, ReportInBatch, Reported
  <2> QED
    BY <2>2, <2>3, CoveredStored
<1> QED
  BY <1>1, DeadlocksAlways, PTL
=============================================================================
