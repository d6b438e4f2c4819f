---------------------------- MODULE SamplesProofs ----------------------------
(* Proofs about Samples, for any requests, sessions, names and collation, any number of *)
(* overlapping runs and any retention.                                                  *)
EXTENDS Samples, CollectionRunProofs

\* Times and ids of any request make keys, and requests, which are finitely many, make values.
Room ==
    /\ IsFiniteSet(Request)
    /\ \A t \in Nat : /\ [at |-> t, id |-> Overall] \in Keys
                      /\ \A q \in Request : /\ [at |-> t, id |-> SessionOf[q]] \in Keys
                                            /\ [at |-> t, id |-> Collated[NameOf[q]]] \in Keys
    /\ SUBSET Request \subseteq Vals

-----------------------------------------------------------------------------
(* The invariant *)

\* What has landed for a moment that is too recent for the purge stays there.
KeptInv == \A k \in Keys : k.at \in Nat /\ k.at >= now - Keep => DurableAt(k)

\* A batch has a row for each request of its sample, under the time of the sample; two rows
\* of one key are of requests that share it.
Whole(sample, batch) ==
    /\ \A q \in sample.requests : \E x \in batch : x.key.at = sample.at /\ q \in x.val
    /\ task = "concurrency" => \E x \in batch : x.key = [at |-> sample.at, id |-> Overall]
    /\ \A x, y \in batch : x.key = y.key =>
         \A q \in x.val : \E z \in y.val : z \in sample.requests /\ (z = q \/ ShareKey(q, z))

WholeInv ==
    /\ \A p \in Invocations : pc[p] = "start" => Whole(read[p], todo[p])
    /\ \A r \in DOMAIN hist : Whole(taken[r], hist[r].batch)

SamplesInv == Base /\ SamplesTypeOK /\ KeptInv /\ WholeInv

LEMMA SamplesInitially == SamplesInit => SamplesInv
<1> SUFFICES ASSUME SamplesInit PROVE SamplesInv
  OBVIOUS
<1>1. Base /\ TypeOK
  BY BaseInit DEF SamplesInit, Base, TypeInv
<1>2. SamplesTypeOK
  BY <1>1 DEF SamplesInit, Init, SamplesTypeOK, Sample, Nothing
<1>3. KeptInv /\ WholeInv
  BY DEF SamplesInit, Init, KeptInv, DurableAt, WholeInv
<1> QED
  BY <1>1, <1>2, <1>3 DEF SamplesInv

-----------------------------------------------------------------------------
(* The batch *)

\* A set with an element for each of a finite set is finite.
LEMMA FiniteImage ==
  ASSUME NEW S, IsFiniteSet(S), NEW T, NEW f \in [S -> T], \A y \in T : \E x \in S : f[x] = y
  PROVE  IsFiniteSet(T)
<1>1. f \in Surjection(S, T)
  BY DEF Surjection
<1> QED
  BY <1>1, FS_Surjection

\* transform returns finitely many rows, of the right type.
LEMMA BatchType ==
  ASSUME Room, SamplesTypeOK, NEW requests \in SUBSET Request
  PROVE  Batch(requests) \in SUBSET Row /\ IsFiniteSet(Batch(requests))
<1>0. now \in Nat /\ IsFiniteSet(requests) /\ task \in {"sessions", "blocking", "concurrency"}
  BY FS_Subset, SamplesAssumption DEF Room, SamplesTypeOK, TypeOK
<1>1. CASE task = "sessions"
  <2> DEFINE group(n) == {q \in requests : NameOf[q] = n}
             rowOf == [q \in requests |-> RowFor(Collated[NameOf[q]], group(NameOf[q]))]
             B == SessionRows(requests)
  <2>1. B = {rowOf[q] : q \in requests}
    BY DEF SessionRows
  <2>2. \A q \in requests : rowOf[q] \in Row
    BY <1>0 DEF Room, RowFor, Row
  <2> HIDE DEF rowOf
  <2>3. rowOf \in [requests -> B] /\ \A y \in B : \E q \in requests : rowOf[q] = y
    BY <2>1 DEF rowOf
  <2>4. IsFiniteSet(B)
    BY <1>0, <2>3, FiniteImage
  <2> QED
    BY <1>1, <2>1, <2>2, <2>4 DEF Batch
<1>2. CASE task = "blocking"
  <2> DEFINE rowOf == [q \in requests |-> RowFor(SessionOf[q], {q})]
             B == BlockingRows(requests)
  <2>1. B = {rowOf[q] : q \in requests}
    BY DEF BlockingRows
  <2>2. \A q \in requests : rowOf[q] \in Row
    BY <1>0 DEF Room, RowFor, Row
  <2> HIDE DEF rowOf
  <2>3. rowOf \in [requests -> B] /\ \A y \in B : \E q \in requests : rowOf[q] = y
    BY <2>1 DEF rowOf
  <2>4. IsFiniteSet(B)
    BY <1>0, <2>3, FiniteImage
  <2> QED
    BY <1>2, <2>1, <2>2, <2>4 DEF Batch
<1>3. CASE task = "concurrency"
  <2>1. RowFor(Overall, requests) \in Row
    BY <1>0 DEF Room, RowFor, Row
  <2> QED
    BY <1>3, <2>1, FS_Singleton DEF Batch, ConcurrencyRows
<1> QED
  BY <1>0, <1>1, <1>2, <1>3

\* The batch is whole.
LEMMA BatchIsWhole ==
  ASSUME SamplesTypeOK, NEW requests \in SUBSET Request
  PROVE  Whole([requests |-> requests, at |-> now], Batch(requests))
<1>0. task \in {"sessions", "blocking", "concurrency"}
  BY SamplesAssumption DEF SamplesTypeOK
<1>1. CASE task = "sessions"
  <2> DEFINE rowOf(n) == RowFor(Collated[n], {q \in requests : NameOf[q] = n})
  <2>1. Batch(requests) = {rowOf(n) : n \in {NameOf[q] : q \in requests}}
    BY <1>1 DEF Batch, SessionRows
  <2>2. ASSUME NEW q \in requests
        PROVE  \E x \in Batch(requests) : x.key.at = now /\ q \in x.val
    <3>1. rowOf(NameOf[q]) \in Batch(requests)
      BY <2>1
    <3>2. rowOf(NameOf[q]).key.at = now /\ q \in rowOf(NameOf[q]).val
      BY DEF RowFor
    <3> QED
      BY <3>1, <3>2
  <2>3. ASSUME NEW x \in Batch(requests), NEW y \in Batch(requests), x.key = y.key, NEW q \in x.val
        PROVE  \E z \in y.val : z \in requests /\ (z = q \/ ShareKey(q, z))
    <3>1. PICK a \in requests : x = rowOf(NameOf[a])
      BY <2>1
    <3>2. PICK b \in requests : y = rowOf(NameOf[b])
      BY <2>1
    <3>3. /\ NameOf[q] = NameOf[a] /\ q \in requests
          /\ Collated[NameOf[a]] = Collated[NameOf[b]]
          /\ y.val = {z \in requests : NameOf[z] = NameOf[b]}
      BY <2>3, <3>1, <3>2 DEF RowFor
    <3>4. CASE NameOf[a] = NameOf[b]
      BY <3>3, <3>4
    <3>5. CASE NameOf[a] # NameOf[b]
      BY <1>1, <3>3, <3>5 DEF ShareKey
    <3> QED
      BY <3>4, <3>5
  <2> QED
    BY <1>1, <2>2, <2>3 DEF Whole
<1>2. CASE task = "blocking"
  <2>1. Batch(requests) = {RowFor(SessionOf[q], {q}) : q \in requests}
    BY <1>2 DEF Batch, BlockingRows
  <2>2. ASSUME NEW q \in requests
        PROVE  \E x \in Batch(requests) : x.key.at = now /\ q \in x.val
    <3>1. RowFor(SessionOf[q], {q}) \in Batch(requests)
      BY <2>1
    <3>2. RowFor(SessionOf[q], {q}).key.at = now /\ q \in RowFor(SessionOf[q], {q}).val
      BY DEF RowFor
    <3> QED
      BY <3>1, <3>2
  <2>3. ASSUME NEW x \in Batch(requests), NEW y \in Batch(requests), x.key = y.key, NEW q \in x.val
        PROVE  \E z \in y.val : z \in requests /\ (z = q \/ ShareKey(q, z))
    BY <1>2, <2>1, <2>3 DEF RowFor, ShareKey
  <2> QED
    BY <1>2, <2>2, <2>3 DEF Whole
<1>3. CASE task = "concurrency"
  <2> DEFINE row == RowFor(Overall, requests)
  <2>1. Batch(requests) = {row}
    BY <1>3 DEF Batch, ConcurrencyRows
  <2>2. row.key = [at |-> now, id |-> Overall] /\ row.val = requests
    BY DEF RowFor
  <2> HIDE DEF row
  <2> QED
    BY <2>1, <2>2 DEF Whole
<1> QED
  BY <1>0, <1>1, <1>2, <1>3

-----------------------------------------------------------------------------
(* The invariant is kept *)

SparesRecent ==
    /\ UNCHANGED <<now, hist>>
    /\ \A k \in Keys : k.at \in Nat /\ k.at >= now - Keep => fact'[Home][k] = fact[Home][k]

LEMMA Purged == TypeOK /\ Purge => PurgeStep /\ SparesRecent /\ UNCHANGED <<pc, todo, sampleVars>>
<1> SUFFICES ASSUME TypeOK, Purge
             PROVE  PurgeStep /\ SparesRecent /\ UNCHANGED <<pc, todo, sampleVars>>
  OBVIOUS
<1>1. PICK old \in SUBSET {k \in Keys : fact[Home][k] # NoVal /\ k.at < now - Keep} :
         fact' = [fact EXCEPT ![Home] = [k \in Keys |-> IF k \in old THEN NoVal ELSE @[k]]]
  BY DEF Purge
<1>2. Home \in Inst /\ fact \in [Inst -> [Keys -> Vals \cup {NoVal}]] /\ now \in Nat
      /\ runs \in [DOMAIN runs -> RunRow] /\ Keep \in Nat
  BY PlacesType, SamplesAssumption DEF Home, Places, TypeOK
<1>3. /\ fact' \in [Inst -> [Keys -> Vals \cup {NoVal}]]
      /\ \A k \in Keys \ old : fact'[Home][k] = fact[Home][k]
  BY <1>1, <1>2
<1>4. \A k \in Keys : k.at \in Nat /\ k.at >= now - Keep => k \notin old
  BY <1>1, <1>2
<1> QED
  BY <1>2, <1>3, <1>4 DEF Purge, PurgeStep, SparesRecent, procVars

\* What a step does to the tables of CollectionRun.
LEMMA SamplesSteps ==
  ASSUME Room, SamplesTypeOK, [SamplesNext]_allVars
  PROVE  /\ AnyStep \/ (PurgeStep /\ SparesRecent)
         /\ task' = task
<1>0. TypeOK
  BY DEF SamplesTypeOK
<1>1. ASSUME NEW p \in Invocations, TakeSample(p) PROVE AnyStep /\ task' = task
  <2>1. PICK requests \in Returns : Fetch(p, Batch(requests)) /\ task' = task
    BY <1>1 DEF TakeSample
  <2>2. Batch(requests) \in SUBSET Row /\ IsFiniteSet(Batch(requests))
    BY BatchType, SamplesAssumption
  <2> QED
    BY <2>1, <2>2 DEF AnyStep
<1>2. ASSUME NEW p \in Invocations, Inherited(p) PROVE AnyStep /\ task' = task
  BY <1>2 DEF Inherited, AnyStep, Next
<1>3. CASE Purge
  BY <1>0, <1>3, Purged DEF sampleVars
<1>4. CASE ((Tick \/ AllEnded) /\ UNCHANGED sampleVars) \/ UNCHANGED allVars
  BY <1>4 DEF AnyStep, Next, AllEnded, allVars, sampleVars
<1> QED
  BY <1>1, <1>2, <1>3, <1>4 DEF SamplesNext

\* Time does not go back.
LEMMA SampleTime ==
  ASSUME TypeOK, [SamplesNext]_allVars
  PROVE  now' \in Nat /\ now <= now'
<1>0. now \in Nat
  BY DEF TypeOK
<1>1. ASSUME NEW p \in Invocations, TakeSample(p) PROVE now' = now
  BY <1>1 DEF TakeSample, Fetch, repoVars
<1>2. ASSUME NEW p \in Invocations, Inherited(p) PROVE now' = now \/ now' = now + 1
  <2>1. Inherits(p)
    BY <1>2 DEF Inherited, Inherits
  <2> QED
    BY <2>1, OpenedBy DEF Opens, InsertRun
<1>3. CASE Purge \/ Tick \/ AllEnded \/ UNCHANGED allVars
  BY <1>0, <1>3 DEF Purge, Tick, AllEnded, allVars, vars
<1> QED
  BY <1>0, <1>1, <1>2, <1>3 DEF SamplesNext

LEMMA BaseStays == SamplesInv /\ Room /\ [SamplesNext]_allVars => Base' /\ KeepsHist
  BY SamplesSteps, PurgeBase, BaseStep, AnyEffect, RowsKept DEF SamplesInv, KeepsRows

LEMMA KeptStays ==
  ASSUME SamplesInv, Room, [SamplesNext]_allVars
  PROVE  KeptInv'
<1>0. /\ now \in Nat /\ now' \in Nat /\ now <= now' /\ Keep \in Nat
      /\ Base /\ (AnyStep \/ SparesRecent)
  BY SampleTime, SamplesSteps, SamplesAssumption DEF SamplesInv, SamplesTypeOK, TypeOK
<1> SUFFICES ASSUME NEW k \in Keys, k.at \in Nat, k.at >= now' - Keep PROVE DurableAt(k)'
  BY DEF KeptInv
<1>1. k.at >= now - Keep
  BY <1>0, StillRecent
<1>2. DurableAt(k)
  BY <1>1 DEF SamplesInv, KeptInv
<1>3. CASE SparesRecent
  <2>1. UNCHANGED hist /\ fact'[Home][k] = fact[Home][k]
    BY <1>1, <1>3 DEF SparesRecent
  <2> QED
    BY <1>0, <1>2, <2>1, OneInstance, DurableSpared, SamplesAssumption DEF Home
<1> QED
  BY <1>0, <1>2, <1>3, DurableStep

\* A row takes over what its invocation read, and keeps it.
LEMMA TakenOver ==
  ASSUME SamplesInv, Base', KeepsHist, NEW p \in Invocations, Inherited(p), NEW r \in DOMAIN hist'
  PROVE  \/ r \in DOMAIN hist /\ taken'[r] = taken[r] /\ hist'[r].batch = hist[r].batch
         \/ /\ r \notin DOMAIN hist /\ taken'[r] = read[p] /\ pc[p] = "start"
            /\ hist'[r].batch = todo[p]
<1>0. DOMAIN hist = 1 .. nextId - 1 /\ DOMAIN hist' = 1 .. nextId' - 1 /\ nextId \in Nat \ {0}
  BY DEF SamplesInv, Base, TypeInv, TypeOK
<1>1. taken' = [s \in DOMAIN hist' |-> IF s \in DOMAIN hist THEN taken[s] ELSE read[p]]
      /\ Inherits(p)
  BY DEF Inherited, Inherits
<1>2. CASE r \in DOMAIN hist
  BY <1>1, <1>2 DEF KeepsHist
<1>3. CASE r \notin DOMAIN hist
  <2>1. Opens(p)
    BY <1>0, <1>1, <1>3, OpenedBy
  <2>2. DOMAIN hist' = DOMAIN hist \cup {nextId} /\ hist'[nextId].batch = todo[p] /\ pc[p] = "start"
    BY <2>1 DEF Opens, InsertRun
  <2> QED
    BY <1>1, <1>3, <2>2
<1> QED
  BY <1>2, <1>3

LEMMA TypesStay ==
  ASSUME SamplesInv, Base', KeepsHist, Room, [SamplesNext]_allVars
  PROVE  SamplesTypeOK'
<1>0. /\ TypeOK' /\ now \in Nat /\ task' = task /\ task \in Tasks
      /\ read \in [Invocations -> Sample] /\ taken \in [DOMAIN hist -> Sample]
  BY SamplesSteps DEF SamplesInv, SamplesTypeOK, Base, TypeInv, TypeOK
<1>1. ASSUME NEW p \in Invocations, TakeSample(p) PROVE SamplesTypeOK'
  <2>1. PICK requests \in Returns :
           /\ read' = [read EXCEPT ![p] = [requests |-> requests, at |-> now]]
           /\ UNCHANGED <<hist, taken>>
    BY <1>1 DEF TakeSample, Fetch, repoVars
  <2>2. [requests |-> requests, at |-> now] \in Sample
    BY <1>0, SamplesAssumption DEF Sample
  <2> QED
    BY <1>0, <2>1, <2>2 DEF SamplesTypeOK
<1>2. ASSUME NEW p \in Invocations, Inherited(p) PROVE SamplesTypeOK'
  <2>1. /\ read' = [read EXCEPT ![p] = Nothing] /\ Nothing \in Sample
        /\ taken' = [s \in DOMAIN hist' |-> IF s \in DOMAIN hist THEN taken[s] ELSE read[p]]
    BY <1>2 DEF Inherited, Nothing, Sample
  <2>2. taken' \in [DOMAIN hist' -> Sample] /\ read' \in [Invocations -> Sample]
    BY <1>0, <2>1
  <2> QED
    BY <1>0, <2>2 DEF SamplesTypeOK
<1>3. CASE UNCHANGED <<hist, read, taken>>
  BY <1>0, <1>3 DEF SamplesTypeOK
<1> QED
  BY <1>1, <1>2, <1>3 DEF SamplesNext, Purge, Tick, AllEnded, allVars, vars, repoVars, sampleVars

LEMMA WholeStays ==
  ASSUME SamplesInv, Base', KeepsHist, Room, [SamplesNext]_allVars
  PROVE  WholeInv'
<1>0. /\ TypeOK /\ pc \in [Invocations -> Pcs] /\ todo \in [Invocations -> SUBSET Row]
      /\ task' = task /\ read \in [Invocations -> Sample] /\ WholeInv
  BY SamplesSteps DEF SamplesInv, SamplesTypeOK, TypeOK
<1>1. ASSUME NEW sample, NEW batch, Whole(sample, batch) PROVE Whole(sample, batch)'
  BY <1>0, <1>1 DEF Whole, ShareKey
<1>2. ASSUME NEW p \in Invocations, TakeSample(p) PROVE WholeInv'
  <2>1. PICK requests \in Returns :
           /\ Fetch(p, Batch(requests))
           /\ read' = [read EXCEPT ![p] = [requests |-> requests, at |-> now]]
           /\ taken' = taken
    BY <1>2 DEF TakeSample
  <2>2. Whole([requests |-> requests, at |-> now], Batch(requests))
    BY BatchIsWhole, SamplesAssumption DEF SamplesInv
  <2>3. ASSUME NEW q \in Invocations, pc'[q] = "start"
        PROVE  \E sample, batch : /\ read'[q] = sample /\ todo'[q] = batch
                                  /\ Whole(sample, batch)
    <3>1. CASE q = p
      BY <1>0, <2>1, <2>2, <2>3, <3>1 DEF Fetch, Return, Goto
    <3>2. CASE q # p
      BY <1>0, <2>1, <2>3, <3>2 DEF Fetch, Return, Goto, WholeInv
    <3> QED
      BY <3>1, <3>2
  <2>4. \A r \in DOMAIN hist : Whole(taken[r], hist[r].batch)
    BY <1>0 DEF WholeInv
  <2>5. hist' = hist
    BY <2>1 DEF Fetch, repoVars
  <2> QED
    BY <1>1, <2>1, <2>3, <2>4, <2>5 DEF WholeInv
<1>3. ASSUME NEW p \in Invocations, Inherited(p) PROVE WholeInv'
  <2>1. read' = [read EXCEPT ![p] = Nothing] /\ Inherits(p)
    BY <1>3 DEF Inherited, Inherits
  <2>2. ASSUME NEW q \in Invocations, pc'[q] = "start"
        PROVE  \E sample, batch : /\ read'[q] = sample /\ todo'[q] = batch
                                  /\ Whole(sample, batch)
    <3>1. q # p /\ pc[q] = "start" /\ todo'[q] = todo[q]
      BY <1>0, <2>1, <2>2, StartersStay
    <3> QED
      BY <1>0, <2>1, <3>1 DEF WholeInv
  <2>3. ASSUME NEW r \in DOMAIN hist'
        PROVE  \E sample, batch : /\ taken'[r] = sample /\ hist'[r].batch = batch
                                  /\ Whole(sample, batch)
    BY <1>0, <1>3, TakenOver DEF WholeInv
  <2> QED
    BY <1>1, <2>2, <2>3 DEF WholeInv
<1>4. CASE UNCHANGED <<pc, todo, hist, read, taken>>
  BY <1>0, <1>1, <1>4 DEF WholeInv
<1> QED
  BY <1>0, <1>2, <1>3, <1>4, Purged DEF SamplesNext, Purge, Tick, AllEnded, allVars, vars, repoVars,
     procVars, sampleVars

LEMMA SamplesKept == Room /\ SamplesInv /\ [SamplesNext]_allVars => SamplesInv'
  BY BaseStays, TypesStay, KeptStays, WholeStays DEF SamplesInv

LEMMA SamplesAlways == ASSUME Room PROVE SamplesSpec => []SamplesInv
<1>1. SamplesInv /\ [SamplesNext]_allVars => SamplesInv'
  BY SamplesKept
<1> QED
  BY <1>1, SamplesInitially, PTL DEF SamplesSpec

-----------------------------------------------------------------------------
(* The theorems *)

\* The tables and the local state of the samplers keep their types.
THEOREM SamplesTypeCorrect == ASSUME Room PROVE SamplesSpec => []SamplesTypeOK
<1>1. SamplesInv => SamplesTypeOK
  BY DEF SamplesInv
<1> QED
  BY <1>1, SamplesAlways, PTL

\* A sampler's closed row of collection_run is never written again.
THEOREM SamplesClosedFinal == ASSUME Room PROVE SamplesSpec => ClosedRowsAreFinal
<1>1. SamplesInv /\ [SamplesNext]_allVars => [ClosedRowsKept]_vars
  BY SamplesSteps, ClosedKept, PurgeCloses DEF SamplesInv
<1> QED
  BY <1>1, SamplesAlways, PTL DEF SamplesSpec, ClosedRowsAreFinal

\* Of each row of a successful run, one of its key is in the table, or another run's.
LEMMA RowHeld ==
  ASSUME SamplesInv, NEW r \in DOMAIN runs, runs[r].status = "success", NEW x \in hist[r].batch,
         x.key.at \in Nat, x.key.at >= now - Keep
  PROVE  /\ x.key \in Keys
         /\ fact[Home][x.key] # NoVal
         /\ \/ \E y \in hist[r].batch : y.key = x.key /\ fact[Home][x.key] = y.val
            \/ \E s \in DOMAIN hist \ {r} : \E y \in hist[s].landed : y.key = x.key
<1>0. /\ r \in DOMAIN hist /\ Monitored[hist[r].place] = Home
      /\ \A s \in DOMAIN hist : hist[s].landed \in SUBSET Row /\ hist[s].batch \in SUBSET Row
  BY OneInstance, SamplesAssumption DEF SamplesInv, Base, RunInv, OwnerInv, TypeInv, TypeOK, HistRow,
     Home
<1>1. hist[r].landed \subseteq hist[r].batch /\ Covered(hist[r].batch, hist[r].landed)
  BY <1>0 DEF SamplesInv, Base, RunInv, LandInv
<1>2. PICK y \in hist[r].landed : y.key = x.key
  BY <1>1 DEF Covered
<1>3. x.key \in Keys
  BY <1>0 DEF Row
<1>4. DurableAt(x.key)
  BY <1>3 DEF SamplesInv, KeptInv
<1> DEFINE v == fact[Home][x.key]
           z == [key |-> x.key, val |-> v]
<1>5. v = y.val \/ \E s \in DOMAIN hist \ {r} : z \in hist[s].landed
  BY <1>0, <1>2, <1>4 DEF DurableAt
<1>6. CASE v = y.val
  <2>1. v \in Vals
    BY <1>0, <1>2, <1>6 DEF Row
  <2> QED
    BY <1>1, <1>2, <1>3, <1>6, <2>1, NoValAssumption
<1>7. ASSUME NEW s \in DOMAIN hist \ {r}, z \in hist[s].landed
      PROVE  v # NoVal /\ \E w \in hist[s].landed : w.key = x.key
  <2>1. z \in Row /\ z.key = x.key
    BY <1>0, <1>7
  <2>2. v \in Vals
    BY <2>1 DEF Row
  <2> QED
    BY <1>7, <2>1, <2>2, NoValAssumption
<1> QED
  BY <1>3, <1>5, <1>6, <1>7

\* A successful sample counts every request of its moment until it is purged, but for those
\* that lost their key to another row of it, of the same run or of an overlapping one.
THEOREM SampleCountsAll == ASSUME Room PROVE SamplesSpec => []SampleIsWhole
<1>1. SamplesInv => SampleIsWhole
  <2> SUFFICES ASSUME SamplesInv PROVE SampleIsWhole
    OBVIOUS
  <2>0. /\ now \in Nat /\ Keep \in Nat /\ DOMAIN runs \subseteq DOMAIN hist
        /\ \A r \in DOMAIN hist : taken[r].at \in Nat /\ Whole(taken[r], hist[r].batch)
    BY SamplesAssumption DEF SamplesInv, SamplesTypeOK, Sample, TypeOK, Base, RunInv, OwnerInv, WholeInv
  <2> SUFFICES ASSUME NEW r \in DOMAIN runs, runs[r].status = "success", taken[r].at >= now - Keep
               PROVE  /\ \A q \in taken[r].requests :
                           \/ Displaced(r, q)
                           \/ \E x \in taken[r].requests :
                                (x = q \/ ShareKey(q, x)) /\ Counted(x, taken[r].at)
                      /\ task = "concurrency" =>
                           fact[Home][[at |-> taken[r].at, id |-> Overall]] # NoVal
    BY <2>0 DEF SampleIsWhole
  <2>1. Whole(taken[r], hist[r].batch) /\ taken[r].at \in Nat
    BY <2>0
  <2>2. ASSUME NEW q \in taken[r].requests, ~Displaced(r, q)
        PROVE  \E x \in taken[r].requests : (x = q \/ ShareKey(q, x)) /\ Counted(x, taken[r].at)
    <3>1. PICK x \in hist[r].batch : x.key.at = taken[r].at /\ q \in x.val
      BY <2>1 DEF Whole
    <3>2. /\ x.key \in Keys /\ fact[Home][x.key] # NoVal
          /\ \E y \in hist[r].batch : y.key = x.key /\ fact[Home][x.key] = y.val
      BY <2>1, <2>2, <3>1, RowHeld DEF Displaced
    <3>3. PICK y \in hist[r].batch : y.key = x.key /\ fact[Home][x.key] = y.val
      BY <3>2
    <3>4. PICK z \in y.val : z \in taken[r].requests /\ (z = q \/ ShareKey(q, z))
      BY <2>1, <3>1, <3>3 DEF Whole
    <3>5. Counted(z, taken[r].at)
      BY <3>1, <3>2, <3>3, <3>4 DEF Counted
    <3> QED
      BY <3>4, <3>5
  <2>3. ASSUME task = "concurrency"
        PROVE  fact[Home][[at |-> taken[r].at, id |-> Overall]] # NoVal
    <3>1. PICK x \in hist[r].batch : x.key = [at |-> taken[r].at, id |-> Overall]
      BY <2>1, <2>3 DEF Whole
    <3>2. x.key.at = taken[r].at
      BY <3>1
    <3>3. fact[Home][x.key] # NoVal
      BY <2>1, <3>2, RowHeld
    <3> QED
      BY <3>1, <3>3
  <2> QED
    BY <2>2, <2>3
<1> QED
  BY <1>1, SamplesAlways, PTL
=============================================================================
