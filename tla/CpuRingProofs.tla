--------------------------- MODULE CpuRingProofs ---------------------------
(***************************************************************************)
(* The dates of the cpu collector are late by no more than the delay of a  *)
(* batch, and a poll that lands stores the whole ring, for any number of   *)
(* overlapping polls and restarts.                                         *)
(***************************************************************************)
EXTENDS CpuRing, SequenceTheorems, TLAPS

Near(row) == row.time - row.taken \in 0 .. MaxDelay

\* The two clocks of the instance run alike: a record is as old by its stamp as by the time
\* its sample was taken.
InStep(e, t, c) == e.ts <= t /\ c - e.taken = t - e.ts

RingInv == \A i \in 1 .. Len(ring) : InStep(ring[i], ticks, clock)

\* @now is as old as the time since it was read, and that is bounded.
BaseInv ==
    \A r \in Runs : Between(r) =>
        /\ clock - asked[r] \in 0 .. MaxDelay
        /\ ticks - base[r] = clock - asked[r]

RowsInv ==
    /\ \A x \in fact : Near(x)
    /\ \A r \in Runs : batch[r] # Null => \A x \in batch[r].rows : Near(x)

CpuInv == CpuTypeOK /\ RingInv /\ BaseInv /\ RowsInv

Record == [ts : Nat, taken : Nat]

Batch == [rows : SUBSET Row, due : SUBSET Nat]

-----------------------------------------------------------------------------

LEMMA CpuInitInv == CpuInit => CpuInv
<1> SUFFICES ASSUME CpuInit PROVE CpuInv
  OBVIOUS
<1> USE CpuAssumption DEF CpuInit
<1>1. CpuTypeOK
  BY DEF CpuTypeOK
<1>2. RingInv /\ BaseInv /\ RowsInv
  BY DEF RingInv, BaseInv, RowsInv, Between
<1> QED
  BY <1>1, <1>2 DEF CpuInv

LEMMA GrowsOlder ==
    ASSUME NEW e \in Record, NEW t \in Nat, NEW c \in Nat, InStep(e, t, c)
    PROVE  InStep(e, t + 1, c + 1)
BY DEF InStep, Record

LEMMA ConvertedRecord ==
    ASSUME NEW e \in Record, NEW t \in Nat, NEW b \in Nat, InStep(e, t, clock), clock \in Nat,
           t - b \in 0 .. MaxDelay, MaxDelay \in Nat
    PROVE  /\ e.taken \in Nat
           /\ SampleTime(e.ts, b) \in Nat
           /\ SampleTime(e.ts, b) - e.taken \in 0 .. MaxDelay
BY DEF InStep, Record, SampleTime

\* What a sequence holds is a record of the ring before, or a new one.
LEMMA RecordedRing ==
    ASSUME NEW rec \in Record, NEW s \in Seq(Record)
    PROVE  /\ Append(s, rec) \in Seq(Record)
           /\ Tail(Append(s, rec)) \in Seq(Record)
           /\ \A t \in {Append(s, rec), Tail(Append(s, rec))} : \A i \in 1 .. Len(t) :
                t[i] = rec \/ \E j \in 1 .. Len(s) : t[i] = s[j]
<1> DEFINE all == Append(s, rec)
<1>1. /\ all \in Seq(Record) /\ Len(all) = Len(s) + 1 /\ all # <<>>
      /\ \A i \in 1 .. Len(s) : all[i] = s[i]
      /\ all[Len(s) + 1] = rec
  BY AppendProperties
<1>2. Len(s) \in Nat
  BY LenProperties
<1> HIDE DEF all
<1>3. Tail(all) \in Seq(Record) /\ Len(Tail(all)) = Len(all) - 1
      /\ \A i \in 1 .. Len(Tail(all)) : Tail(all)[i] = all[i + 1]
  BY <1>1, HeadTailProperties
<1>4. \A i \in 1 .. Len(all) : all[i] = rec \/ \E j \in 1 .. Len(s) : all[i] = s[j]
  <2> SUFFICES ASSUME NEW i \in 1 .. Len(all)
               PROVE  all[i] = rec \/ \E j \in 1 .. Len(s) : all[i] = s[j]
    OBVIOUS
  <2>1. CASE i \in 1 .. Len(s)
    BY <1>1, <2>1
  <2>2. CASE i = Len(s) + 1
    BY <1>1, <2>2
  <2> QED
    BY <1>1, <1>2, <2>1, <2>2
<1>5. \A i \in 1 .. Len(Tail(all)) : i + 1 \in 1 .. Len(all)
  BY <1>1, <1>2, <1>3
<1>6. \A i \in 1 .. Len(Tail(all)) :
        Tail(all)[i] = rec \/ \E j \in 1 .. Len(s) : Tail(all)[i] = s[j]
  BY <1>3, <1>4, <1>5
<1>7. all \in Seq(Record) /\ Tail(all) \in Seq(Record)
      /\ \A t \in {all, Tail(all)} : \A i \in 1 .. Len(t) :
           t[i] = rec \/ \E j \in 1 .. Len(s) : t[i] = s[j]
  BY <1>1, <1>3, <1>4, <1>6
<1> QED
  BY <1>7 DEF all

\* What is appended was recorded now, what was there grows older.
LEMMA PassStep == ASSUME CpuInv, Pass PROVE CpuInv'
<1> USE CpuAssumption DEF CpuInv
<1> DEFINE rec == [ts |-> ticks + 1, taken |-> clock + 1]
<1>1. clock \in Nat /\ ticks \in Nat /\ rec \in Record /\ ring \in Seq(Record)
  BY DEF CpuTypeOK, Record
<1>2. /\ ring' \in Seq(Record)
      /\ \A i \in 1 .. Len(ring') :
            ring'[i] = rec \/ \E j \in 1 .. Len(ring) : ring'[i] = ring[j]
  <2>1. CASE ring' = ring
    BY <1>1, <2>1
  <2>2. CASE ring' \in {Append(ring, rec), Tail(Append(ring, rec))}
    <3> HIDE DEF rec
    <3>1. /\ Append(ring, rec) \in Seq(Record)
          /\ Tail(Append(ring, rec)) \in Seq(Record)
          /\ \A q \in {Append(ring, rec), Tail(Append(ring, rec))} : \A i \in 1 .. Len(q) :
               q[i] = rec \/ \E j \in 1 .. Len(ring) : q[i] = ring[j]
      BY <1>1, RecordedRing
    <3> HIDE DEF CpuInv
    <3> QED
      BY <2>2, <3>1
  <2> QED
    BY <2>1, <2>2 DEF Pass, Recorded
<1>3. RingInv'
  <2>1. InStep(rec, ticks + 1, clock + 1)
    BY <1>1 DEF InStep
  <2>2. ASSUME NEW j \in 1 .. Len(ring) PROVE InStep(ring[j], ticks + 1, clock + 1)
    <3>1. ring[j] \in Record
      BY <1>1, ElementOfSeq
    <3> QED
      BY <1>1, <3>1, GrowsOlder DEF RingInv
  <2> HIDE DEF rec
  <2>3. \A i \in 1 .. Len(ring') : InStep(ring'[i], ticks + 1, clock + 1)
    BY <1>2, <2>1, <2>2
  <2>4. clock' = clock + 1 /\ ticks' = ticks + 1
    BY DEF Pass
  <2> QED
    BY <2>3, <2>4 DEF RingInv
<1>4. CpuTypeOK'
  BY <1>2 DEF CpuTypeOK, Pass, Record, runVars
<1>5. BaseInv'
  BY DEF CpuTypeOK, Pass, runVars, BaseInv, Between
<1>6. RowsInv'
  BY DEF CpuTypeOK, Pass, runVars, RowsInv, Near
<1> QED
  BY <1>3, <1>4, <1>5, <1>6

LEMMA RestartStep == ASSUME CpuInv, Restart PROVE CpuInv'
<1> USE CpuAssumption DEF CpuInv, Restart
<1>1. CpuTypeOK'
  BY DEF CpuTypeOK
<1>2. RingInv' /\ BaseInv'
  BY DEF CpuTypeOK, RingInv, BaseInv, Between
<1>3. RowsInv'
  BY DEF RowsInv, Near
<1> QED
  BY <1>1, <1>2, <1>3

LEMMA ReadTicksStep == ASSUME CpuInv, NEW r \in Runs, ReadTicks(r) PROVE CpuInv'
<1> USE CpuAssumption DEF CpuInv, CpuTypeOK, ReadTicks, sourceVars
<1>1. CpuTypeOK'
  OBVIOUS
<1>2. RingInv'
  BY DEF RingInv
<1>3. BaseInv'
  BY DEF BaseInv, Between
<1>4. RowsInv'
  BY DEF RowsInv, Near
<1> QED
  BY <1>1, <1>2, <1>3, <1>4

\* The rows of a poll are late by the time between its two statements.
LEMMA ConvertedNear ==
    ASSUME CpuInv, NEW r \in Runs, Between(r)
    PROVE  \A x \in Converted(base[r]) : x \in Row /\ Near(x)
<1> USE CpuAssumption DEF CpuInv
<1> SUFFICES ASSUME NEW i \in 1 .. Len(ring)
             PROVE  LET x == [time |-> SampleTime(ring[i].ts, base[r]), taken |-> ring[i].taken]
                    IN  x \in Row /\ Near(x)
  BY DEF Converted
<1>1. ring[i] \in Record /\ InStep(ring[i], ticks, clock)
  <2>1. ring \in Seq(Record)
    BY DEF Record, CpuTypeOK
  <2> QED
    BY <2>1, ElementOfSeq DEF RingInv
<1>2. base[r] \in Nat /\ ticks \in Nat /\ clock \in Nat
  BY DEF Between, CpuTypeOK
<1>3. ticks - base[r] \in 0 .. MaxDelay
  BY DEF BaseInv
<1>4. /\ ring[i].taken \in Nat
      /\ SampleTime(ring[i].ts, base[r]) \in Nat
      /\ SampleTime(ring[i].ts, base[r]) - ring[i].taken \in 0 .. MaxDelay
  BY <1>1, <1>2, <1>3, ConvertedRecord
<1> QED
  BY <1>4 DEF Row, Near

LEMMA FetchStep == ASSUME CpuInv, NEW r \in Runs, Fetch(r) PROVE CpuInv'
<1> USE CpuAssumption DEF CpuInv, Fetch, sourceVars
<1> DEFINE new == [rows |-> Converted(base[r]), due |-> Recent]
<1>1. Recent \subseteq Nat
  <2> SUFFICES ASSUME NEW s \in Int, ticks - (clock - s) > 0 PROVE s \in Nat
    BY DEF Recent, CpuTypeOK
  <2> QED
    BY DEF CpuTypeOK
<1>2. new \in Batch /\ \A x \in new.rows : Near(x)
  BY <1>1, ConvertedNear DEF Batch
<1> HIDE DEF new
<1>3. CpuTypeOK'
  BY <1>2 DEF CpuTypeOK, Batch, new
<1>4. RingInv' /\ BaseInv'
  BY DEF CpuTypeOK, RingInv, BaseInv, Between
<1>5. RowsInv'
  BY <1>2 DEF RowsInv, Near, CpuTypeOK, new
<1> QED
  BY <1>3, <1>4, <1>5

LEMMA EndStep ==
    ASSUME CpuInv, NEW r \in Runs, End(r), UNCHANGED <<clock, sourceVars>>,
           fact' \subseteq Row, owed' \subseteq Nat, \A x \in fact' : Near(x)
    PROVE  CpuInv'
<1> USE CpuAssumption DEF CpuInv, End, sourceVars
<1>1. CpuTypeOK'
  BY DEF CpuTypeOK
<1>2. RingInv' /\ BaseInv'
  BY DEF CpuTypeOK, RingInv, BaseInv, Between
<1>3. RowsInv'
  BY DEF RowsInv, Near, CpuTypeOK
<1> QED
  BY <1>1, <1>2, <1>3

LEMMA CpuInvStep == ASSUME CpuInv, [CpuNext]_vars PROVE CpuInv'
<1>1. ASSUME NEW r \in Runs, Land(r) \/ FailPersisting(r) PROVE CpuInv'
  <2>1. batch[r].rows \subseteq Row /\ batch[r].due \subseteq Nat
        /\ \A x \in batch[r].rows : Near(x)
    BY <1>1 DEF Land, FailPersisting, CpuInv, CpuTypeOK, RowsInv
  <2>2. /\ End(r) /\ UNCHANGED <<clock, sourceVars>>
        /\ owed' \subseteq owed \cup batch[r].due
        /\ fact' \subseteq fact \cup batch[r].rows
    BY <1>1 DEF Land, FailPersisting, Upserted
  <2> QED
    BY <2>1, <2>2, EndStep DEF CpuInv, CpuTypeOK, RowsInv
<1>2. ASSUME NEW r \in Runs, Fail(r) PROVE CpuInv'
  BY <1>2, EndStep DEF Fail, CpuInv, CpuTypeOK, RowsInv
<1>3. CASE Purge \/ UNCHANGED vars
  <2>1. fact' \subseteq fact /\ UNCHANGED <<clock, sourceVars, runVars, owed>>
    BY <1>3 DEF Purge, vars
  <2> QED
    BY <2>1 DEF sourceVars, runVars, CpuInv, CpuTypeOK, RingInv, BaseInv, RowsInv, Between, Near
<1> QED
  BY <1>1, <1>2, <1>3, PassStep, RestartStep, ReadTicksStep, FetchStep DEF CpuNext

LEMMA CpuInvariant == CpuSpec => []CpuInv
BY CpuInitInv, CpuInvStep, PTL DEF CpuSpec

-----------------------------------------------------------------------------

\* Every variable has its type; a date is never negative.
THEOREM CpuTypeCorrect == CpuSpec => []CpuTypeOK
BY CpuInvariant, PTL DEF CpuInv

\* The date of a row is the time of its sample, late by MaxDelay at most.
THEOREM DatesAreNear == CpuSpec => []StampedNearby
<1>1. CpuInv => StampedNearby
  BY DEF CpuInv, RowsInv, Near, StampedNearby
<1> QED
  BY <1>1, CpuInvariant, PTL

-----------------------------------------------------------------------------
(* What a poll that lands stores *)

\* The records of the ring are a period apart, the last not after the present.
Regular(seq, t) ==
    \A i \in 1 .. Len(seq) :
        /\ \E k \in Nat : seq[i].ts = k * Period
        /\ seq[i].ts + (Len(seq) - i) * Period <= t

\* Recent, of any moment.
RecentAt(t, c) ==
    {s \in c - Capacity * Period + 1 .. c :
        t - (c - s) > 0 /\ (t - (c - s)) % Period = 0}

Covers(seq, samples) == \A s \in samples : \E i \in 1 .. Len(seq) : seq[i].taken = s

CoverInv == Regular(ring, ticks) /\ Covers(ring, RecentAt(ticks, clock))

Pending == {r \in Runs : batch[r] # Null}

\* The samples that a record or a row tells of.
Known ==
    {ring[i].taken : i \in 1 .. Len(ring)}
        \cup {x.taken : x \in fact \cup UNION {batch[r].rows : r \in Pending}}

\* Taken in an earlier life of the instance, or some periods after its start.
SampledBy(s, t, c) ==
    /\ s <= c
    /\ s <= c - t \/ \E k \in Nat : s = (c - t) + k * Period

Apart(s, u) == s = u \/ s + Period <= u \/ u + Period <= s

SpacedInv ==
    /\ \A s \in Known : s \in Nat /\ SampledBy(s, ticks, clock)
    /\ \A s, u \in Known : Apart(s, u)

DueInv == \A r \in Pending : \A s \in batch[r].due : \E x \in batch[r].rows : x.taken = s

StoreInv == CpuInv /\ CoverInv /\ SpacedInv /\ DueInv /\ PollCoversRing

LEMMA InWindow ==
    ASSUME NEW t, NEW c, NEW x, x \in RecentAt(t, c)
    PROVE  /\ x \in c - Capacity * Period + 1 .. c
           /\ t - (c - x) > 0
           /\ (t - (c - x)) % Period = 0
BY DEF RecentAt

LEMMA NextMultiple ==
    ASSUME NEW k \in Nat, NEW m \in Nat, NEW n \in Nat, NEW q \in Nat \ {0},
           m * q + n * q < k * q
    PROVE  m * q + (n + 1) * q <= k * q
<1>1. m + n < k
  <2>1. ASSUME k <= m + n PROVE FALSE
    <3>1. PICK d \in Nat : m + n = k + d
      BY <2>1
    <3>2. (m + n) * q = k * q + d * q /\ d * q >= 0
      BY <3>1
    <3> QED
      BY <3>2
  <2> QED
    BY <2>1
<1>2. PICK d \in Nat : k = m + n + 1 + d
  BY <1>1
<1>3. k * q = m * q + (n + 1) * q + d * q /\ d * q >= 0
  BY <1>2
<1> QED
  BY <1>3

LEMMA MoreMultiples ==
    ASSUME NEW a \in Nat, NEW b \in Nat, NEW q \in Nat, a <= b
    PROVE  a * q \in Nat /\ b * q \in Nat /\ a * q <= b * q
<1>1. b - a \in Nat /\ b = a + (b - a)
  OBVIOUS
<1>2. PICK d \in Nat : b = a + d
  BY <1>1
<1>3. b * q = a * q + d * q /\ d * q \in Nat /\ a * q \in Nat
  BY <1>2
<1> QED
  BY <1>3

LEMMA Multiple ==
    ASSUME NEW t \in Nat, NEW q \in Nat \ {0}, t % q = 0
    PROVE  \E k \in Nat : t = k * q
<1>1. t = q * (t \div q) + (t % q) /\ t \div q \in Nat
  OBVIOUS
<1> QED
  BY <1>1

LEMMA RecentIsDue == Recent = RecentAt(ticks, clock)
BY DEF Recent, RecentAt

LEMMA KnownIsNat == ASSUME CpuInv PROVE Known \subseteq Nat
<1>1. ring \in Seq(Record)
  BY DEF CpuInv, CpuTypeOK, Record
<1>2. ASSUME NEW i \in 1 .. Len(ring) PROVE ring[i].taken \in Nat
  <2>1. ring[i] \in Record
    BY <1>1, ElementOfSeq
  <2> QED
    BY <2>1 DEF Record
<1>3. \A r \in Pending : batch[r].rows \subseteq Row
  BY DEF Pending, CpuInv, CpuTypeOK
<1> QED
  BY <1>2, <1>3 DEF Known, CpuInv, CpuTypeOK, Row

LEMMA StoreInitInv == CpuInit => StoreInv
<1> SUFFICES ASSUME CpuInit PROVE StoreInv
  OBVIOUS
<1> USE CpuAssumption DEF CpuInit
<1>1. CpuInv
  BY CpuInitInv
<1>2. CoverInv
  BY DEF CoverInv, Regular, Covers, RecentAt
<1>3. SpacedInv /\ DueInv
  BY DEF SpacedInv, Known, Pending, DueInv
<1>4. PollCoversRing
  BY DEF PollCoversRing
<1> QED
  BY <1>1, <1>2, <1>3, <1>4 DEF StoreInv

\* Nothing new is known, and no time passes.
LEMMA SpacedStill ==
    ASSUME SpacedInv, Known' \subseteq Known, UNCHANGED <<clock, ticks>>
    PROVE  SpacedInv'
BY DEF SpacedInv, SampledBy, Apart

-----------------------------------------------------------------------------
(* A period begins *)

\* The records there were are a period older than the new one.
LEMMA RegularGrows ==
    ASSUME NEW s \in Seq(Record), NEW rec \in Record, NEW t \in Nat, Regular(s, t),
           rec.ts = t + 1, (t + 1) % Period = 0
    PROVE  /\ Regular(Append(s, rec), t + 1)
           /\ Len(Append(s, rec)) > 1 => Regular(Tail(Append(s, rec)), t + 1)
<1> USE CpuAssumption
<1> DEFINE all == Append(s, rec)
<1>1. PICK k \in Nat : t + 1 = k * Period
  <2>1. t + 1 \in Nat /\ Period \in Nat \ {0}
    OBVIOUS
  <2> QED
    BY <2>1, Multiple
<1>2. /\ all \in Seq(Record) /\ Len(all) = Len(s) + 1 /\ all # <<>>
      /\ \A i \in 1 .. Len(s) : all[i] = s[i]
      /\ all[Len(s) + 1] = rec
      /\ Len(s) \in Nat
  BY AppendProperties, LenProperties
<1> HIDE DEF all
<1>3. Regular(all, t + 1)
  <2> SUFFICES ASSUME NEW i \in 1 .. Len(all)
               PROVE  /\ \E m \in Nat : all[i].ts = m * Period
                      /\ all[i].ts + (Len(all) - i) * Period <= t + 1
    BY DEF Regular
  <2>1. CASE i \in 1 .. Len(s)
    <3>1. PICK m \in Nat : s[i].ts = m * Period
      BY <2>1 DEF Regular
    <3>2. m * Period + (Len(s) - i) * Period < k * Period
      BY <1>1, <1>2, <2>1, <3>1 DEF Regular
    <3>3. Len(s) - i \in Nat
      BY <1>2, <2>1
    <3>4. m * Period + ((Len(s) - i) + 1) * Period <= k * Period
      BY <3>2, <3>3, NextMultiple
    <3>5. Len(all) - i = (Len(s) - i) + 1
      BY <1>2, <2>1
    <3>6. all[i].ts = m * Period
      BY <1>2, <2>1, <3>1
    <3>7. (Len(all) - i) * Period = ((Len(s) - i) + 1) * Period
      BY <3>5
    <3>8. all[i].ts + (Len(all) - i) * Period <= t + 1
      BY <1>1, <3>4, <3>6, <3>7
    <3>9. \E n \in Nat : all[i].ts = n * Period
      BY <3>6
    <3> QED
      BY <3>8, <3>9
  <2>2. CASE i = Len(s) + 1
    <3>1. Len(all) - i = 0 /\ all[i].ts = t + 1
      BY <1>2, <2>2
    <3>2. (Len(all) - i) * Period = 0
      BY <3>1
    <3>3. all[i].ts = k * Period
      BY <1>1, <3>1
    <3>4. all[i].ts + (Len(all) - i) * Period <= t + 1
      BY <3>1, <3>2
    <3>5. \E n \in Nat : all[i].ts = n * Period
      BY <3>3
    <3> QED
      BY <3>4, <3>5
  <2> QED
    BY <1>2, <2>1, <2>2
<1>4. ASSUME Len(all) > 1 PROVE Regular(Tail(all), t + 1)
  <2>1. /\ Len(Tail(all)) = Len(all) - 1
        /\ \A i \in 1 .. Len(Tail(all)) : Tail(all)[i] = all[i + 1]
    BY <1>2, HeadTailProperties
  <2> SUFFICES ASSUME NEW i \in 1 .. Len(Tail(all))
               PROVE  /\ \E m \in Nat : Tail(all)[i].ts = m * Period
                      /\ Tail(all)[i].ts + (Len(Tail(all)) - i) * Period <= t + 1
    BY DEF Regular
  <2>2. i + 1 \in 1 .. Len(all) /\ Len(Tail(all)) - i = Len(all) - (i + 1)
    BY <1>2, <2>1
  <2> QED
    BY <1>3, <2>1, <2>2 DEF Regular
<1> QED
  BY <1>3, <1>4 DEF all

\* The record that is pushed out has left the window.
LEMMA CoversGrows ==
    ASSUME NEW s \in Seq(Record), NEW rec \in Record, NEW t \in Nat, NEW c \in Nat,
           Regular(Append(s, rec), t + 1), Covers(s, RecentAt(t, c)),
           \A i \in 1 .. Len(s) : InStep(s[i], t, c),
           rec = [ts |-> t + 1, taken |-> c + 1]
    PROVE  /\ Covers(Append(s, rec), RecentAt(t + 1, c + 1))
           /\ Len(Append(s, rec)) > Capacity =>
                Covers(Tail(Append(s, rec)), RecentAt(t + 1, c + 1))
<1> USE CpuAssumption
<1> DEFINE all == Append(s, rec)
<1>1. /\ all \in Seq(Record) /\ Len(all) = Len(s) + 1 /\ all # <<>>
      /\ \A i \in 1 .. Len(s) : all[i] = s[i]
      /\ all[Len(s) + 1] = rec
      /\ Len(s) \in Nat
  BY AppendProperties, LenProperties
<1> HIDE DEF all
<1>2. ASSUME NEW x \in RecentAt(t + 1, c + 1)
      PROVE  \E i \in 1 .. Len(all) : all[i].taken = x
  <2>1. CASE x = c + 1
    <3>1. Len(all) \in 1 .. Len(all) /\ all[Len(all)] = rec
      BY <1>1
    <3> QED
      BY <2>1, <3>1
  <2>2. CASE x # c + 1
    <3>1. x \in RecentAt(t, c)
      BY <2>2 DEF RecentAt
    <3>2. PICK i \in 1 .. Len(s) : s[i].taken = x
      BY <3>1 DEF Covers
    <3>3. i \in 1 .. Len(all) /\ all[i].taken = x
      BY <1>1, <3>2
    <3> QED
      BY <3>3
  <2> QED
    BY <2>1, <2>2
<1>3. ASSUME Len(all) > Capacity, NEW x \in RecentAt(t + 1, c + 1)
      PROVE  \E i \in 1 .. Len(Tail(all)) : Tail(all)[i].taken = x
  <2>1. /\ Len(Tail(all)) = Len(all) - 1
        /\ \A i \in 1 .. Len(Tail(all)) : Tail(all)[i] = all[i + 1]
    BY <1>1, HeadTailProperties
  <2>2. PICK i \in 1 .. Len(all) : all[i].taken = x
    BY <1>2, <1>3
  <2>3. ASSUME i = 1 PROVE FALSE
    <3>1. 1 \in 1 .. Len(s) /\ all[1] = s[1] /\ s[1] \in Record
      BY <1>1, <1>3, ElementOfSeq
    <3>2. c - x = t - s[1].ts
      BY <2>2, <2>3, <3>1 DEF InStep
    <3>3. s[1].ts + (Len(all) - 1) * Period <= t + 1
      BY <1>1, <3>1 DEF Regular, all
    <3> DEFINE room == Capacity * Period
               span == (Len(all) - 1) * Period
    <3>4. span >= room /\ room \in Nat /\ span \in Nat
      <4>1. /\ Capacity \in Nat /\ Len(all) - 1 \in Nat /\ Period \in Nat
            /\ Capacity <= Len(all) - 1
        BY <1>1, <1>3
      <4> QED
        BY <4>1, MoreMultiples
    <3>5. s[1].ts + span <= t + 1
      BY <3>3
    <3>6. x \in Int /\ x > c + 1 - room
      BY <1>3, <3>4 DEF RecentAt
    <3> HIDE DEF room, span
    <3>7. s[1].ts \in Nat
      BY <3>1 DEF Record
    <3>8. \A first \in Nat : c - x = t - first => ~(first + span <= t + 1)
      BY <3>4, <3>6
    <3> QED
      BY <3>2, <3>5, <3>7, <3>8
  <2>4. i - 1 \in 1 .. Len(Tail(all)) /\ Tail(all)[i - 1] = all[i]
    BY <1>1, <2>1, <2>3
  <2> QED
    BY <2>2, <2>4
<1> QED
  BY <1>2, <1>3 DEF Covers, all

\* Time passes: what is known stays a period apart from what is recorded now.
LEMMA SpacedGrows ==
    ASSUME CpuTypeOK, SpacedInv, clock' = clock + 1, ticks' = ticks + 1,
           \/ Known' \subseteq Known
           \/ (ticks + 1) % Period = 0 /\ Known' \subseteq Known \cup {clock + 1}
    PROVE  SpacedInv'
<1> USE CpuAssumption
<1>1. clock \in Nat /\ ticks \in 0 .. clock
  BY DEF CpuTypeOK
<1>2. ASSUME NEW s \in Known
      PROVE  s \in Nat /\ s <= clock /\ SampledBy(s, ticks', clock')
  <2>1. (clock + 1) - (ticks + 1) = clock - ticks
    BY <1>1
  <2> QED
    BY <1>1, <2>1 DEF SpacedInv, SampledBy
<1>3. CASE Known' \subseteq Known
  BY <1>2, <1>3 DEF SpacedInv, Apart
<1>4. CASE (ticks + 1) % Period = 0 /\ Known' \subseteq Known \cup {clock + 1}
  <2>1. PICK k \in Nat : ticks + 1 = k * Period
    <3>1. ticks + 1 \in Nat /\ Period \in Nat \ {0}
      BY <1>1
    <3> QED
      BY <3>1, <1>4, Multiple
  <2>2. SampledBy(clock + 1, ticks', clock')
    <3>1. clock' = (clock' - ticks') + k * Period
      BY <1>1, <2>1
    <3>2. clock' <= clock' /\ clock + 1 = clock'
      BY <1>1
    <3> QED
      BY <3>1, <3>2 DEF SampledBy
  <2>3. ASSUME NEW s \in Known PROVE s + Period <= clock + 1
    <3>1. s \in Nat /\ SampledBy(s, ticks, clock)
      BY DEF SpacedInv
    <3>2. ASSUME NEW m \in Nat, m * Period < k * Period
          PROVE  m * Period + Period <= k * Period
      <4>1. 0 * Period = 0 /\ (0 + 1) * Period = Period
        OBVIOUS
      <4>2. m * Period + 0 * Period < k * Period
        BY <3>2, <4>1
      <4>3. m * Period + (0 + 1) * Period <= k * Period
        BY <4>2, NextMultiple
      <4> QED
        BY <4>1, <4>3
    <3>3. CASE s <= clock - ticks
      <4>1. 0 * Period < k * Period /\ 0 * Period = 0
        BY <1>1, <2>1
      <4>2. Period <= ticks + 1
        BY <2>1, <3>2, <4>1
      <4> QED
        BY <1>1, <3>1, <3>3, <4>2
    <3>4. ASSUME NEW m \in Nat, s = (clock - ticks) + m * Period
          PROVE  s + Period <= clock + 1
      <4> DEFINE mp == m * Period
      <4>1. mp \in Nat /\ s = (clock - ticks) + mp /\ s <= clock
        BY <3>1, <3>4 DEF SampledBy
      <4>2. mp < ticks + 1
        <5> HIDE DEF mp
        <5> QED
          BY <1>1, <4>1
      <4>3. mp + Period <= ticks + 1
        BY <2>1, <3>2, <4>2
      <4> HIDE DEF mp
      <4> QED
        BY <1>1, <4>1, <4>3
    <3> QED
      BY <3>1, <3>3, <3>4 DEF SampledBy
  <2>4. ASSUME NEW s \in Known' PROVE s \in Nat /\ SampledBy(s, ticks', clock')
    BY <1>1, <1>2, <1>4, <2>2
  <2>5. ASSUME NEW s \in Known', NEW u \in Known' PROVE Apart(s, u)
    BY <1>4, <2>3 DEF SpacedInv, Apart
  <2> QED
    BY <2>4, <2>5 DEF SpacedInv
<1> QED
  BY <1>3, <1>4

LEMMA PassStoreStep == ASSUME StoreInv, Pass PROVE StoreInv'
<1> USE CpuAssumption DEF StoreInv
<1> DEFINE rec == [ts |-> ticks + 1, taken |-> clock + 1]
           all == Append(ring, rec)
<1>1. /\ CpuInv'
      /\ clock' = clock + 1 /\ ticks' = ticks + 1
      /\ UNCHANGED <<runVars, fact, owed>>
  BY PassStep DEF Pass
<1>2. clock \in Nat /\ ticks \in Nat /\ rec \in Record /\ ring \in Seq(Record)
  BY DEF CpuInv, CpuTypeOK, Record
<1>3. Pending' = Pending
  BY <1>1 DEF Pending, runVars
<1>4. ASSUME (ticks + 1) % Period # 0 PROVE CoverInv' /\ SpacedInv'
  <2>1. ring' = ring
    BY <1>4 DEF Pass
  <2>2. Regular(ring', ticks')
    <3>1. ASSUME NEW i \in 1 .. Len(ring)
          PROVE  ring[i].ts + (Len(ring) - i) * Period <= ticks + 1
      <4>1. ring[i] \in Record /\ Len(ring) - i \in Nat
        BY <1>2, ElementOfSeq, LenProperties
      <4>2. (Len(ring) - i) * Period \in Nat /\ ring[i].ts \in Nat
        BY <4>1 DEF Record
      <4>3. ring[i].ts + (Len(ring) - i) * Period <= ticks
        BY DEF CoverInv, Regular
      <4> HIDE DEF rec, all
      <4> QED
        BY <1>2, <4>2, <4>3
    <3> QED
      BY <1>1, <2>1, <3>1 DEF CoverInv, Regular
  <2>3. RecentAt(ticks', clock') \subseteq RecentAt(ticks, clock)
    <3> DEFINE room == Capacity * Period
    <3>1. room \in Nat
      OBVIOUS
    <3>2. ASSUME NEW x \in RecentAt(ticks + 1, clock + 1) PROVE x \in RecentAt(ticks, clock)
      <4>1. /\ x \in (clock + 1) - room + 1 .. clock + 1
            /\ (ticks + 1) - ((clock + 1) - x) > 0
            /\ ((ticks + 1) - ((clock + 1) - x)) % Period = 0
        BY <3>2, InWindow
      <4> HIDE DEF room
      <4>2. x \in Int /\ (ticks + 1) - ((clock + 1) - x) = ticks - (clock - x)
        BY <1>2, <3>1, <4>1
      <4>3. x # clock + 1
        <5>1. ASSUME x = clock + 1 PROVE (ticks + 1) - ((clock + 1) - x) = ticks + 1
          BY <1>2, <5>1
        <5> QED
          BY <1>4, <4>1, <5>1
      <4>4. x \in clock - room + 1 .. clock
        BY <1>2, <3>1, <4>1, <4>3
      <4> QED
        BY <4>1, <4>2, <4>4 DEF RecentAt, room
    <3> QED
      BY <1>1, <3>2
  <2>4. CoverInv'
    BY <2>1, <2>2, <2>3 DEF CoverInv, Covers
  <2>5. SpacedInv'
    <3>1. Known' = Known
      BY <1>1, <1>3, <2>1 DEF Known, runVars
    <3> QED
      BY <1>1, <3>1, SpacedGrows DEF CpuInv
  <2> QED
    BY <2>4, <2>5
<1>5. ASSUME (ticks + 1) % Period = 0 PROVE CoverInv' /\ SpacedInv'
  <2>1. ring' = IF Len(all) > Capacity THEN Tail(all) ELSE all
    BY <1>5 DEF Pass, Recorded
  <2>2. /\ all \in Seq(Record) /\ Tail(all) \in Seq(Record)
        /\ \A u \in {all, Tail(all)} : \A i \in 1 .. Len(u) :
             u[i] = rec \/ \E j \in 1 .. Len(ring) : u[i] = ring[j]
    <3> HIDE DEF rec
    <3> QED
      BY <1>2, RecordedRing
  <2>3. /\ Regular(all, ticks + 1)
        /\ Len(all) > 1 => Regular(Tail(all), ticks + 1)
    <3>1. rec.ts = ticks + 1
      OBVIOUS
    <3> HIDE DEF rec
    <3> QED
      BY <1>2, <1>5, <3>1, RegularGrows DEF CoverInv
  <2>4. /\ Covers(all, RecentAt(ticks + 1, clock + 1))
        /\ Len(all) > Capacity => Covers(Tail(all), RecentAt(ticks + 1, clock + 1))
    BY <1>2, <2>3, CoversGrows DEF CoverInv, CpuInv, RingInv
  <2>5. Len(all) \in Nat
    BY <2>2, LenProperties
  <2>6. Len(all) > Capacity => Len(all) > 1
    BY <2>5
  <2>7. CoverInv'
    <3> HIDE DEF all
    <3>1. Regular(ring', ticks + 1) /\ Covers(ring', RecentAt(ticks + 1, clock + 1))
      BY <2>1, <2>3, <2>4, <2>6
    <3> QED
      BY <1>1, <3>1 DEF CoverInv
  <2>8. Known' \subseteq Known \cup {clock + 1}
    <3>1. ASSUME NEW i \in 1 .. Len(ring') PROVE ring'[i].taken \in Known \cup {clock + 1}
      <4>1. ring'[i] = rec \/ \E j \in 1 .. Len(ring) : ring'[i] = ring[j]
        BY <2>1, <2>2, <3>1
      <4> QED
        BY <4>1 DEF Known
    <3> QED
      BY <1>1, <1>3, <3>1 DEF Known, runVars
  <2>9. SpacedInv'
    BY <1>1, <1>5, <2>8, SpacedGrows DEF CpuInv
  <2> QED
    BY <2>7, <2>9
<1>6. DueInv'
  BY <1>1, <1>3 DEF DueInv, runVars
<1>7. PollCoversRing'
  <2>1. \A s \in owed : s \in Nat
    BY DEF CpuInv, CpuTypeOK
  <2> QED
    BY <1>1, <1>2, <2>1 DEF PollCoversRing
<1>8. CoverInv' /\ SpacedInv'
  BY <1>4, <1>5
<1> QED
  BY <1>1, <1>6, <1>7, <1>8

-----------------------------------------------------------------------------
(* The other steps *)

LEMMA RestartStoreStep == ASSUME StoreInv, Restart PROVE StoreInv'
<1> USE CpuAssumption DEF StoreInv, Restart
<1>1. CpuInv'
  BY RestartStep
<1>2. CoverInv'
  <2>1. Len(ring') = 0 /\ clock' \in Nat /\ ticks' = 0
    BY DEF CpuInv, CpuTypeOK
  <2>2. ASSUME NEW s \in RecentAt(ticks', clock') PROVE FALSE
    <3>1. s \in clock' - Capacity * Period + 1 .. clock' /\ ticks' - (clock' - s) > 0
      BY <2>2, InWindow
    <3> DEFINE room == Capacity * Period
    <3>2. s \in clock' - room + 1 .. clock' /\ room \in Nat
      BY <3>1
    <3> HIDE DEF room
    <3> QED
      BY <2>1, <3>1, <3>2
  <2>3. 1 .. Len(ring') = {}
    BY <2>1
  <2> QED
    BY <2>2, <2>3 DEF CoverInv, Regular, Covers
<1>3. Pending' = Pending
  BY DEF Pending
<1>4. SpacedInv'
  <2>1. Known' \subseteq Known
    BY <1>3 DEF Known
  <2>2. ASSUME NEW s \in Known PROVE SampledBy(s, ticks', clock')
    <3>1. s \in Nat /\ s <= clock /\ clock \in Nat
      BY DEF SpacedInv, SampledBy, CpuInv, CpuTypeOK
    <3>2. s <= clock' /\ s <= clock' - ticks'
      BY <3>1
    <3> QED
      BY <3>2 DEF SampledBy
  <2> QED
    BY <2>1, <2>2 DEF SpacedInv, Apart
<1>5. DueInv' /\ PollCoversRing'
  BY <1>3 DEF DueInv, PollCoversRing
<1> QED
  BY <1>1, <1>2, <1>4, <1>5

\* A step of a run that leaves the instance and the table alone, and begins no batch.
LEMMA QuietStoreStep ==
    ASSUME StoreInv, CpuInv', UNCHANGED <<clock, sourceVars, fact, owed>>,
           Pending' \subseteq Pending, \A r \in Pending' : batch'[r] = batch[r]
    PROVE  StoreInv'
<1> USE DEF StoreInv, sourceVars
<1>1. CoverInv'
  BY DEF CoverInv
<1>2. Known' \subseteq Known
  BY DEF Known
<1>3. SpacedInv'
  BY <1>2, SpacedStill
<1>4. DueInv' /\ PollCoversRing'
  BY DEF DueInv, PollCoversRing
<1> QED
  BY <1>1, <1>3, <1>4

LEMMA FetchStoreStep == ASSUME StoreInv, NEW r \in Runs, Fetch(r) PROVE StoreInv'
<1> USE CpuAssumption DEF StoreInv, Fetch, sourceVars
<1> DEFINE new == [rows |-> Converted(base[r]), due |-> Recent]
<1>1. CpuInv'
  BY FetchStep
<1>2. CoverInv'
  BY DEF CoverInv
<1>3. batch' = [batch EXCEPT ![r] = new] /\ r \in DOMAIN batch
  BY DEF CpuInv, CpuTypeOK
<1>4. \A s \in new.due : \E x \in new.rows : x.taken = s
  <2> SUFFICES ASSUME NEW s \in RecentAt(ticks, clock)
               PROVE  \E x \in Converted(base[r]) : x.taken = s
    BY RecentIsDue
  <2>1. PICK i \in 1 .. Len(ring) : ring[i].taken = s
    BY DEF CoverInv, Covers
  <2> DEFINE x == [time |-> SampleTime(ring[i].ts, base[r]), taken |-> ring[i].taken]
  <2>2. x \in Converted(base[r]) /\ x.taken = s
    BY <2>1 DEF Converted
  <2> QED
    BY <2>2
<1>5. \A x \in new.rows : \E i \in 1 .. Len(ring) : x.taken = ring[i].taken
  BY DEF Converted
<1> HIDE DEF new
<1>6. Pending' \subseteq Pending \cup {r} /\ batch'[r] = new
      /\ \A q \in Pending' : q # r => q \in Pending /\ batch'[q] = batch[q]
  BY <1>3 DEF Pending, CpuInv, CpuTypeOK
<1>7. Known' \subseteq Known
  <2>1. ASSUME NEW q \in Pending', NEW x \in batch'[q].rows PROVE x.taken \in Known
    <3>1. CASE q = r
      BY <1>5, <1>6, <2>1, <3>1 DEF Known
    <3>2. CASE q # r
      BY <1>6, <2>1, <3>2 DEF Known
    <3> QED
      BY <3>1, <3>2
  <2>2. ring' = ring /\ fact' = fact
    OBVIOUS
  <2>3. /\ \A i \in 1 .. Len(ring') : ring'[i].taken \in Known
        /\ \A x \in fact' : x.taken \in Known
    BY <2>2 DEF Known
  <2> HIDE DEF StoreInv, Fetch, sourceVars
  <2> QED
    BY <2>1, <2>3 DEF Known
<1>8. SpacedInv'
  BY <1>7, SpacedStill
<1>9. DueInv'
  BY <1>4, <1>6 DEF DueInv
<1>10. PollCoversRing'
  BY DEF PollCoversRing
<1> QED
  BY <1>1, <1>2, <1>8, <1>9, <1>10

\* The MERGE of a poll replaces a row only by one of the same sample.
LEMMA CommitStoreStep ==
    ASSUME StoreInv, CpuInv', NEW r \in Runs, batch[r] # Null,
           NEW part \in SUBSET batch[r].rows, fact' = Upserted(fact, part),
           End(r), UNCHANGED <<clock, sourceVars>>,
           owed' = owed \/ (part = batch[r].rows /\ owed' = owed \cup batch[r].due)
    PROVE  StoreInv'
<1> USE CpuAssumption DEF StoreInv, End, sourceVars
<1>1. CpuInv'
  OBVIOUS
<1>2. CoverInv'
  BY DEF CoverInv
<1>3. /\ r \in Pending
      /\ fact' \subseteq fact \cup batch[r].rows
      /\ batch[r].rows \subseteq Row /\ fact \subseteq Row
  BY DEF Pending, Upserted, CpuInv, CpuTypeOK
<1>4. Pending' \subseteq Pending /\ \A q \in Pending' : batch'[q] = batch[q]
  BY DEF Pending, CpuInv, CpuTypeOK
<1>5. Known' \subseteq Known
  <2>1. ring' = ring
    OBVIOUS
  <2>2. ASSUME NEW x \in fact' \cup UNION {batch'[q].rows : q \in Pending'}
        PROVE  x \in fact \cup UNION {batch[q].rows : q \in Pending}
    BY <1>3, <1>4
  <2> HIDE DEF StoreInv, End, sourceVars
  <2> QED
    BY <2>1, <2>2 DEF Known
<1>6. SpacedInv'
  BY <1>5, SpacedStill
<1>7. DueInv'
  BY <1>4 DEF DueInv
<1>8. PollCoversRing'
  <2> SUFFICES ASSUME NEW s \in owed', s >= clock - Keep PROVE \E x \in fact' : x.taken = s
    BY DEF PollCoversRing
  <2>1. part \subseteq fact'
    BY DEF Upserted
  <2>2. CASE s \notin owed
    <3>1. part = batch[r].rows /\ s \in batch[r].due
      BY <2>2
    <3> QED
      BY <1>3, <2>1, <3>1 DEF DueInv
  <2>3. CASE s \in owed
    <3>1. PICK x \in fact : x.taken = s
      BY <2>3 DEF PollCoversRing
    <3>2. CASE \A y \in part : y.time # x.time
      BY <3>1, <3>2 DEF Upserted
    <3>3. ASSUME NEW y \in part, y.time = x.time PROVE y.taken = x.taken
      <4>1. /\ x.taken \in Known /\ y.taken \in Known
            /\ x \in Row /\ y \in Row
        BY <1>3, <3>1 DEF Known
      <4>2. Near(x) /\ Near(y)
        BY <1>3, <3>1 DEF CpuInv, RowsInv, Pending
      <4>3. Apart(x.taken, y.taken)
        BY <4>1 DEF SpacedInv
      <4> QED
        BY <3>3, <4>1, <4>2, <4>3 DEF Near, Apart, Row
    <3> QED
      BY <2>1, <3>1, <3>2, <3>3
  <2> QED
    BY <2>2, <2>3
<1> QED
  BY <1>1, <1>2, <1>6, <1>7, <1>8

LEMMA LandStoreStep ==
    ASSUME StoreInv, CpuInv', NEW r \in Runs, Land(r) \/ FailPersisting(r)
    PROVE  StoreInv'
<1>1. CASE Land(r)
  BY <1>1, CommitStoreStep DEF Land
<1>2. CASE FailPersisting(r)
  <2>1. PICK part \in SUBSET batch[r].rows : fact' = Upserted(fact, part)
    BY <1>2 DEF FailPersisting
  <2> QED
    BY <1>2, <2>1, CommitStoreStep DEF FailPersisting
<1> QED
  BY <1>1, <1>2

\* A row is not older than its sample, so that the horizon takes none that is still owed.
LEMMA PurgeStoreStep == ASSUME StoreInv, Purge PROVE StoreInv'
<1> USE CpuAssumption DEF StoreInv, sourceVars, runVars
<1>1. PICK old \in SUBSET {x \in fact : x.time < clock - Keep} :
        /\ fact' = fact \ old
        /\ UNCHANGED <<clock, sourceVars, runVars, owed>>
  BY DEF Purge
<1>2. CpuInv'
  BY CpuInvStep DEF CpuNext
<1>3. CoverInv' /\ Pending' = Pending
  BY <1>1 DEF CoverInv, Pending
<1>4. Known' \subseteq Known
  BY <1>1, <1>3 DEF Known
<1>5. SpacedInv' /\ DueInv'
  BY <1>1, <1>3, <1>4, SpacedStill DEF DueInv
<1>6. PollCoversRing'
  <2> SUFFICES ASSUME NEW s \in owed, s >= clock - Keep PROVE \E x \in fact' : x.taken = s
    BY <1>1 DEF PollCoversRing
  <2>1. PICK x \in fact : x.taken = s
    BY DEF PollCoversRing
  <2>2. Near(x) /\ x \in Row /\ clock \in Nat
    BY DEF CpuInv, RowsInv, CpuTypeOK
  <2>3. ~(x.time < clock - Keep)
    BY <2>1, <2>2 DEF Near, Row
  <2> QED
    BY <1>1, <2>1, <2>3
<1> QED
  BY <1>2, <1>3, <1>5, <1>6

LEMMA StoreInvStep == ASSUME StoreInv, [CpuNext]_vars PROVE StoreInv'
<1>1. CpuInv'
  BY CpuInvStep DEF StoreInv
<1>2. ASSUME NEW r \in Runs, ReadTicks(r) \/ Fail(r) PROVE StoreInv'
  <2>1. /\ UNCHANGED <<clock, sourceVars, fact, owed>>
        /\ Pending' \subseteq Pending /\ \A q \in Pending' : batch'[q] = batch[q]
    BY <1>2 DEF ReadTicks, Fail, End, Pending, StoreInv, CpuInv, CpuTypeOK
  <2> QED
    BY <1>1, <2>1, QuietStoreStep
<1>3. CASE UNCHANGED vars
  BY <1>1, <1>3, QuietStoreStep DEF vars, runVars, Pending
<1> QED
  BY <1>1, <1>2, <1>3, PassStoreStep, RestartStoreStep, FetchStoreStep, LandStoreStep,
     PurgeStoreStep DEF CpuNext

\* A poll that lands stores all of the ring, and neither an overlapping poll nor a restart
\* nor the purge, before its time, takes a sample away.
THEOREM RingIsStored == CpuSpec => []PollCoversRing
<1>1. StoreInv => PollCoversRing
  BY DEF StoreInv
<1> QED
  BY <1>1, StoreInitInv, StoreInvStep, PTL DEF CpuSpec
=============================================================================
