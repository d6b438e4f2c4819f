------------------------ MODULE DailySnapshotProofs ------------------------
(***************************************************************************)
(* What the latest-snapshot views show is what the last run to store it    *)
(* saw, for any databases, objects, retention, number of overlapping runs  *)
(* and failures.                                                           *)
(***************************************************************************)
EXTENDS DailySnapshot, SequenceTheorems, TLAPS

\* A run finds objects only in databases that it reads.
AtHome(run) == \A x \in run.rows : HomeOf[x.obj] \in run.read
BatchInv ==
    \A r \in Runs : /\ left[r] \subseteq targets[r]
                    /\ \A x \in batch[r] : HomeOf[x.obj] \in targets[r]
                    /\ phase[r] = "none" => batch[r] = {} /\ left[r] = {}

\* A run that begins after another has committed has no earlier date.
DateInv ==
    /\ \A i, j \in DOMAIN landed : i <= landed[j].before => landed[i].date <= landed[j].date
    /\ \A i \in DOMAIN landed : /\ landed[i].date <= today
                                /\ landed[i].before < i
                                /\ AtHome(landed[i])
    /\ \A r \in Runs : /\ before[r] <= Len(landed)
                       /\ phase[r] = "stamped" =>
                            \A i \in DOMAIN landed : i <= before[r] => landed[i].date <= date[r]

Saw(run, o) == \E x \in run.rows : x.obj = o

\* A row is what the last run of its date to store its object had found.
FromLast(x, runsSoFar) ==
    \E i \in DOMAIN runsSoFar :
        /\ runsSoFar[i].date = x.date
        /\ [obj |-> x.obj, val |-> x.val] \in runsSoFar[i].rows
        /\ \A j \in DOMAIN runsSoFar :
             j > i /\ runsSoFar[j].date = x.date => ~Saw(runsSoFar[j], x.obj)
FactInv == \A x \in fact : FromLast(x, landed)

\* What a run stored has a row of its date as long as the retention lasts.
KeptInv ==
    \A i \in DOMAIN landed : \A x \in landed[i].rows :
        landed[i].date >= today - Keep =>
            \E y \in fact : y.date = landed[i].date /\ y.obj = x.obj

DailyInv == DailyTypeOK /\ BatchInv /\ DateInv /\ FactInv /\ KeptInv

-----------------------------------------------------------------------------

LEMMA DailyInitInv == DailyInit => DailyInv
BY DailyAssumption DEF DailyInit, DailyInv, DailyTypeOK, BatchInv, DateInv, FactInv, KeptInv

LEMMA Typed ==
    ASSUME DailyTypeOK
    PROVE  /\ Len(landed) \in Nat
           /\ DOMAIN landed = 1 .. Len(landed)
           /\ \A i \in DOMAIN landed : /\ landed[i] \in Landed
                                       /\ landed[i].date \in Nat
                                       /\ landed[i].before \in Nat
           /\ \A x \in fact : x.date \in Nat
           /\ today \in Nat
<1>1. landed \in Seq(Landed)
  BY DEF DailyTypeOK
<1>2. /\ Len(landed) \in Nat
      /\ DOMAIN landed = 1 .. Len(landed)
      /\ \A i \in DOMAIN landed : landed[i] \in Landed
  BY <1>1, LenProperties, ElementOfSeq
<1> QED
  BY <1>2 DEF DailyTypeOK, Landed

\* The instance, the calendar and the runs under way leave the table alone.
LEMMA QuietStep ==
    ASSUME DailyInv, DailyTypeOK', BatchInv', fact' \subseteq fact, landed' = landed,
           today' \in Nat, today' >= today,
           \A x \in fact \ fact' : x.date < today - Keep,
           \A r \in Runs : /\ before'[r] \in {before[r], Len(landed), 0}
                           /\ phase'[r] = "stamped" =>
                                \/ date'[r] = today
                                \/ /\ phase[r] = "stamped"
                                   /\ date'[r] = date[r] /\ before'[r] = before[r]
    PROVE  DailyInv'
<1> USE DailyAssumption DEF DailyInv
<1>1. DateInv'
  BY Typed DEF DateInv, AtHome
<1>2. FactInv'
  BY DEF FactInv, FromLast, Saw
<1>3. KeptInv'
  BY Typed DEF KeptInv
<1> QED
  BY <1>1, <1>2, <1>3

LEMMA EventStep ==
    ASSUME DailyInv, Event, online' \subseteq Database, content' \in [Object -> SUBSET Val]
    PROVE  DailyInv'
<1> USE DEF Event, runVars, DailyInv
<1>1. DailyTypeOK' /\ BatchInv'
  BY DEF DailyTypeOK, BatchInv
<1> QED
  BY <1>1, QuietStep DEF DailyTypeOK

LEMMA BeginStep == ASSUME DailyInv, NEW r \in Runs, Begin(r) PROVE DailyInv'
<1> USE DEF Begin, sourceVars, DailyInv
<1>1. DailyTypeOK'
  BY Typed DEF DailyTypeOK
<1>2. BatchInv'
  BY DEF BatchInv, DailyTypeOK
<1> QED
  BY <1>1, <1>2, QuietStep DEF DailyTypeOK

LEMMA ReadStep ==
    ASSUME DailyInv, NEW r \in Runs, NEW d \in Database, ReadDatabase(r, d)
    PROVE  DailyInv'
<1> USE DEF ReadDatabase, sourceVars, DailyInv
<1>1. DailyTypeOK'
  BY Typed DEF DailyTypeOK
<1>2. BatchInv'
  <2> SUFFICES ASSUME NEW q \in Runs PROVE BatchInv!(q)'
    BY DEF BatchInv
  <2>1. CASE q = r
    BY <2>1 DEF BatchInv, DailyTypeOK
  <2>2. CASE q # r
    BY <2>2 DEF BatchInv, DailyTypeOK
  <2> QED
    BY <2>1, <2>2
<1> QED
  BY <1>1, <1>2, QuietStep DEF DailyTypeOK

LEMMA StampStep == ASSUME DailyInv, NEW r \in Runs, Stamp(r) PROVE DailyInv'
<1> USE DEF Stamp, sourceVars, DailyInv
<1>1. DailyTypeOK'
  BY Typed DEF DailyTypeOK
<1>2. BatchInv'
  BY DEF BatchInv, DailyTypeOK
<1> QED
  BY <1>1, <1>2, QuietStep DEF DailyTypeOK

LEMMA FailStep == ASSUME DailyInv, NEW r \in Runs, Fail(r) PROVE DailyInv'
<1> USE DEF Fail, End, sourceVars, DailyInv
<1>1. DailyTypeOK'
  BY Typed DEF DailyTypeOK
<1>2. BatchInv'
  BY DEF BatchInv, DailyTypeOK
<1> QED
  BY <1>1, <1>2, QuietStep DEF DailyTypeOK

LEMMA MidnightOrPurgeStep == ASSUME DailyInv, Midnight \/ Purge PROVE DailyInv'
<1> USE DEF Midnight, Purge, sourceVars, runVars, DailyInv
<1>1. fact' \subseteq fact /\ today' \in Nat /\ today' >= today
  BY DEF DailyTypeOK
<1>2. DailyTypeOK'
  BY <1>1 DEF DailyTypeOK
<1>3. BatchInv'
  BY DEF BatchInv
<1> QED
  BY <1>1, <1>2, <1>3, QuietStep

-----------------------------------------------------------------------------

\* The rows that the MERGEs of a run leave: one for each object they are about.
LEMMA CommittedRows ==
    ASSUME DailyInv, NEW r \in Runs, NEW part \in SUBSET batch[r], Commit(r, part)
    PROVE  \E rows \in SUBSET [date : Nat, obj : Object, val : Val] :
             /\ fact' = Upserted(fact, rows)
             /\ \A y \in rows : y.date = date[r] /\ [obj |-> y.obj, val |-> y.val] \in part
             /\ \A x \in part : \E y \in rows : y.obj = x.obj
<1>1. PICK last \in [{x.obj : x \in part} -> Val] :
        /\ \A o \in DOMAIN last : [obj |-> o, val |-> last[o]] \in part
        /\ fact' = Upserted(fact,
                   {[date |-> date[r], obj |-> o, val |-> last[o]] : o \in DOMAIN last})
  BY DEF Commit
<1> DEFINE rows == {[date |-> date[r], obj |-> o, val |-> last[o]] : o \in DOMAIN last}
<1>2. part \subseteq Row /\ date[r] \in Nat
  BY DEF DailyInv, DailyTypeOK
<1>3. DOMAIN last = {x.obj : x \in part} /\ DOMAIN last \subseteq Object
  BY <1>2 DEF Row
<1>4. rows \subseteq [date : Nat, obj : Object, val : Val]
  BY <1>2, <1>3
<1>5. \A y \in rows : y.date = date[r] /\ [obj |-> y.obj, val |-> y.val] \in part
  BY <1>1
<1>6. ASSUME NEW x \in part PROVE \E y \in rows : y.obj = x.obj
  <2>1. x.obj \in DOMAIN last
    BY <1>3
  <2>2. [date |-> date[r], obj |-> x.obj, val |-> last[x.obj]] \in rows
    BY <2>1
  <2> QED
    BY <2>2
<1> QED
  BY <1>1, <1>4, <1>5, <1>6

\* A run commits rows of its batch, all or some, and ends.
LEMMA CommitStep ==
    ASSUME DailyInv, NEW r \in Runs, NEW part \in SUBSET batch[r], phase[r] = "stamped",
           Commit(r, part), End(r), UNCHANGED <<today, sourceVars>>
    PROVE  DailyInv'
<1> USE DailyAssumption DEF DailyInv
<1> DEFINE run == [date |-> date[r], rows |-> part, read |-> targets[r], before |-> before[r],
                  whole |-> part = batch[r]]
           n == Len(landed)
<1>1. PICK rows \in SUBSET [date : Nat, obj : Object, val : Val] :
        /\ fact' = Upserted(fact, rows)
        /\ \A y \in rows : y.date = date[r] /\ [obj |-> y.obj, val |-> y.val] \in part
        /\ \A x \in part : \E y \in rows : y.obj = x.obj
  BY CommittedRows
<1>2. /\ landed \in Seq(Landed)
      /\ run \in Landed
      /\ today \in Nat
      /\ date[r] \in 0 .. today
      /\ before \in [Runs -> Nat]
  BY DEF DailyTypeOK, Landed
<1>3. landed' = Append(landed, run) /\ phase[r] = "stamped" /\ today' = today
  BY DEF Commit
<1> HIDE DEF run
<1>4. /\ landed' \in Seq(Landed)
      /\ n \in Nat
      /\ DOMAIN landed = 1 .. n
      /\ DOMAIN landed' = 1 .. n + 1
      /\ \A i \in 1 .. n : landed'[i] = landed[i] /\ landed[i] \in Landed
      /\ landed'[n + 1] = run
  BY <1>2, <1>3, AppendProperties, LenProperties, ElementOfSeq
<1>5. /\ run.date = date[r] /\ run.rows = part
      /\ run.read = targets[r] /\ run.before = before[r]
  BY DEF run
<1> HIDE DEF n
<1>6. DailyTypeOK'
  <2>1. fact' \subseteq [date : Nat, obj : Object, val : Val]
    BY <1>1 DEF Upserted, DailyTypeOK
  <2>2. /\ phase' \in [Runs -> {"none", "reading", "stamped"}]
        /\ targets' \in [Runs -> SUBSET Database]
        /\ left' \in [Runs -> SUBSET Database]
        /\ batch' \in [Runs -> SUBSET Row]
        /\ date' \in [Runs -> 0 .. today]
        /\ before' \in [Runs -> Nat]
    BY <1>2 DEF End, DailyTypeOK
  <2> QED
    BY <1>4, <2>1, <2>2 DEF sourceVars, DailyTypeOK
<1>7. BatchInv'
  BY DEF End, BatchInv, DailyTypeOK
<1>8. DateInv'
  <2>0. /\ \A i \in 1 .. n : i <= before[r] => landed[i].date <= run.date
        /\ run.before <= n /\ run.date <= today /\ AtHome(run)
    <3>1. /\ before[r] <= n
          /\ \A i \in 1 .. n : i <= before[r] => landed[i].date <= date[r]
      BY <1>3, <1>4 DEF DateInv, n
    <3>2. \A x \in batch[r] : HomeOf[x.obj] \in targets[r]
      BY DEF BatchInv
    <3> QED
      BY <1>2, <1>5, <3>1, <3>2 DEF AtHome
  <2>1. ASSUME NEW i \in DOMAIN landed', NEW j \in DOMAIN landed', i <= landed'[j].before
        PROVE  landed'[i].date <= landed'[j].date
    <3>1. CASE j \in 1 .. n
      <4>1. i < j
        BY <1>4, <2>1, <3>1 DEF DateInv, Landed
      <4> QED
        BY <1>4, <2>1, <3>1, <4>1 DEF DateInv
    <3>2. CASE j = n + 1
      <4>1. i \in 1 .. n
        BY <1>2, <1>4, <1>5, <2>0, <2>1, <3>2
      <4> QED
        BY <1>4, <1>5, <2>0, <2>1, <3>2, <4>1
    <3> QED
      BY <1>4, <3>1, <3>2
  <2>2. ASSUME NEW i \in DOMAIN landed'
        PROVE  landed'[i].date <= today /\ landed'[i].before < i /\ AtHome(landed'[i])
    <3>1. CASE i \in 1 .. n
      BY <1>4, <3>1 DEF DateInv
    <3>2. CASE i = n + 1
      BY <1>2, <1>4, <1>5, <2>0, <3>2
    <3> QED
      BY <1>4, <3>1, <3>2
  <2>3. ASSUME NEW q \in Runs
        PROVE  /\ before'[q] <= n + 1
               /\ phase'[q] = "stamped" =>
                    \A i \in DOMAIN landed' : i <= before'[q] => landed'[i].date <= date'[q]
    <3>1. CASE q = r
      BY <1>2, <1>4, <3>1 DEF End, DailyTypeOK
    <3>2. CASE q # r
      <4>1. /\ before'[q] = before[q] /\ phase'[q] = phase[q] /\ date'[q] = date[q]
            /\ before[q] \in Nat /\ before[q] <= n
        BY <1>2, <3>2 DEF End, DailyTypeOK, DateInv, n
      <4>2. ASSUME NEW i \in 1 .. n + 1, i <= before[q], phase[q] = "stamped"
            PROVE  landed'[i].date <= date[q]
        <5>1. i \in 1 .. n
          BY <1>4, <4>1, <4>2
        <5> QED
          BY <1>4, <4>2, <5>1 DEF DateInv
      <4> QED
        BY <1>4, <4>1, <4>2
    <3> QED
      BY <3>1, <3>2
  <2>4. Len(landed') = n + 1
    BY <1>2, <1>3, AppendProperties DEF n
  <2> QED
    BY <1>3, <2>1, <2>2, <2>3, <2>4 DEF DateInv, AtHome
<1>9. FactInv'
  <2> SUFFICES ASSUME NEW x \in fact' PROVE FromLast(x, landed')
    BY DEF FactInv
  <2>1. CASE x \in rows
    <3>1. landed'[n + 1].date = x.date /\ [obj |-> x.obj, val |-> x.val] \in landed'[n + 1].rows
      BY <1>1, <1>4, <1>5, <2>1
    <3>2. n + 1 \in DOMAIN landed' /\ \A j \in DOMAIN landed' : ~(j > n + 1)
      BY <1>4
    <3> QED
      BY <3>1, <3>2 DEF FromLast
  <2>2. CASE x \notin rows
    <3>1. x \in fact /\ \A y \in rows : y.date # x.date \/ y.obj # x.obj
      BY <1>1, <2>2 DEF Upserted
    <3>2. run.date = x.date => ~Saw(run, x.obj)
      BY <1>1, <1>5, <3>1 DEF Saw
    <3>3. PICK i \in DOMAIN landed :
            /\ landed[i].date = x.date
            /\ [obj |-> x.obj, val |-> x.val] \in landed[i].rows
            /\ \A j \in DOMAIN landed :
                 j > i /\ landed[j].date = x.date => ~Saw(landed[j], x.obj)
      BY <3>1 DEF FactInv, FromLast
    <3>4. i \in DOMAIN landed' /\ landed'[i] = landed[i]
      BY <1>4
    <3>5. ASSUME NEW j \in DOMAIN landed', j > i, landed'[j].date = x.date
          PROVE  ~Saw(landed'[j], x.obj)
      <4>1. CASE j \in 1 .. n
        BY <1>4, <3>3, <3>5, <4>1
      <4>2. CASE j = n + 1
        BY <1>4, <3>2, <3>5, <4>2
      <4> QED
        BY <1>4, <4>1, <4>2
    <3> QED
      BY <3>3, <3>4, <3>5 DEF FromLast
  <2> QED
    BY <2>1, <2>2
<1>10. KeptInv'
  <2> SUFFICES ASSUME NEW i \in DOMAIN landed', NEW x \in landed'[i].rows,
                      landed'[i].date >= today - Keep
               PROVE  \E y \in fact' : y.date = landed'[i].date /\ y.obj = x.obj
    BY <1>3 DEF KeptInv
  <2>1. CASE i \in 1 .. n
    <3>1. PICK y \in fact : y.date = landed[i].date /\ y.obj = x.obj
      BY <1>4, <2>1 DEF KeptInv
    <3>2. CASE \E z \in rows : z.date = y.date /\ z.obj = y.obj
      BY <1>1, <1>4, <2>1, <3>1, <3>2 DEF Upserted
    <3>3. CASE \A z \in rows : z.date # y.date \/ z.obj # y.obj
      BY <1>1, <1>4, <2>1, <3>1, <3>3 DEF Upserted
    <3> QED
      BY <3>2, <3>3
  <2>2. CASE i = n + 1
    BY <1>1, <1>4, <1>5, <2>2 DEF Upserted
  <2> QED
    BY <1>4, <2>1, <2>2
<1> QED
  BY <1>6, <1>7, <1>8, <1>9, <1>10

LEMMA LandStep == ASSUME DailyInv, NEW r \in Runs, Land(r) \/ FailPersisting(r) PROVE DailyInv'
<1>1. CASE Land(r)
  BY <1>1, CommitStep DEF Land
<1>2. CASE FailPersisting(r)
  <2>1. PICK part \in SUBSET batch[r] : Commit(r, part)
    BY <1>2 DEF FailPersisting
  <2> QED
    BY <1>2, <2>1, CommitStep DEF FailPersisting
<1> QED
  BY <1>1, <1>2

LEMMA DailyInvStep == ASSUME DailyInv, [DailyNext]_vars PROVE DailyInv'
<1>1. ASSUME NEW o \in Object, NEW values \in SUBSET Val, Change(o, values) PROVE DailyInv'
  <2>1. online' \subseteq Database /\ content' \in [Object -> SUBSET Val]
    BY <1>1 DEF Change, DailyInv, DailyTypeOK
  <2> QED
    BY <1>1, <2>1, EventStep DEF Change
<1>2. ASSUME NEW d \in Database, Switch(d) PROVE DailyInv'
  <2>1. online' \subseteq Database /\ content' \in [Object -> SUBSET Val]
    BY <1>2 DEF Switch, DailyInv, DailyTypeOK
  <2> QED
    BY <1>2, <2>1, EventStep DEF Switch
<1>3. CASE UNCHANGED vars
  BY <1>3 DEF vars, sourceVars, runVars, DailyInv, DailyTypeOK, BatchInv, DateInv, AtHome,
              FactInv, FromLast, Saw, KeptInv
<1>4. ASSUME NEW r \in Runs, NEW d \in Database, ReadDatabase(r, d) PROVE DailyInv'
  BY <1>4, ReadStep
<1>5. ASSUME NEW r \in Runs, Begin(r) \/ Stamp(r) \/ Land(r) \/ FailPersisting(r) \/ Fail(r)
      PROVE  DailyInv'
  BY <1>5, BeginStep, StampStep, LandStep, FailStep
<1> QED
  BY <1>1, <1>2, <1>3, <1>4, <1>5, MidnightOrPurgeStep DEF DailyNext

LEMMA DailyInvariant == DailySpec => []DailyInv
BY DailyInitInv, DailyInvStep, PTL DEF DailySpec

-----------------------------------------------------------------------------

\* Every variable has its type; nothing is dated in the future.
THEOREM DailyTypeCorrect == DailySpec => []DailyTypeOK
BY DailyInvariant, PTL DEF DailyInv

\* A run that is the last is not followed by one that began after its commit.
LEMMA LatestIsUpToDate ==
    ASSUME DailyInv, NEW S \in SUBSET DOMAIN landed, NEW i \in Latest(S)
    PROVE  UpToDate(i, S)
<1> SUFFICES ASSUME NEW j \in S, i <= landed[j].before PROVE FALSE
  BY Typed DEF UpToDate, Latest, DailyInv
<1>1. /\ i \in DOMAIN landed /\ j \in DOMAIN landed
      /\ landed[j].date < landed[i].date \/ (landed[j].date = landed[i].date /\ j <= i)
  BY DEF Latest
<1>2. landed[i].date <= landed[j].date /\ landed[j].before < j
  BY <1>1 DEF DailyInv, DateInv
<1> QED
  BY <1>1, <1>2, Typed DEF DailyInv

\* While its row is kept, the view of the tables shows one as the last run that stored it
\* had found it, failed runs included.
THEOREM StorageCurrent == DailySpec => []StorageShowsLastSeen
<1>1. ASSUME DailyInv PROVE StorageShowsLastSeen
  <2> USE DailyAssumption DEF DailyInv
  <2> SUFFICES ASSUME NEW o \in Object, NEW i \in Latest(Stored(o)),
                      landed[i].date >= today - Keep
               PROVE  LET shown == {x \in TableStorageLatest : x.obj = o}
                      IN  /\ shown # {}
                          /\ \A x \in shown :
                               x.date = landed[i].date /\ [obj |-> o, val |-> x.val] \in landed[i].rows
                          /\ UpToDate(i, Stored(o))
    BY <1>1 DEF StorageShowsLastSeen
  <2>1. /\ i \in DOMAIN landed
        /\ \E x \in landed[i].rows : x.obj = o
        /\ \A j \in DOMAIN landed : Saw(landed[j], o) =>
             landed[j].date < landed[i].date \/ (landed[j].date = landed[i].date /\ j <= i)
    BY DEF Latest, Stored, Saw
  <2>2. PICK y \in fact : y.date = landed[i].date /\ y.obj = o
    BY <1>1, <2>1 DEF KeptInv
  <2>3. ASSUME NEW x \in fact, x.obj = o
        PROVE  /\ x.date <= landed[i].date
               /\ x.date = landed[i].date => [obj |-> o, val |-> x.val] \in landed[i].rows
    <3>1. PICK j \in DOMAIN landed :
            /\ landed[j].date = x.date
            /\ [obj |-> x.obj, val |-> x.val] \in landed[j].rows
            /\ \A k \in DOMAIN landed :
                 k > j /\ landed[k].date = x.date => ~Saw(landed[k], x.obj)
      BY <1>1 DEF FactInv, FromLast
    <3>2. landed[j].date < landed[i].date \/ (landed[j].date = landed[i].date /\ j <= i)
      BY <2>1, <2>3, <3>1 DEF Saw
    <3>3. x.date = landed[i].date => j = i
      BY <1>1, <2>1, <2>3, <3>1, <3>2, Typed DEF Saw
    <3> QED
      BY <1>1, <2>1, <2>3, <3>1, <3>2, <3>3, Typed
  <2>4. y \in TableStorageLatest
    BY <2>2, <2>3 DEF TableStorageLatest
  <2>5. ASSUME NEW x \in TableStorageLatest, x.obj = o PROVE x.date = landed[i].date
    <3>1. x \in fact /\ y.date <= x.date /\ x.date <= landed[i].date
      BY <2>2, <2>3, <2>5 DEF TableStorageLatest
    <3> QED
      BY <1>1, <2>1, <2>2, <3>1, Typed
  <2>6. UpToDate(i, Stored(o))
    BY <1>1, LatestIsUpToDate DEF Stored
  <2> QED
    BY <2>2, <2>3, <2>4, <2>5, <2>6 DEF TableStorageLatest
<1> QED
  BY <1>1, DailyInvariant, PTL

\* A run whose batch has landed, or has landed in part, had read the databases of its rows.
LEMMA StoredWasRead ==
    ASSUME DailyInv, NEW d \in Database, NEW i \in StoredFrom(d)
    PROVE  i \in DOMAIN landed /\ d \in landed[i].read
BY DEF StoredFrom, DailyInv, DateInv, AtHome

\* The rows of a database are no later than the last run to land over it, or of a run that
\* failed over them.
LEMMA RowsOfDatabase ==
    ASSUME DailyInv, NEW d \in Database, NEW i \in Latest(LandedFrom(d)),
           NEW x \in fact, HomeOf[x.obj] = d
    PROVE  \E j \in StoredFrom(d) :
             /\ landed[j].date = x.date
             /\ [obj |-> x.obj, val |-> x.val] \in landed[j].rows
             /\ x.date > landed[i].date => ~landed[j].whole
<1>1. PICK j \in DOMAIN landed :
        /\ landed[j].date = x.date
        /\ [obj |-> x.obj, val |-> x.val] \in landed[j].rows
  BY DEF DailyInv, FactInv, FromLast
<1>2. j \in StoredFrom(d)
  BY <1>1 DEF StoredFrom
<1>3. ASSUME landed[j].whole PROVE ~(x.date > landed[i].date)
  <2>1. j \in LandedFrom(d)
    BY <1>2, <1>3, StoredWasRead DEF LandedFrom
  <2>2. landed[j].date <= landed[i].date /\ i \in DOMAIN landed
    BY <2>1, Typed DEF Latest, LandedFrom, DailyInv
  <2> QED
    BY <1>1, <2>2, Typed DEF DailyInv
<1> QED
  BY <1>1, <1>2, <1>3

\* The view of the index opportunities shows those that the last run to land over their
\* database found, and only rows of its day, unless a run of a later day failed over its rows
\* and left some.
THEOREM OpportunitiesCurrent == DailySpec => []OpportunitiesShowLastRun
<1>1. ASSUME DailyInv PROVE OpportunitiesShowLastRun
  <2> USE DailyAssumption DEF DailyInv
  <2> SUFFICES ASSUME NEW d \in Database, NEW i \in Latest(LandedFrom(d)),
                      landed[i].date >= today - Keep,
                      NEW w \in landed[i].rows, HomeOf[w.obj] = d
               PROVE  LET found == {x \in landed[i].rows : HomeOf[x.obj] = d}
                          shown == {x \in IndexOpportunities : HomeOf[x.obj] = d}
                          sameDay == {j \in StoredFrom(d) : landed[j].date = landed[i].date}
                          cutOff == {j \in StoredFrom(d) :
                                       ~landed[j].whole /\ landed[j].date > landed[i].date}
                      IN  /\ cutOff = {} => \A x \in found : \E y \in shown : y.obj = x.obj
                          /\ \A x \in shown : \E j \in IF cutOff = {} THEN sameDay ELSE cutOff :
                               /\ landed[j].date = x.date
                               /\ [obj |-> x.obj, val |-> x.val] \in landed[j].rows
                          /\ UpToDate(i, LandedFrom(d))
    BY <1>1 DEF OpportunitiesShowLastRun
  <2> DEFINE cutOff == {j \in StoredFrom(d) :
                          ~landed[j].whole /\ landed[j].date > landed[i].date}
  <2>1. i \in DOMAIN landed /\ landed[i].date \in Nat
    BY <1>1, Typed DEF Latest, LandedFrom
  <2>2. \A x \in fact : HomeOf[x.obj] = d /\ x.date > landed[i].date =>
          \E j \in cutOff : /\ landed[j].date = x.date
                            /\ [obj |-> x.obj, val |-> x.val] \in landed[j].rows
    BY <1>1, RowsOfDatabase
  <2> HIDE DEF cutOff
  <2>3. ASSUME cutOff = {}, NEW x \in fact, HomeOf[x.obj] = d PROVE x.date <= landed[i].date
    <3>1. ~(x.date > landed[i].date)
      BY <2>2, <2>3
    <3>2. x.date \in Nat
      BY <1>1, Typed
    <3> QED
      BY <2>1, <3>1, <3>2
  <2>4. ASSUME cutOff = {}, NEW x \in landed[i].rows, HomeOf[x.obj] = d
        PROVE  \E y \in IndexOpportunities : y.obj = x.obj /\ y.date = landed[i].date
    <3>1. PICK y \in fact : y.date = landed[i].date /\ y.obj = x.obj
      BY <1>1, <2>1 DEF KeptInv
    <3>2. \A z \in fact : HomeOf[z.obj] = HomeOf[y.obj] => z.date <= y.date
      BY <2>3, <2>4, <3>1
    <3> QED
      BY <3>1, <3>2 DEF IndexOpportunities
  <2>5. ASSUME NEW x \in IndexOpportunities, HomeOf[x.obj] = d, cutOff = {}
        PROVE  \E j \in StoredFrom(d) :
                 /\ landed[j].date = landed[i].date /\ landed[j].date = x.date
                 /\ [obj |-> x.obj, val |-> x.val] \in landed[j].rows
    <3>1. PICK y \in IndexOpportunities : y.obj = w.obj /\ y.date = landed[i].date
      BY <2>4, <2>5
    <3>2. x \in fact /\ landed[i].date <= x.date
      BY <2>5, <3>1 DEF IndexOpportunities
    <3>3. x.date = landed[i].date
      <4>1. x.date \in Nat /\ x.date <= landed[i].date
        BY <1>1, <2>3, <2>5, <3>2, Typed
      <4> QED
        BY <2>1, <3>2, <4>1
    <3> QED
      BY <1>1, <2>5, <3>2, <3>3, RowsOfDatabase
  <2>6. ASSUME NEW x \in IndexOpportunities, HomeOf[x.obj] = d, NEW k \in cutOff
        PROVE  \E j \in cutOff : /\ landed[j].date = x.date
                                 /\ [obj |-> x.obj, val |-> x.val] \in landed[j].rows
    <3>1. PICK z \in landed[k].rows : HomeOf[z.obj] = d
      BY DEF StoredFrom, cutOff
    <3>2. k \in DOMAIN landed /\ landed[k].date \in Nat /\ landed[k].date > landed[i].date
      BY <1>1, Typed DEF StoredFrom, cutOff
    <3>3. PICK y \in fact : y.date = landed[k].date /\ y.obj = z.obj
      <4>1. today \in Nat /\ Keep \in Nat
        BY <1>1, Typed
      <4>2. landed[k].date >= today - Keep
        BY <2>1, <3>2, <4>1
      <4> QED
        BY <1>1, <3>1, <3>2, <4>2 DEF KeptInv
    <3>4. x \in fact /\ y.date <= x.date
      BY <2>6, <3>1, <3>3 DEF IndexOpportunities
    <3>5. x.date > landed[i].date
      BY <1>1, <2>1, <3>2, <3>3, <3>4, Typed
    <3> QED
      BY <2>2, <2>6, <3>4, <3>5
  <2>7. UpToDate(i, LandedFrom(d))
    BY <1>1, LatestIsUpToDate DEF LandedFrom
  <2> QED
    BY <2>4, <2>5, <2>6, <2>7 DEF cutOff
<1> QED
  BY <1>1, DailyInvariant, PTL
=============================================================================
