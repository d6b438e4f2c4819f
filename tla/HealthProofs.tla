---------------------------- MODULE HealthProofs ----------------------------
(***************************************************************************)
(* rpt.health_summary is never GREEN without a reason, for any number of   *)
(* overlapping runs, any limits and any history of the instance, provided  *)
(* that the instance is not east of UTC.                                   *)
(***************************************************************************)
EXTENDS Health, TLAPS

NotEast == \A z \in Zones : z <= 0

\* A row tells of nothing that had not happened when it was read.
RowPast(row) ==
    zone <= 0 =>
        /\ row.read <= now
        /\ row.full # Null => full # Null /\ row.full <= full /\ row.full <= row.read
        /\ row.log # Null => log # Null /\ row.log <= log

PastInv ==
    /\ zone \in Zones
    /\ full # Null => full <= now
    /\ log # Null => log <= now
    /\ \A x \in fact : RowPast(x.row)
    /\ \A r \in Runs :
         /\ date[r] # Null => got[r] # Null
         /\ got[r] # Null => RowPast(got[r])

HealthInv == HealthTypeOK /\ PastInv

-----------------------------------------------------------------------------
(* Hours *)

LEMMA HourBounds ==
    ASSUME NEW t \in Int, NEW H \in Nat \ {0}
    PROVE  /\ t \div H \in Int
           /\ (t \div H) * H <= t
           /\ t < (t \div H + 1) * H
BY SMTT(30)

LEMMA DateIsNat == ASSUME NEW t \in Nat, NEW D \in Nat \ {0} PROVE t \div D \in Nat
BY SMTT(30)

LEMMA TimesMonotone ==
    ASSUME NEW a \in Int, NEW b \in Int, NEW H \in Nat, a <= b PROVE a * H <= b * H
BY SMTT(30)

LEMMA TimesDistributes ==
    ASSUME NEW a \in Int, NEW b \in Int, NEW H \in Nat PROVE (a + b) * H = a * H + b * H
BY SMTT(30)

\* h hour boundaries or fewer are less than h + 1 hours.
LEMMA AgeBound ==
    ASSUME NEW t \in Int, NEW h \in Nat, now \in Nat, Hour \in Nat \ {0},
           DateDiffHour(t, now) <= h
    PROVE  now - t < (h + 1) * Hour
<1> DEFINE p == t \div Hour
           q == now \div Hour
<1>1. p \in Int /\ q \in Int /\ p * Hour <= t /\ now < (q + 1) * Hour
  BY HourBounds
<1>2. q + 1 <= p + (h + 1)
  BY <1>1 DEF DateDiffHour
<1> HIDE DEF p, q
<1>3. (q + 1) * Hour <= (p + (h + 1)) * Hour
  BY <1>1, <1>2, TimesMonotone
<1>4. (p + (h + 1)) * Hour = p * Hour + (h + 1) * Hour
  BY <1>1, TimesDistributes
<1>5. p * Hour \in Int /\ (q + 1) * Hour \in Int /\ (h + 1) * Hour \in Int
  BY <1>1
<1> QED
  BY <1>1, <1>3, <1>4, <1>5

-----------------------------------------------------------------------------
(* The invariant *)

LEMMA ReadingRow == ASSUME HealthTypeOK PROVE Reading \in HealthRow
BY HealthAssumption DEF HealthTypeOK, Reading, Local, HealthRow, Times

LEMMA ReadingPast == ASSUME HealthInv PROVE RowPast(Reading)
BY HealthAssumption DEF HealthInv, HealthTypeOK, PastInv, RowPast, Reading, Local

LEMMA HealthInitInv == HealthInit => HealthInv
BY HealthAssumption DEF HealthInit, HealthInv, HealthTypeOK, PastInv

\* What happens on the instance makes no row untrue.
LEMMA SourceStep ==
    ASSUME HealthInv,
           now' \in Nat /\ now <= now',
           zone' = zone /\ model' = model /\ faults' \subseteq {"offline", "jobs"},
           full' \in {full, now},
           log' \in {log, now},
           events' \in Nat,
           UNCHANGED <<got, date, fact>>
    PROVE  HealthInv'
<1> USE HealthAssumption DEF HealthInv, HealthTypeOK
<1>1. HealthTypeOK'
  OBVIOUS
<1>2. ASSUME NEW row \in HealthRow, RowPast(row) PROVE RowPast(row)'
  BY <1>2 DEF PastInv, RowPast, HealthRow, Times
<1>3. PastInv'
  BY <1>2 DEF PastInv
<1> QED
  BY <1>1, <1>3

LEMMA FetchStep == ASSUME HealthInv, NEW r \in Runs, Fetch(r) PROVE HealthInv'
<1> USE DEF HealthInv
<1>1. HealthTypeOK'
  BY ReadingRow DEF HealthTypeOK, Fetch, sourceVars
<1>2. RowPast(Reading)' /\ UNCHANGED <<now, full, log, zone, fact, date>>
  BY ReadingPast DEF Fetch, sourceVars, RowPast, Reading, Local
<1>3. PastInv'
  BY <1>2, ReadingPast DEF HealthTypeOK, PastInv, RowPast, Fetch
<1> QED
  BY <1>1, <1>3

LEMMA StampStep == ASSUME HealthInv, NEW r \in Runs, Stamp(r) PROVE HealthInv'
<1> USE HealthAssumption DEF HealthInv, Stamp, sourceVars
<1>1. now \div Day \in Nat
  BY DateIsNat DEF HealthTypeOK
<1>2. HealthTypeOK'
  BY <1>1 DEF HealthTypeOK
<1>3. PastInv'
  BY DEF HealthTypeOK, PastInv, RowPast
<1> QED
  BY <1>2, <1>3

LEMMA EndStep ==
    ASSUME HealthInv, NEW r \in Runs, End(r), UNCHANGED <<now, sourceVars>>,
           fact' \subseteq [date : Nat, row : HealthRow],
           \A x, y \in fact' : x.date = y.date => x = y,
           \A x \in fact' : RowPast(x.row)
    PROVE  HealthInv'
<1> USE HealthAssumption DEF HealthInv, End, sourceVars
<1>1. HealthTypeOK'
  BY DEF HealthTypeOK
<1>2. PastInv'
  BY DEF HealthTypeOK, PastInv, RowPast
<1> QED
  BY <1>1, <1>2

LEMMA LandStep == ASSUME HealthInv, NEW r \in Runs, Land(r) PROVE HealthInv'
<1> DEFINE new == [date |-> date[r], row |-> got[r]]
<1>1. got[r] \in HealthRow /\ date[r] \in Nat /\ RowPast(got[r])
  BY DEF HealthInv, HealthTypeOK, PastInv, Land
<1>2. fact' = {x \in fact : x.date # new.date} \cup {new}
  BY DEF Land, Upserted
<1>3. fact' \subseteq [date : Nat, row : HealthRow]
  BY <1>1, <1>2 DEF HealthInv, HealthTypeOK
<1>4. \A x, y \in fact' : x.date = y.date => x = y
  BY <1>2 DEF HealthInv, HealthTypeOK
<1>5. \A x \in fact' : RowPast(x.row)
  BY <1>1, <1>2 DEF HealthInv, PastInv
<1> QED
  BY <1>3, <1>4, <1>5, EndStep DEF Land

LEMMA HealthInvStep == ASSUME HealthInv, [HealthNext]_vars PROVE HealthInv'
<1>1. CASE FullBackup
  BY <1>1, SourceStep DEF FullBackup, Event, HealthInv, HealthTypeOK
<1>2. CASE LogBackup
  BY <1>2, SourceStep DEF LogBackup, Event, HealthInv, HealthTypeOK
<1>3. ASSUME NEW fault \in {"offline", "jobs"}, Turn(fault) PROVE HealthInv'
  BY <1>3, SourceStep DEF Turn, Event, HealthInv, HealthTypeOK
<1>4. CASE Tick
  BY <1>4, SourceStep DEF Tick, sourceVars, HealthInv, HealthTypeOK
<1>5. ASSUME NEW r \in Runs, Fail(r) PROVE HealthInv'
  BY <1>5, EndStep DEF Fail, HealthInv, HealthTypeOK, PastInv
<1>6. CASE UNCHANGED vars
  BY <1>6, SourceStep DEF vars, sourceVars, HealthInv, HealthTypeOK
<1> QED
  BY <1>1, <1>2, <1>3, <1>4, <1>5, <1>6, FetchStep, StampStep, LandStep DEF HealthNext

LEMMA HealthInvariant == HealthSpec => []HealthInv
BY HealthInitInv, HealthInvStep, PTL DEF HealthSpec

-----------------------------------------------------------------------------
(* The theorems *)

\* Every variable has its type and fact_health one row per date, whatever the zone.
THEOREM HealthTypeCorrect == HealthSpec => []HealthTypeOK
BY HealthInvariant, PTL DEF HealthInv

\* What a GREEN grade of a row says.
LEMMA GreenRow ==
    ASSUME HealthInv, NEW x \in Shown, Rag(x.row) = "GREEN"
    PROVE  /\ x.row.full # Null /\ now - x.row.full < (FullMax + 1) * Hour
           /\ x.row.model = "FULL" =>
                x.row.log # Null /\ now - x.row.log < (LogMax + 1) * Hour
<1>1. x.row \in HealthRow
  BY DEF HealthInv, HealthTypeOK, Shown
<1>2. ~Older(x.row.full, FullMax) /\ (x.row.model = "FULL" => ~Older(x.row.log, LogMax))
  BY DEF Rag
<1>3. ASSUME NEW t \in Times, NEW h \in Nat, ~Older(t, h)
      PROVE  t # Null /\ now - t < (h + 1) * Hour
  <2>1. t \in Int /\ DateDiffHour(t, now) <= h
    BY <1>3, HealthAssumption, HourBounds DEF Older, Times, DateDiffHour, HealthInv, HealthTypeOK
  <2> QED
    BY <1>3, <2>1, AgeBound, HealthAssumption DEF Older, HealthInv, HealthTypeOK
<1> QED
  BY <1>1, <1>2, <1>3, HealthAssumption DEF HealthRow

\* A database is shown GREEN only while its backups are young enough.
THEOREM GreenIsBackedUp == ASSUME NotEast PROVE HealthSpec => []GreenMeansBackedUp
<1>1. ASSUME HealthInv PROVE GreenMeansBackedUp
  <2> SUFFICES ASSUME NEW x \in Shown, Rag(x.row) = "GREEN"
               PROVE  /\ full # Null /\ now - full < (FullMax + 1) * Hour
                      /\ x.row.model = "FULL" => log # Null /\ now - log < (LogMax + 1) * Hour
    BY DEF GreenMeansBackedUp
  <2>1. RowPast(x.row) /\ x.row \in HealthRow /\ zone <= 0
    BY <1>1 DEF NotEast, HealthInv, HealthTypeOK, PastInv, Shown
  <2>2. (FullMax + 1) * Hour \in Int /\ (LogMax + 1) * Hour \in Int
    BY HealthAssumption
  <2> QED
    BY <1>1, <2>1, <2>2, GreenRow DEF RowPast, HealthInv, HealthTypeOK, HealthRow, Times
<1> QED
  BY <1>1, HealthInvariant, PTL

\* A collector that has stopped leaves nothing GREEN for longer than the limit and an hour.
THEOREM StoppedIsNoticed == ASSUME NotEast PROVE HealthSpec => []SilenceTurnsRed
<1>1. ASSUME HealthInv PROVE SilenceTurnsRed
  <2> SUFFICES ASSUME NEW x \in Shown, Rag(x.row) = "GREEN"
               PROVE  now - x.row.read < (FullMax + 1) * Hour
    BY DEF SilenceTurnsRed
  <2>1. RowPast(x.row) /\ x.row \in HealthRow /\ zone <= 0
    BY <1>1 DEF NotEast, HealthInv, HealthTypeOK, PastInv, Shown
  <2>2. (FullMax + 1) * Hour \in Int
    BY HealthAssumption
  <2> QED
    BY <1>1, <2>1, <2>2, GreenRow DEF RowPast, HealthInv, HealthTypeOK, HealthRow, Times
<1> QED
  BY <1>1, HealthInvariant, PTL

-----------------------------------------------------------------------------
(* No early alarm *)

\* What is at most h hours old is at most h hour boundaries old.
LEMMA BoundariesBound ==
    ASSUME NEW t \in Int, NEW h \in Nat, now \in Nat, Hour \in Nat \ {0}, now - t <= h * Hour
    PROVE  DateDiffHour(t, now) \in Int /\ DateDiffHour(t, now) <= h
<1> DEFINE p == t \div Hour
           q == now \div Hour
<1>1. /\ p \in Int /\ q \in Int
      /\ t < (p + 1) * Hour /\ q * Hour <= now
  BY HourBounds
<1>2. DateDiffHour(t, now) = q - p
  BY DEF DateDiffHour
<1> HIDE DEF p, q
<1>3. (p + 1) * Hour + h * Hour = (p + 1 + h) * Hour
  BY <1>1, TimesDistributes
<1>4. /\ (p + 1) * Hour \in Int /\ q * Hour \in Int
      /\ h * Hour \in Int /\ (p + 1 + h) * Hour \in Int
  BY <1>1
<1>5. q * Hour < (p + 1 + h) * Hour
  BY <1>1, <1>3, <1>4
<1>6. p + 1 + h <= q => (p + 1 + h) * Hour <= q * Hour
  BY <1>1, TimesMonotone
<1> QED
  BY <1>1, <1>2, <1>4, <1>5, <1>6

\* The limits are whole hours: a backup within its limit is not reported while the row
\* shown is what the instance would answer.
THEOREM NoAlarmIsEarly == HealthSpec => []NoEarlyAlarm
<1>1. HealthTypeOK => NoEarlyAlarm
  <2> SUFFICES ASSUME HealthTypeOK, NEW x \in Shown,
                      x.row.faults = {},
                      x.row.full = full, full # Null, now - full <= FullMax * Hour,
                      x.row.model = "FULL" => /\ x.row.log = log /\ log # Null
                                              /\ now - log <= LogMax * Hour
               PROVE  Rag(x.row) = "GREEN"
    BY DEF NoEarlyAlarm
  <2>1. ~Older(x.row.full, FullMax)
    <3>1. full \in Int /\ now \in Nat
      BY DEF HealthTypeOK
    <3>2. DateDiffHour(full, now) \in Int /\ DateDiffHour(full, now) <= FullMax
      BY <3>1, HealthAssumption, BoundariesBound
    <3> QED
      BY <3>2, HealthAssumption DEF Older
  <2>2. x.row.model = "FULL" => ~Older(x.row.log, LogMax)
    <3> SUFFICES ASSUME x.row.model = "FULL" PROVE ~Older(x.row.log, LogMax)
      OBVIOUS
    <3>1. log \in Int /\ now \in Nat
      BY DEF HealthTypeOK
    <3>2. DateDiffHour(log, now) \in Int /\ DateDiffHour(log, now) <= LogMax
      BY <3>1, HealthAssumption, BoundariesBound
    <3> QED
      BY <3>2, HealthAssumption DEF Older
  <2> QED
    BY <2>1, <2>2 DEF Rag
<1> QED
  BY <1>1, HealthTypeCorrect, PTL
=============================================================================
