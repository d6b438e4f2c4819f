------------------------- MODULE CounterDeltasProofs -------------------------
(***************************************************************************)
(* The delta views are sound for any counters, any growth, any retention   *)
(* and any number of runs: where one of the two runs overlapped nobody.    *)
(***************************************************************************)
EXTENDS CounterDeltas, TLAPS

\* The object is a database file: an IO adds a read and a stall of at most MaxStall.
OfAFile ==
    /\ {"reads", "stall"} \subseteq Counter
    /\ \A step \in Step : step["stall"] <= MaxStall * step["reads"]

\* Reading b was taken after reading a: if nothing was dropped in between, the counters grew
\* by what happened in the same life of the instance, and after a restart they hold no more
\* than what happened.
Follows(a, b) ==
    /\ a.drops <= b.drops
    /\ a.drops = b.drops => \A c \in Counter :
         /\ a.boot <= b.boot
         /\ a.total[c] <= b.total[c]
         /\ a.boot = b.boot => b.cum[c] - a.cum[c] = b.total[c] - a.total[c]
         /\ a.boot < b.boot => b.cum[c] <= b.total[c] - a.total[c]
    /\ OfAFile => b.total["stall"] - a.total["stall"]
                    <= MaxStall * (b.total["reads"] - a.total["reads"])

\* Who is alone has the monitored instance to himself.
AloneInv == \A q, r \in Busy : alone[r] => q = r

\* What is stored was stamped and read before now; and before what is being read now, unless
\* the two runs may have crossed.
LiveInv ==
    /\ \A x \in snaps : x.at <= now /\ Follows(x.read, Live)
    /\ \A r \in Busy :
         /\ Follows(got[r], Live)
         /\ pc[r] = "stamped" => stamp[r] <= now
         /\ \A x \in snaps : x.alone \/ alone[r] =>
              /\ Follows(x.read, got[r])
              /\ pc[r] = "stamped" => x.at <= stamp[r]

\* The order of the stamps is the order of the readings.
ChainInv ==
    \A p, s \in snaps : p.at < s.at /\ (p.alone \/ s.alone) => Follows(p.read, s.read)

DeltaInv == AloneInv /\ LiveInv /\ ChainInv

-----------------------------------------------------------------------------

LEMMA LiveType == CounterTypeOK => Live \in Reading
BY DEF CounterTypeOK, Live, Reading

LEMMA UnreadType == Unread \in Reading
BY DEF Unread, Zero, Reading

\* Types are kept.
LEMMA CounterTypeStep == CounterTypeOK /\ [CounterNext]_vars => CounterTypeOK'
<1> SUFFICES ASSUME CounterTypeOK, [CounterNext]_vars PROVE CounterTypeOK'
  OBVIOUS
<1> USE CounterAssumption DEF CounterTypeOK
<1>1. ASSUME NEW step \in Step, Grow(step) PROVE CounterTypeOK'
  <2>1. step \in [Counter -> Nat]
    OBVIOUS
  <2> QED
    BY <1>1, <2>1 DEF Grow, runVars
<1>2. CASE Restart
  BY <1>2 DEF Restart, Zero, runVars
<1>2a. CASE DropIndex
  <2>1. PICK part \in Part : /\ \A c \in Counter : part[c] <= cum[c]
                             /\ cum' = [c \in Counter |-> cum[c] - part[c]]
    BY <1>2a DEF DropIndex
  <2>2. \A c \in Counter : cum[c] - part[c] \in Nat
    BY <2>1
  <2> QED
    BY <1>2a, <2>1, <2>2 DEF DropIndex, runVars
<1>3. ASSUME NEW r \in Runs, Fetch(r) PROVE CounterTypeOK'
  <2>1. alone' \in [Runs -> BOOLEAN]
    BY <1>3 DEF Fetch
  <2> QED
    BY <1>3, <2>1, LiveType DEF Fetch, sourceVars
<1>4. ASSUME NEW r \in Runs, Stamp(r) PROVE CounterTypeOK'
  BY <1>4 DEF Stamp, sourceVars
<1>5. ASSUME NEW r \in Runs, Land(r) PROVE CounterTypeOK'
  <2>1. [at |-> stamp[r], read |-> got[r], alone |-> alone[r]] \in Snapshot
    BY DEF Snapshot
  <2>2. snaps' \subseteq Snapshot
    BY <1>5, <2>1 DEF Land, Upserted
  <2> QED
    BY <1>5, <2>2, UnreadType DEF Land, End, sourceVars
<1>6. ASSUME NEW r \in Runs, Fail(r) PROVE CounterTypeOK'
  BY <1>6, UnreadType DEF Fail, End, sourceVars
<1>7. CASE Tick
  BY <1>7 DEF Tick, sourceVars, runVars
<1>8. CASE Purge
  BY <1>8 DEF Purge, sourceVars, runVars
<1>9. CASE UNCHANGED vars
  BY <1>9 DEF vars, sourceVars, runVars
<1> QED
  BY <1>1, <1>2, <1>2a, <1>3, <1>4, <1>5, <1>6, <1>7, <1>8, <1>9 DEF CounterNext

LEMMA CounterTypeInit == CounterInit => CounterTypeOK
BY UnreadType DEF CounterInit, CounterTypeOK, Zero

\* The variables of CounterDeltas keep their types.
THEOREM CounterTypeCorrect == CounterSpec => []CounterTypeOK
BY CounterTypeInit, CounterTypeStep, PTL DEF CounterSpec

-----------------------------------------------------------------------------
(* Facts about readings *)

\* A reading follows itself.
LEMMA FollowsItself == ASSUME NEW a \in Reading PROVE Follows(a, a)
BY DEF Follows, Reading, OfAFile, MaxStall

\* It goes on being followed while the counters grow ...
LEMMA FollowsGrowth ==
  ASSUME CounterTypeOK, NEW a \in Reading, NEW step \in Step, Grow(step), Follows(a, Live)
  PROVE  Follows(a, Live)'
<1>0. a.drops <= drops /\ drops' = drops /\ a.drops \in Nat /\ drops \in Nat
  BY DEF Follows, Live, Reading, CounterTypeOK, Grow
<1>a. OfAFile => total'["stall"] - a.total["stall"]
                     <= MaxStall * (total'["reads"] - a.total["reads"])
  <2> SUFFICES ASSUME OfAFile
               PROVE  total'["stall"] - a.total["stall"]
                        <= MaxStall * (total'["reads"] - a.total["reads"])
    OBVIOUS
  <2>1. \A c \in {"reads", "stall"} :
          /\ step[c] \in Nat /\ total[c] \in Nat /\ a.total[c] \in Nat
          /\ total'[c] = total[c] + step[c]
    BY CounterAssumption DEF OfAFile, CounterTypeOK, Reading, Grow
  <2>2. total["stall"] - a.total["stall"] <= MaxStall * (total["reads"] - a.total["reads"])
    BY DEF Follows, Live
  <2>3. step["stall"] <= MaxStall * step["reads"]
    BY DEF OfAFile
  <2> QED
    BY <2>1, <2>2, <2>3 DEF MaxStall
<1> SUFFICES ASSUME a.drops = drops, NEW c \in Counter
             PROVE  /\ a.boot <= boot'
                    /\ a.total[c] <= total'[c]
                    /\ a.boot = boot' => cum'[c] - a.cum[c] = total'[c] - a.total[c]
                    /\ a.boot < boot' => cum'[c] <= total'[c] - a.total[c]
  BY <1>0, <1>a DEF Follows, Live
<1>1. step[c] \in Nat /\ cum[c] \in Nat /\ total[c] \in Nat /\ boot \in Nat
  BY CounterAssumption DEF CounterTypeOK
<1>2. a.boot \in Nat /\ a.total[c] \in Nat /\ a.cum[c] \in Nat
  BY DEF Reading
<1>3. cum'[c] = cum[c] + step[c] /\ total'[c] = total[c] + step[c] /\ boot' = boot
  BY DEF Grow
<1>4. /\ a.boot <= boot
      /\ a.total[c] <= total[c]
      /\ a.boot = boot => cum[c] - a.cum[c] = total[c] - a.total[c]
      /\ a.boot < boot => cum[c] <= total[c] - a.total[c]
  BY DEF Follows, Live
<1> QED
  BY <1>1, <1>2, <1>3, <1>4

\* ... and when the instance restarts.
LEMMA FollowsRestart ==
  ASSUME CounterTypeOK, NEW a \in Reading, Restart, Follows(a, Live)
  PROVE  Follows(a, Live)'
<1>0. a.drops <= drops /\ drops' = drops /\ a.drops \in Nat /\ drops \in Nat
  BY DEF Follows, Live, Reading, CounterTypeOK, Restart
<1> SUFFICES ASSUME a.drops = drops, NEW c \in Counter
             PROVE  /\ a.boot <= boot'
                    /\ a.total[c] <= total'[c]
                    /\ a.boot = boot' => cum'[c] - a.cum[c] = total'[c] - a.total[c]
                    /\ a.boot < boot' => cum'[c] <= total'[c] - a.total[c]
  BY <1>0 DEF Follows, Live, Restart
<1>1. total[c] \in Nat /\ boot \in Nat /\ a.boot \in Nat /\ a.total[c] \in Nat
  BY DEF CounterTypeOK, Reading
<1>2. cum'[c] = 0 /\ total' = total /\ boot' = boot + 1
  BY DEF Restart, Zero
<1>3. a.boot <= boot /\ a.total[c] <= total[c]
  BY DEF Follows, Live
<1> QED
  BY <1>1, <1>2, <1>3

\* Once something is dropped nothing more is said.
LEMMA FollowsDrop ==
  ASSUME CounterTypeOK, NEW a \in Reading, DropIndex, Follows(a, Live)
  PROVE  Follows(a, Live)'
<1>1. a.drops \in Nat /\ drops \in Nat /\ a.drops <= drops /\ drops' = drops + 1
  BY DEF CounterTypeOK, Reading, Follows, Live, DropIndex
<1>2. a.drops <= drops' /\ a.drops # drops'
  BY <1>1
<1> QED
  BY <1>2 DEF Follows, Live, DropIndex

\* The floor of the view makes a sound delta of two readings in order.
LEMMA DeltaSound ==
  ASSUME NEW a \in Reading, NEW b \in Reading, Follows(a, b), a.drops = b.drops, NEW c \in Counter
  PROVE  /\ 0 <= Delta(b.cum[c], a.cum[c])
         /\ Delta(b.cum[c], a.cum[c]) <= b.total[c] - a.total[c]
         /\ a.boot = b.boot => Delta(b.cum[c], a.cum[c]) = b.total[c] - a.total[c]
<1>1. /\ a.cum[c] \in Nat /\ a.total[c] \in Nat /\ a.boot \in Nat
      /\ b.cum[c] \in Nat /\ b.total[c] \in Nat /\ b.boot \in Nat
  BY DEF Reading
<1>2. /\ a.boot <= b.boot
      /\ a.total[c] <= b.total[c]
      /\ a.boot = b.boot => b.cum[c] - a.cum[c] = b.total[c] - a.total[c]
      /\ a.boot < b.boot => b.cum[c] <= b.total[c] - a.total[c]
  BY DEF Follows
<1> QED
  BY <1>1, <1>2 DEF Delta

-----------------------------------------------------------------------------
(* The inductive invariant *)

\* Steps of the monitored instance and of the clock: nothing is read or stored.
LEMMA SourceStep ==
  ASSUME CounterTypeOK, DeltaInv,
         UNCHANGED <<runVars, snaps>>,
         now' \in Nat, now <= now',
         \A a \in Reading : Follows(a, Live) => Follows(a, Live)'
  PROVE  DeltaInv'
<1>1. /\ \A x \in snaps : x.at \in Nat /\ x.read \in Reading
      /\ \A r \in Runs : got[r] \in Reading /\ stamp[r] \in Nat
      /\ now \in Nat
  BY DEF CounterTypeOK, Snapshot
<1>2. UNCHANGED <<got, stamp, alone, pc, snaps>> /\ Busy' = Busy
  BY DEF runVars, Busy
<1>3. AloneInv'
  BY <1>2 DEF DeltaInv, AloneInv
<1>4. ChainInv'
  BY <1>2 DEF DeltaInv, ChainInv, Follows
<1>5. ASSUME NEW x \in snaps PROVE x.at <= now' /\ Follows(x.read, Live)'
  <2>1. x.at <= now /\ Follows(x.read, Live)
    BY DEF DeltaInv, LiveInv
  <2> QED
    BY <1>1, <2>1
<1>6. ASSUME NEW r \in Busy
      PROVE  Follows(got[r], Live)' /\ (pc[r] = "stamped" => stamp[r] <= now')
  <2>1. Follows(got[r], Live) /\ (pc[r] = "stamped" => stamp[r] <= now) /\ r \in Runs
    BY DEF DeltaInv, LiveInv, Busy
  <2>2. Follows(got[r], Live)'
    <3> DEFINE a == got[r]
    <3>1. a \in Reading /\ Follows(a, Live) /\ got'[r] = a
      BY <1>1, <1>2, <2>1
    <3> HIDE DEF a
    <3>2. \A c \in Reading : c = got'[r] /\ Follows(c, Live)' => Follows(got[r], Live)'
      BY DEF Follows
    <3> QED
      BY <3>1, <3>2
  <2> QED
    BY <1>1, <2>1, <2>2
<1>7. LiveInv'
  BY <1>2, <1>5, <1>6 DEF DeltaInv, LiveInv, Follows
<1> QED
  BY <1>3, <1>4, <1>7 DEF DeltaInv

\* A run that ends takes nothing with it.
LEMMA EndStep ==
  ASSUME CounterTypeOK, DeltaInv, NEW r \in Runs, End(r),
         UNCHANGED <<now, sourceVars, snaps>>
  PROVE  DeltaInv'
<1>1. /\ Busy' = Busy \ {r}
      /\ \A q \in Busy' : /\ q \in Busy /\ pc'[q] = pc[q] /\ got'[q] = got[q]
                          /\ stamp'[q] = stamp[q] /\ alone'[q] = alone[q]
  BY DEF CounterTypeOK, End, Busy
<1>2. Live' = Live /\ UNCHANGED <<now, snaps>>
  BY DEF sourceVars, Live
<1>3. LiveInv'
  BY <1>1, <1>2 DEF DeltaInv, LiveInv, Follows
<1> QED
  BY <1>1, <1>2, <1>3 DEF DeltaInv, AloneInv, ChainInv, Follows

LEMMA DeltaInit == CounterInit => DeltaInv
BY DEF CounterInit, DeltaInv, AloneInv, LiveInv, ChainInv, Busy

LEMMA DeltaStep == CounterTypeOK /\ DeltaInv /\ [CounterNext]_vars => DeltaInv'
<1> SUFFICES ASSUME CounterTypeOK, DeltaInv, [CounterNext]_vars PROVE DeltaInv'
  OBVIOUS
<1>0. /\ \A x \in snaps : x.at \in Nat /\ x.read \in Reading /\ x.alone \in BOOLEAN
      /\ \A r \in Runs : got[r] \in Reading /\ stamp[r] \in Nat /\ alone[r] \in BOOLEAN
      /\ now \in Nat
      /\ Live \in Reading
  BY LiveType DEF CounterTypeOK, Snapshot
<1>1. ASSUME NEW step \in Step, Grow(step) PROVE DeltaInv'
  <2>1. \A a \in Reading : Follows(a, Live) => Follows(a, Live)'
    BY <1>1, FollowsGrowth
  <2> QED
    BY <1>0, <1>1, <2>1, SourceStep DEF Grow
<1>2. CASE Restart
  <2>1. \A a \in Reading : Follows(a, Live) => Follows(a, Live)'
    BY <1>2, FollowsRestart
  <2> QED
    BY <1>0, <1>2, <2>1, SourceStep DEF Restart
<1>2a. CASE DropIndex
  <2>1. \A a \in Reading : Follows(a, Live) => Follows(a, Live)'
    BY <1>2a, FollowsDrop
  <2> QED
    BY <1>0, <1>2a, <2>1, SourceStep DEF DropIndex
<1>3. CASE Tick
  <2>1. \A a \in Reading : Follows(a, Live) => Follows(a, Live)'
    BY <1>3 DEF Tick, sourceVars, Follows, Live
  <2> QED
    BY <1>0, <1>3, <2>1, SourceStep DEF Tick
<1>4. ASSUME NEW r \in Runs, Fetch(r) PROVE DeltaInv'
  <2>1. /\ Busy' = Busy \cup {r} /\ r \notin Busy /\ UNCHANGED <<now, snaps>> /\ Live' = Live
        /\ got'[r] = Live /\ pc'[r] = "fetched" /\ alone'[r] = (Busy = {})
    BY <1>4 DEF Fetch, CounterTypeOK, Busy, sourceVars, Live
  <2>2. \A q \in Busy : /\ pc'[q] = pc[q] /\ got'[q] = got[q] /\ stamp'[q] = stamp[q]
                       /\ ~alone'[q]
    BY <1>4 DEF Fetch, CounterTypeOK, Busy
  <2>3. AloneInv'
    BY <2>1, <2>2 DEF AloneInv
  <2>4. Follows(got[r], Live)'
    <3>1. Follows(Live, Live)
      BY <1>0, FollowsItself
    <3> QED
      BY <2>1, <3>1 DEF Follows
  <2>5. \A x \in snaps : Follows(x.read, got[r])'
    BY <2>1 DEF DeltaInv, LiveInv, Follows
  <2>6. ASSUME NEW q \in Busy
        PROVE  /\ Follows(got[q], Live)'
               /\ pc'[q] = "stamped" => stamp'[q] <= now
               /\ \A x \in snaps : x.alone =>
                    Follows(x.read, got[q])' /\ (pc'[q] = "stamped" => x.at <= stamp'[q])
    BY <2>1, <2>2 DEF DeltaInv, LiveInv, Follows
  <2>7. LiveInv'
    <3>1. \A x \in snaps' : x.at <= now' /\ Follows(x.read, Live)'
      BY <2>1 DEF DeltaInv, LiveInv, Follows
    <3> QED
      BY <2>1, <2>2, <2>4, <2>5, <2>6, <3>1 DEF LiveInv
  <2> QED
    BY <2>1, <2>3, <2>7 DEF DeltaInv, ChainInv, Follows
<1>5. ASSUME NEW r \in Runs, Stamp(r) PROVE DeltaInv'
  <2>1. /\ pc[r] = "fetched" /\ UNCHANGED <<now, got, alone, snaps>> /\ Live' = Live
        /\ Busy' = Busy /\ r \in Busy /\ stamp'[r] = now
        /\ \A q \in Busy \ {r} : pc'[q] = pc[q] /\ stamp'[q] = stamp[q]
    BY <1>5 DEF Stamp, sourceVars, Live, CounterTypeOK, Busy
  <2>2. LiveInv'
    BY <1>0, <2>1 DEF DeltaInv, LiveInv, Follows
  <2> QED
    BY <2>1, <2>2 DEF DeltaInv, AloneInv, ChainInv, Follows
<1>6. ASSUME NEW r \in Runs, Land(r) PROVE DeltaInv'
  <2> DEFINE s == [at |-> stamp[r], read |-> got[r], alone |-> alone[r]]
  <2>1. /\ pc[r] = "stamped" /\ r \in Busy /\ snaps' = {x \in snaps : x.at # s.at} \cup {s}
        /\ UNCHANGED now /\ Live' = Live
    BY <1>6 DEF Land, Upserted, sourceVars, Live, Busy
  <2>2. /\ Busy' = Busy \ {r}
        /\ \A q \in Busy' : /\ q \in Busy /\ pc'[q] = pc[q] /\ got'[q] = got[q]
                            /\ stamp'[q] = stamp[q] /\ alone'[q] = alone[q]
    BY <1>6 DEF Land, End, CounterTypeOK, Busy
  <2>3. /\ s.at <= now /\ Follows(s.read, Live)
        /\ \A x \in snaps : x.alone \/ s.alone => x.at <= s.at /\ Follows(x.read, s.read)
    BY <2>1 DEF DeltaInv, LiveInv
  <2>4. /\ s.at \in Nat /\ s.read \in Reading
        /\ \A q \in Busy' : ~s.alone /\ ~alone'[q]
    BY <1>0, <2>1, <2>2 DEF DeltaInv, AloneInv, Busy
  <2> HIDE DEF s
  <2>5. ASSUME NEW p \in snaps', NEW x \in snaps', p.at < x.at, p.alone \/ x.alone
        PROVE  Follows(p.read, x.read)
    <3>1. CASE p \in snaps /\ x \in snaps
      BY <2>5, <3>1 DEF DeltaInv, ChainInv
    <3>2. CASE p \in snaps /\ x = s
      BY <2>3, <2>5, <3>2
    <3>3. CASE p = s
      BY <1>0, <2>1, <2>3, <2>4, <2>5, <3>3
    <3> QED
      BY <2>1, <3>1, <3>2, <3>3
  <2>6. \A x \in snaps' : x.at <= now /\ Follows(x.read, Live)
    BY <2>1, <2>3 DEF DeltaInv, LiveInv
  <2>7. ASSUME NEW q \in Busy'
        PROVE  /\ Follows(got[q], Live)'
               /\ pc'[q] = "stamped" => stamp'[q] <= now
               /\ \A x \in snaps' : x.alone \/ alone'[q] =>
                    Follows(x.read, got[q])' /\ (pc'[q] = "stamped" => x.at <= stamp'[q])
    <3>1. /\ Follows(got[q], Live)
          /\ pc[q] = "stamped" => stamp[q] <= now
          /\ \A x \in snaps : x.alone =>
               Follows(x.read, got[q]) /\ (pc[q] = "stamped" => x.at <= stamp[q])
      BY <2>2 DEF DeltaInv, LiveInv
    <3> QED
      BY <2>1, <2>2, <2>4, <3>1 DEF Follows
  <2>8. LiveInv'
    BY <2>1, <2>6, <2>7 DEF LiveInv, Follows
  <2>9. AloneInv'
    BY <2>2, <2>4 DEF AloneInv
  <2> QED
    BY <2>5, <2>8, <2>9 DEF DeltaInv, ChainInv, Follows
<1>7. ASSUME NEW r \in Runs, Fail(r) PROVE DeltaInv'
  BY <1>7, EndStep DEF Fail
<1>8. CASE Purge
  <2>1. snaps' \subseteq snaps /\ UNCHANGED <<now, got, stamp, alone, pc>> /\ Live' = Live
    BY <1>8 DEF Purge, sourceVars, runVars, Live
  <2> QED
    BY <2>1 DEF DeltaInv, AloneInv, Busy, LiveInv, ChainInv, Follows
<1>9. CASE UNCHANGED vars
  BY <1>9 DEF vars, sourceVars, runVars, DeltaInv, AloneInv, Busy, LiveInv, ChainInv, Follows, Live
<1> QED
  BY <1>1, <1>2, <1>2a, <1>3, <1>4, <1>5, <1>6, <1>7, <1>8, <1>9 DEF CounterNext

LEMMA DeltaInvariant == CounterSpec => [](CounterTypeOK /\ DeltaInv)
<1>1. CounterInit => CounterTypeOK /\ DeltaInv
  BY CounterTypeInit, DeltaInit
<1>2. CounterTypeOK /\ DeltaInv /\ [CounterNext]_vars => (CounterTypeOK /\ DeltaInv)'
  BY CounterTypeStep, DeltaStep
<1> QED
  BY <1>1, <1>2, PTL DEF CounterSpec

\* A view never shows negative activity, nor, next to a run that overlapped nobody, invented
\* activity.
THEOREM DeltasNeverOvercount == CounterSpec => []DeltaNeverOvercounts
<1>1. CounterTypeOK /\ DeltaInv => DeltaNeverOvercounts
  <2> SUFFICES ASSUME CounterTypeOK, DeltaInv,
                      NEW p \in snaps, NEW s \in snaps, IsLag(p, s), NEW c \in Counter
               PROVE  LET delta == Delta(s.read.cum[c], p.read.cum[c])
                      IN  /\ 0 <= delta
                          /\ Comparable(p, s) => delta <= s.read.total[c] - p.read.total[c]
    BY DEF DeltaNeverOvercounts
  <2>1. p.read \in Reading /\ s.read \in Reading
    BY DEF CounterTypeOK, Snapshot
  <2>2. 0 <= Delta(s.read.cum[c], p.read.cum[c])
    <3>1. p.read.cum[c] \in Nat /\ s.read.cum[c] \in Nat
      BY <2>1 DEF Reading
    <3> QED
      BY <3>1 DEF Delta
  <2>3. Comparable(p, s) => Follows(p.read, s.read) /\ p.read.drops = s.read.drops
    BY DEF DeltaInv, ChainInv, IsLag, Comparable
  <2> QED
    BY <2>1, <2>2, <2>3, DeltaSound
<1> QED
  BY <1>1, DeltaInvariant, PTL

\* Where the instance did not restart, it shows exactly the activity.
THEOREM DeltasExact == CounterSpec => []DeltaExactWithoutRestart
<1>1. CounterTypeOK /\ DeltaInv => DeltaExactWithoutRestart
  BY DeltaSound DEF CounterTypeOK, Snapshot, DeltaInv, ChainInv, IsLag, Comparable,
     DeltaExactWithoutRestart
<1> QED
  BY <1>1, DeltaInvariant, PTL

\* The average latency of a window is no more than the slowest IO.
THEOREM AvgLatencyPlausible ==
  ASSUME OfAFile
  PROVE  CounterSpec => []AvgLatencyIsPlausible
<1>1. CounterTypeOK /\ DeltaInv => AvgLatencyIsPlausible
  <2> SUFFICES ASSUME CounterTypeOK, DeltaInv, NEW p \in snaps, NEW s \in snaps,
                      Comparable(p, s), p.read.boot = s.read.boot
               PROVE  AvgAtMost(p, s, "stall", "reads", MaxStall)
    BY DEF AvgLatencyIsPlausible
  <2>1. p.read \in Reading /\ s.read \in Reading /\ p.read.drops = s.read.drops
    BY DEF CounterTypeOK, Snapshot, Comparable
  <2>2. Follows(p.read, s.read)
    BY DEF DeltaInv, ChainInv, IsLag, Comparable
  <2>3. \A c \in {"reads", "stall"} :
          Delta(s.read.cum[c], p.read.cum[c]) = s.read.total[c] - p.read.total[c]
    BY <2>1, <2>2, DeltaSound DEF OfAFile
  <2>4. s.read.total["stall"] - p.read.total["stall"]
          <= MaxStall * (s.read.total["reads"] - p.read.total["reads"])
    BY <2>2 DEF Follows
  <2> QED
    BY <2>3, <2>4 DEF AvgAtMost
<1> QED
  BY <1>1, DeltaInvariant, PTL
=============================================================================
