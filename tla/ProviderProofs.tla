--------------------------- MODULE ProviderProofs ---------------------------
(***************************************************************************)
(* Proofs about the local provider and its modules, for every length of    *)
(* the periods, every number of runs between two readings of the           *)
(* configuration and every process table.                                  *)
(***************************************************************************)
EXTENDS Provider, TLAPS

Start == Sub * Epoch

\* A reading of the clock that may have been taken at real time r, if it is now later and
\* the clock was set back since the start: before that, or after it.
GatheredBy(t, r, now, back) == r \in 0 .. now /\ t \in {Start + r, Start + r - back}
Gathered(t, r) == GatheredBy(t, r, rt, setBack)

\* What it takes for a period of s seconds that began at a not to be over at b: b is in the
\* same second and later, or more than a second is left of the period.
NotDueAt(a, b, s) ==
  \/ Secs(a) = Secs(b) /\ b - a \in 0 .. Sub - 1
  \/ b - a + Sub \in 0 .. Sub * s - 1

(***************************************************************************)
(* The inductive invariant.                                                *)
(***************************************************************************)
HostOK ==
  /\ rt \in 0 .. MaxTime /\ setBack \in 0 .. Sub + 1 /\ clock = Start + rt - setBack
  /\ events \in 0 .. MaxEvents /\ sysOk \in BOOLEAN
  /\ file \in File /\ opened \in File \cup {Nothing} /\ (turn = "stat" => opened \in File)
  /\ proc \in [Pids -> [run : BOOLEAN, utime : Nat]]
  /\ \A i \in Pids : proc[i].utime <= rt
  /\ work \in [Pids -> Nat] /\ steady \subseteq Pids
  /\ conf \in [at : 0 .. MaxTime, good : BOOLEAN] /\ since \in Nat

ProviderState ==
  [status : BOOLEAN, reading : 0 .. MaxTime, ext : External, lastSlow : Times, lastFast : Times]

\* In a turn, the slow part is current once it is passed, and so is the fast part.
LoopOK ==
  /\ p \in ProviderState /\ turn \in {"admin", "stat", "fast", "step", "told"}
  /\ p.status => Gathered(p.lastFast, p.reading)
  /\ turn \in {"step", "told"} => NotDueAt(p.lastFast, clock, Fast)
  /\ turn # "admin" => NotDueAt(p.lastSlow, clock, Slow)

\* What the provider knows of a file.
Shows(ext, f) ==
  CASE f.kind = Text -> ext.status = "ok" /\ ext.at = f.at /\ ext.mtime = f.mtime
    [] f.kind = Empty -> ext.status = "empty"
    [] f.kind = Absent -> ext.status = "error"

\* A file that did not change since it was last looked at is the one that is known, or the
\* one that is open.
ExternalOK ==
  p.lastSlow # 0 =>
    \E r \in 0 .. rt :
      /\ Gathered(p.lastSlow, r)
      /\ file.at < r => IF turn = "stat" THEN opened = file /\ file.kind # Absent
                                         ELSE Shows(p.ext, file)

Made == Nat \cup {Unread}
PimsState ==
  [last   : [Modules -> Times],
   freeze : [status : {"init", "ok", "error"}, cycle : -1 .. FrzReload - 1, dirs : Made],
   usedby : [status : {"init", "ok"}, cycle : 0 .. MapReload, map : Made],
   watch  : [size : {0}],
   crc    : [counter : Nat, crc : Made],
   debug  : Int]

\* The modules run together with the readings that are told of; what "infod-debug" knows is
\* the time of its run, and what "top" knows is from the real time of its own.
ModulesOK ==
  /\ pims \in PimsState
  /\ \A m \in pim_arr : pims.last[m] = pims.last["infod-debug"]
  /\ pims.last["infod-debug"] # 0 =>
       /\ pims.debug = Secs(pims.last["infod-debug"]) - Epoch
       /\ \E r \in 0 .. rt : Gathered(pims.last["infod-debug"], r)
  /\ pims.last["top"] # 0 => Gathered(pims.last["top"], top.scanned)
  /\ p.status => /\ NotDueAt(pims.last["infod-debug"], p.lastFast, PimPeriod)
                 /\ NotDueAt(pims.last["top"], p.lastFast, TopPeriod)

\* A module that does not know the configuration as it is has not run often enough since it
\* changed to have got round to reading it.
FreezeOK ==
  /\ pims.freeze.dirs = Read(conf) \/ since <= pims.freeze.cycle \/ since = 0
  /\ pims.freeze.status = "error" => pims.freeze.dirs = Unread
UsedbyOK == pims.usedby.map = Read(conf) \/ since <= pims.usedby.cycle
CrcOK ==
  LET m == pims.crc.counter % CrcReload
  IN  pims.crc.crc = Read(conf) \/ (since < CrcReload /\ (m > 0 => since < m))

TopState ==
  [hash : [Pids -> [utime : -1 .. MaxTime, time : Times]], count : Nat, list : SUBSET Pids,
   scanned : 0 .. MaxTime]

\* The table of processes holds of each that runs since the last scan what it had used by
\* then.
TopOK ==
  /\ top \in TopState /\ top.scanned <= rt
  /\ \A i \in Nines : top.hash[i] = NotThere
  /\ \A i \in steady \ Nines :
       /\ proc[i].run /\ work[i] <= proc[i].utime
       /\ top.hash[i] = [utime |-> proc[i].utime - work[i], time |-> pims.last["top"]]

\* What the time step gets, of the state it was made from.
Report ==
  IF ~p.status THEN Nothing
  ELSE [reading |-> p.reading, scanned |-> top.scanned, content |-> p.ext.at,
        items |-> pim_packInfo(pims),
        external |-> CASE p.ext.status = "ok" -> Secs(clock) - p.ext.mtime
                       [] p.ext.status = "empty" -> EMPTY
                       [] p.ext.status = "error" -> ERROR
                       [] p.ext.status = "no info" -> NO_INFO]
ToldOK == turn = "told" => told = Report

ReloadOK == FreezeOK /\ UsedbyOK /\ CrcOK
IInv == HostOK /\ LoopOK /\ ExternalOK /\ ModulesOK /\ ReloadOK /\ TopOK /\ ToldOK

\* The fast period is at most two seconds, and at most that of the modules (it is one second
\* in the code, MOSIX_UPDATE_INFO_FAST, and they have five or ten).
FastIsShort == Fast <= 2 /\ Fast <= TopPeriod

-----------------------------------------------------------------------------
(***************************************************************************)
(* Time: seconds, products of a constant and the periods.                  *)
(***************************************************************************)

\* The constants are positive; the host's clock starts far enough from zero for every
\* period to be over that was never begun, also once it was set back.
LEMMA Constants ==
  /\ Sub \in Nat \ {0} /\ Fast \in Nat \ {0} /\ Slow \in Nat \ {0} /\ MinCpu \in Nat \ {0}
  /\ Epoch \in Nat \ {0} /\ Wrap \in Nat \ {0} /\ MaxTime \in Nat /\ MaxEvents \in Nat
  /\ PimPeriod \in Nat \ {0} /\ TopPeriod \in Nat \ {0}
  /\ FrzReload \in Nat \ {0} /\ MapReload \in Nat \ {0} /\ CrcReload \in Nat \ {0}
  /\ Nines \subseteq Pids /\ Modules = pim_arr \cup {"top"}
  /\ Start \in Nat
BY ProviderAssumption, PimsAssumption DEF Start

\* Multiplication by a natural number keeps the order.
LEMMA ProductMonotone ==
  ASSUME NEW k \in Nat, NEW x \in Int, NEW y \in Int, x <= y
  PROVE  k * x <= k * y /\ k * x \in Int /\ k * y \in Int
<1>1. PICK d \in Nat : y = x + d
  <2>1. y - x \in Nat /\ y = x + (y - x)
    OBVIOUS
  <2> QED BY <2>1
<1>2. k * y = k * x + k * d
  BY <1>1
<1>3. k * d \in Nat /\ k * x \in Int /\ k * y \in Int
  BY <1>1
<1> QED
  BY <1>2, <1>3

\* In particular that by the ticks of a second.
LEMMA TicksMonotone ==
  ASSUME NEW x \in Int, NEW y \in Int, x <= y
  PROVE  Sub * x <= Sub * y /\ Sub * x \in Int /\ Sub * y \in Int
BY Constants, ProductMonotone

\* A time in ticks is whole seconds and a fraction.
LEMMA SecondsAndFraction ==
  ASSUME NEW t \in Nat
  PROVE  /\ Secs(t) \in Nat /\ Frac(t) \in 0 .. Sub - 1
         /\ t = Sub * Secs(t) + Frac(t)
BY Constants DEF Secs, Frac

\* A time that is later by at most k seconds is counted at most k seconds later.
LEMMA SecondsOrder ==
  ASSUME NEW a \in Nat, NEW b \in Nat, NEW k \in Nat, a <= b + Sub * k
  PROVE  Secs(a) <= Secs(b) + k
<1>1. /\ Secs(a) \in Nat /\ Frac(a) \in 0 .. Sub - 1 /\ a = Sub * Secs(a) + Frac(a)
      /\ Secs(b) \in Nat /\ Frac(b) \in 0 .. Sub - 1 /\ b = Sub * Secs(b) + Frac(b)
  BY SecondsAndFraction
<1> SUFFICES ASSUME Secs(a) >= Secs(b) + k + 1 PROVE FALSE
  BY <1>1
<1>2. Sub * (Secs(b) + k + 1) <= Sub * Secs(a)
  BY <1>1, TicksMonotone
<1>3. Sub * (Secs(b) + k + 1) = Sub * Secs(b) + Sub * k + Sub
  BY <1>1, Constants
<1>4. Sub * Secs(b) \in Int /\ Sub * k \in Int /\ Sub * Secs(a) \in Int /\ Sub \in Nat
  BY <1>1, Constants
<1> QED
  BY <1>1, <1>2, <1>3, <1>4

\* Nor by more than the ticks.
LEMMA SecondsNoFaster ==
  ASSUME NEW a \in Nat, NEW b \in Nat, NEW d \in Nat, a <= b + d
  PROVE  Secs(a) <= Secs(b) + d
<1>1. d <= Sub * d /\ Sub * d \in Int
  BY Constants
<1> QED
  BY <1>1, SecondsOrder

\* A period that is not over: milli_time_diff's value was not wrapped around.
LEMMA PeriodRuns ==
  ASSUME NEW a \in Times, NEW s \in Nat \ {0}, clock \in Times, ~Due(a, s),
         Sub * s <= Sub * (Fast + Slow + TopPeriod + PimPeriod)
  PROVE  NotDueAt(a, clock, s)
<1> DEFINE d == Sub * (Secs(clock) - Secs(a))
           x == IF d = 0 THEN Frac(clock) - Frac(a) ELSE d + Frac(clock) + (Sub - Frac(a))
<1>1. a \in Nat /\ clock \in Nat /\ a <= Start + MaxTime /\ clock <= Start + MaxTime
  BY Constants DEF Times, Start
<1>2. /\ Secs(a) \in Nat /\ Frac(a) \in 0 .. Sub - 1 /\ a = Sub * Secs(a) + Frac(a)
      /\ Secs(clock) \in Nat /\ Frac(clock) \in 0 .. Sub - 1
      /\ clock = Sub * Secs(clock) + Frac(clock)
  BY <1>1, SecondsAndFraction
<1>3. d = Sub * Secs(clock) - Sub * Secs(a)
  BY <1>2, Constants
<1>4. d = 0 <=> Secs(clock) = Secs(a)
  <2> DEFINE e == Secs(clock) - Secs(a)
  <2>1. e \in Int /\ d = Sub * e /\ Sub \in Nat \ {0} /\ Sub * 1 = Sub /\ Sub * (-1) = -Sub
    BY <1>2, Constants
  <2>2. Secs(clock) = Secs(a) <=> e = 0
    BY <1>2
  <2> HIDE DEF d, e
  <2>3. e >= 1 => d >= Sub * 1 /\ d \in Int
    BY <2>1, TicksMonotone
  <2>4. e <= -1 => d <= Sub * (-1) /\ d \in Int
    BY <2>1, TicksMonotone
  <2>5. e = 0 => d = 0
    BY <2>1
  <2> QED BY <2>1, <2>2, <2>3, <2>4, <2>5
<1>5. /\ Sub * Secs(clock) \in Int /\ Sub * Secs(a) \in Int /\ Sub * s \in Int /\ Sub \in Nat \ {0}
      /\ MaxTime \in Nat /\ Start \in Nat
  BY <1>2, Constants
<1>6. x = IF Secs(clock) = Secs(a) THEN clock - a ELSE clock - a + Sub
  BY <1>2, <1>3, <1>4, <1>5
<1>7. x \in Int /\ -(Start + MaxTime) <= x
  BY <1>1, <1>5, <1>6
<1>8. ~(Unsigned(x) >= Sub * s)
  BY DEF Due, milli_time_diff
<1>9. Wrap >= Start + MaxTime + Sub * s
  <2>1. Wrap > Sub * (Epoch + MaxTime + Fast + Slow + TopPeriod + PimPeriod)
    BY ProviderAssumption
  <2>2. Sub * (Epoch + MaxTime + Fast + Slow + TopPeriod + PimPeriod)
          = Start + Sub * MaxTime + Sub * (Fast + Slow + TopPeriod + PimPeriod)
    BY Constants DEF Start
  <2>3. Sub * MaxTime >= MaxTime /\ Sub * MaxTime \in Int
    BY Constants
  <2>4. Sub * (Fast + Slow + TopPeriod + PimPeriod) \in Int /\ Wrap \in Nat
    BY Constants
  <2> QED BY <1>5, <2>1, <2>2, <2>3, <2>4
<1> HIDE DEF x, d
<1>10. Wrap \in Nat
  BY Constants
<1>11. ~(x < 0)
  BY <1>5, <1>7, <1>8, <1>9, <1>10 DEF Unsigned
<1>12. x >= 0 /\ x < Sub * s
  BY <1>5, <1>7, <1>8, <1>11 DEF Unsigned
<1>13. CASE Secs(clock) = Secs(a)
  <2>1. clock - a \in 0 .. Sub - 1
    BY <1>2, <1>5, <1>6, <1>12, <1>13
  <2> QED BY <1>13, <2>1 DEF NotDueAt
<1>14. CASE Secs(clock) # Secs(a)
  <2>1. clock - a + Sub \in 0 .. Sub * s - 1
    BY <1>1, <1>5, <1>6, <1>12, <1>14
  <2> QED BY <2>1 DEF NotDueAt
<1> QED
  BY <1>13, <1>14

\* A period that has just begun is not over.
LEMMA PeriodBegins ==
  ASSUME NEW t \in Nat, NEW s
  PROVE  NotDueAt(t, t, s)
<1>1. t - t \in 0 .. Sub - 1
  BY Constants
<1> QED
  BY <1>1 DEF NotDueAt

\* One that never began is over, also once the clock was set back.
LEMMA NeverBegun ==
  ASSUME NEW t \in Nat, t >= Start - Sub - 1, NEW s \in Nat, s < Epoch
  PROVE  ~NotDueAt(0, t, s)
<1>1. Sub \in Nat \ {0} /\ Start \in Nat /\ Epoch \in Nat /\ Epoch > 2
  BY Constants, ProviderAssumption
<1>2. Sub * 3 <= Start /\ Sub * 3 = Sub + Sub + Sub
  BY <1>1, TicksMonotone DEF Start
<1>3. Sub * (s + 1) <= Start /\ Sub * (s + 1) = Sub * s + Sub /\ Sub * s \in Nat
  BY <1>1, TicksMonotone DEF Start
<1>4. ~(t - 0 \in 0 .. Sub - 1)
  BY <1>1, <1>2
<1>5. ~(t - 0 + Sub \in 0 .. Sub * s - 1)
  BY <1>1, <1>3
<1> QED
  BY <1>4, <1>5 DEF NotDueAt

\* How far a reading may be behind: no more than the period ...
LEMMA BehindInTicks ==
  ASSUME NEW a \in Nat, NEW b \in Nat, NEW s \in Nat \ {0}, NotDueAt(a, b, s)
  PROVE  b - a < Sub * s /\ Sub * s \in Nat
<1>1. Sub * 1 <= Sub * s /\ Sub * s \in Nat /\ Sub * 1 = Sub /\ Sub \in Nat \ {0}
  BY Constants, TicksMonotone
<1> QED
  BY <1>1 DEF NotDueAt

\* ... and in seconds one less.
LEMMA BehindInSeconds ==
  ASSUME NEW a \in Nat, NEW b \in Nat, NEW s \in Nat \ {0}, NotDueAt(a, b, s)
  PROVE  Secs(b) <= Secs(a) + s - 1
<1>1. CASE Secs(a) = Secs(b)
  BY <1>1, SecondsAndFraction
<1>2. CASE b - a + Sub \in 0 .. Sub * s - 1
  <2>1. Sub * (s - 1) = Sub * s - Sub /\ Sub * s \in Int /\ Sub \in Nat
    BY Constants
  <2>2. b <= a + Sub * (s - 1) /\ s - 1 \in Nat
    BY <1>2, <2>1
  <2>3. Secs(b) <= Secs(a) + (s - 1)
    BY <2>2, SecondsOrder
  <2>4. Secs(a) \in Nat /\ Secs(b) \in Nat
    BY SecondsAndFraction
  <2> QED BY <2>3, <2>4
<1> QED
  BY <1>1, <1>2 DEF NotDueAt

\* A module runs when a reading is gathered, and the reading is told later: together they
\* are no further behind than the period of the module.
LEMMA TwoPeriods ==
  ASSUME NEW a \in Nat, NEW b \in Nat, NEW c \in Nat, NEW s \in Nat \ {0}, FastIsShort,
         NotDueAt(a, b, s), NotDueAt(b, c, Fast)
  PROVE  /\ Secs(c) <= Secs(a) + s
         /\ Fast <= s => c - a <= Sub * s
<1>1. Fast \in Nat \ {0} /\ Sub \in Nat \ {0} /\ Fast <= 2
  BY Constants DEF FastIsShort
<1>2. Secs(c) <= Secs(a) + s
  <2>1. Secs(b) <= Secs(a) + s - 1 /\ Secs(c) <= Secs(b) + Fast - 1
    BY <1>1, BehindInSeconds
  <2>2. Secs(a) \in Nat /\ Secs(b) \in Nat /\ Secs(c) \in Nat
    BY SecondsAndFraction
  <2> QED BY <1>1, <2>1, <2>2
<1>3. ASSUME Fast <= s PROVE c - a <= Sub * s
  <2>1. Sub * 1 = Sub /\ Sub * 2 = Sub + Sub /\ Sub * s \in Nat /\ Sub * Fast \in Nat
    BY <1>1
  <2>2. Sub * 1 <= Sub * s /\ Sub * Fast <= Sub * s /\ Sub * Fast <= Sub * 2
    BY <1>1, <1>3, TicksMonotone
  <2>3. Sub <= Sub * s /\ Sub * Fast <= Sub * s /\ Sub * Fast <= Sub + Sub
    BY <2>1, <2>2
  <2>4. CASE Secs(a) = Secs(b) /\ b - a \in 0 .. Sub - 1 /\ Secs(b) = Secs(c)
    <3>1. /\ Secs(a) \in Nat /\ Frac(a) \in 0 .. Sub - 1 /\ a = Sub * Secs(a) + Frac(a)
          /\ Frac(c) \in 0 .. Sub - 1 /\ c = Sub * Secs(a) + Frac(c)
      BY <2>4, SecondsAndFraction
    <3>2. Sub * Secs(a) \in Int
      BY <1>1, <3>1
    <3> QED BY <1>1, <2>1, <2>3, <3>1, <3>2
  <2>5. CASE Secs(a) = Secs(b) /\ b - a \in 0 .. Sub - 1 /\ c - b + Sub \in 0 .. Sub * Fast - 1
    <3>1. CASE Fast = 1
      BY <1>1, <2>1, <2>3, <2>5, <3>1
    <3>2. CASE Fast = 2
      <4>1. Sub + Sub <= Sub * s
        BY <2>1, <2>2, <3>2
      <4> QED BY <1>1, <2>1, <2>3, <2>5, <4>1
    <3> QED BY <1>1, <3>1, <3>2
  <2>6. CASE b - a + Sub \in 0 .. Sub * s - 1
    <3>1. c - b <= Sub
      BY <1>1, <2>1, <2>3 DEF NotDueAt
    <3> QED BY <1>1, <2>1, <2>6, <3>1
  <2> QED BY <1>1, <2>4, <2>5, <2>6 DEF NotDueAt
<1> QED
  BY <1>2, <1>3

\* What was gathered at real time r lies back in real time by no more than the clock shows,
\* and by what it was set back.
LEMMA RealAge ==
  ASSUME HostOK, NEW t \in Int, NEW r, Gathered(t, r)
  PROVE  /\ r \in Nat /\ rt \in Nat /\ clock \in Nat /\ setBack \in Nat /\ t \in Nat
         /\ rt - r <= clock - t + setBack
         /\ t <= clock + setBack
         /\ t >= Start - Sub - 1
<1>1. /\ rt \in Nat /\ setBack \in 0 .. Sub + 1 /\ clock = Start + rt - setBack
      /\ Start \in Nat /\ Sub \in Nat /\ MaxTime \in Nat /\ r \in Nat /\ r <= rt
  BY Constants DEF HostOK, Gathered, GatheredBy
<1>2. Start >= Sub + 1
  <2>1. Sub * 2 <= Start /\ Sub * 2 = Sub + Sub /\ Sub >= 1
    BY Constants, ProviderAssumption, TicksMonotone DEF Start
  <2> QED BY <1>1, <2>1
<1> QED
  BY <1>1, <1>2 DEF Gathered, GatheredBy

\* A time of the clock is within bounds.
LEMMA ClockInTimes ==
  ASSUME HostOK
  PROVE  clock \in Times /\ clock \in Nat /\ clock >= Start - Sub - 1 /\ clock # 0
         /\ Gathered(clock, rt) /\ rt \in 0 .. rt
<1>1. /\ rt \in 0 .. MaxTime /\ setBack \in 0 .. Sub + 1 /\ clock = Start + rt - setBack
      /\ Start \in Nat /\ Sub \in Nat /\ MaxTime \in Nat /\ Times = 0 .. Start + MaxTime
  BY Constants DEF HostOK, Times, Start
<1>2. Start > Sub + 1
  <2>1. Sub * 3 <= Start /\ Sub * 3 = Sub + Sub + Sub /\ Sub >= 1
    BY Constants, ProviderAssumption, TicksMonotone DEF Start
  <2> QED BY <1>1, <2>1
<1> QED
  BY <1>1, <1>2 DEF Gathered, GatheredBy

-----------------------------------------------------------------------------
(***************************************************************************)
(* What the invariant says of what is told.                                *)
(***************************************************************************)

\* A reading that is told of is there, and it, the modules and the file are as current as
\* their periods make them.
LEMMA WhenTold ==
  ASSUME IInv, turn = "told", told # Nothing
  PROVE  /\ p.status /\ told = Report
         /\ Gathered(p.lastFast, p.reading) /\ NotDueAt(p.lastFast, clock, Fast)
         /\ NotDueAt(p.lastSlow, clock, Slow)
         /\ p.lastFast \in Nat /\ p.lastSlow \in Nat
<1>1. told = Report /\ p \in ProviderState
  BY DEF IInv, LoopOK, ToldOK
<1>2. p.status
  BY <1>1 DEF Report
<1>3. Times \subseteq Nat /\ p.lastFast \in Times /\ p.lastSlow \in Times
  BY <1>1 DEF ProviderState, Times
<1>4. /\ Gathered(p.lastFast, p.reading) /\ NotDueAt(p.lastFast, clock, Fast)
      /\ NotDueAt(p.lastSlow, clock, Slow)
  BY <1>2 DEF IInv, LoopOK
<1> QED
  BY <1>1, <1>2, <1>3, <1>4

\* The two modules that matter have run.
LEMMA ModulesRan ==
  ASSUME IInv, turn = "told", told # Nothing
  PROVE  /\ pims.last["top"] \in Nat /\ pims.last["infod-debug"] \in Nat
         /\ Gathered(pims.last["top"], top.scanned)
         /\ NotDueAt(pims.last["top"], p.lastFast, TopPeriod)
         /\ pims.debug = Secs(pims.last["infod-debug"]) - Epoch
         /\ \E r : Gathered(pims.last["infod-debug"], r)
         /\ NotDueAt(pims.last["infod-debug"], p.lastFast, PimPeriod)
<1>1. /\ p.status /\ Gathered(p.lastFast, p.reading) /\ p.lastFast \in Nat
  BY WhenTold
<1>2. p.lastFast >= Start - Sub - 1
  BY <1>1, RealAge DEF IInv
<1>3. /\ NotDueAt(pims.last["infod-debug"], p.lastFast, PimPeriod)
      /\ NotDueAt(pims.last["top"], p.lastFast, TopPeriod)
  BY <1>1 DEF IInv, ModulesOK
<1>4. pims.last \in [Modules -> Times] /\ "top" \in Modules /\ "infod-debug" \in Modules
  BY Constants DEF IInv, ModulesOK, PimsState, pim_arr
<1>5. pims.last["top"] \in Nat /\ pims.last["infod-debug"] \in Nat
  BY <1>4 DEF Times
<1>6. pims.last["infod-debug"] # 0 /\ pims.last["top"] # 0
  <2>1. PimPeriod \in Nat /\ PimPeriod < Epoch /\ TopPeriod \in Nat /\ TopPeriod < Epoch
    BY Constants, ProviderAssumption
  <2> QED BY <1>1, <1>2, <1>3, <2>1, NeverBegun
<1> QED
  BY <1>3, <1>5, <1>6 DEF IInv, ModulesOK

\* What is told of an external file that was left alone.
LEMMA ExternalTold ==
  ASSUME IInv, turn = "told", told # Nothing, rt - file.at > Sub * Slow + setBack
  PROVE  told.external = TrueExternal /\ (file.kind = Text => told.content = file.at)
<1>1. /\ p.status /\ told = Report /\ NotDueAt(p.lastSlow, clock, Slow) /\ p.lastSlow \in Nat
  BY WhenTold
<1>2. Slow \in Nat \ {0} /\ Slow < Epoch
  BY Constants, ProviderAssumption
<1>3. clock \in Nat /\ clock >= Start - Sub - 1
  BY ClockInTimes DEF IInv
<1>4. p.lastSlow # 0
  BY <1>1, <1>2, <1>3, NeverBegun
<1>5. PICK r \in 0 .. rt :
        /\ Gathered(p.lastSlow, r)
        /\ file.at < r => Shows(p.ext, file)
  BY <1>4 DEF IInv, ExternalOK
<1>6. /\ rt - r <= clock - p.lastSlow + setBack /\ rt \in Nat /\ setBack \in Nat /\ r \in Nat
  BY <1>1, <1>5, RealAge DEF IInv
<1>7. clock - p.lastSlow < Sub * Slow /\ Sub * Slow \in Nat
  BY <1>1, <1>2, <1>3, BehindInTicks
<1>8. file.at \in Nat /\ file.kind \in {Absent, Empty, Text}
  BY DEF IInv, HostOK, File
<1>9. Shows(p.ext, file)
  BY <1>1, <1>3, <1>5, <1>6, <1>7, <1>8
<1>10. /\ told.content = p.ext.at
       /\ told.external = CASE p.ext.status = "ok" -> Secs(clock) - p.ext.mtime
                            [] p.ext.status = "empty" -> EMPTY
                            [] p.ext.status = "error" -> ERROR
                            [] p.ext.status = "no info" -> NO_INFO
  BY <1>1 DEF Report
<1>11. CASE file.kind = Text
  BY <1>9, <1>10, <1>11 DEF Shows, TrueExternal, Text, Empty, Absent
<1>12. CASE file.kind = Empty
  BY <1>9, <1>10, <1>12 DEF Shows, TrueExternal, Text, Empty, Absent
<1>13. CASE file.kind = Absent
  BY <1>9, <1>10, <1>13 DEF Shows, TrueExternal, Text, Empty, Absent
<1> QED
  BY <1>8, <1>11, <1>12, <1>13

\* The invariant implies that what is told is current.
LEMMA CurrentIsImplied ==
  ASSUME IInv, FastIsShort
  PROVE  ToldCurrent
<1> SUFFICES ASSUME turn = "told", told # Nothing
             PROVE  /\ rt - told.reading <= Sub * Fast + setBack
                    /\ rt - told.scanned <= Sub * TopPeriod + setBack
                    /\ rt - file.at > Sub * Slow + setBack =>
                         /\ told.external = TrueExternal
                         /\ file.kind = Text => told.content = file.at
  BY DEF ToldCurrent
<1>1. /\ p.status /\ told = Report
      /\ Gathered(p.lastFast, p.reading) /\ NotDueAt(p.lastFast, clock, Fast)
      /\ p.lastFast \in Nat
  BY WhenTold
<1>2. told.reading = p.reading /\ told.scanned = top.scanned
  BY <1>1 DEF Report
<1>3. /\ Fast \in Nat \ {0} /\ TopPeriod \in Nat \ {0} /\ Fast <= TopPeriod
  BY Constants DEF FastIsShort
<1>4. clock \in Nat /\ rt \in Nat /\ setBack \in Nat
  BY <1>1, RealAge DEF IInv
<1>5. rt - told.reading <= Sub * Fast + setBack
  <2>1. p.reading \in Nat /\ rt - p.reading <= clock - p.lastFast + setBack
    BY <1>1, RealAge DEF IInv
  <2>2. clock - p.lastFast < Sub * Fast /\ Sub * Fast \in Nat
    BY <1>1, <1>3, <1>4, BehindInTicks
  <2> QED BY <1>1, <1>2, <1>4, <2>1, <2>2
<1>6. rt - told.scanned <= Sub * TopPeriod + setBack
  <2>1. /\ pims.last["top"] \in Nat /\ Gathered(pims.last["top"], top.scanned)
        /\ NotDueAt(pims.last["top"], p.lastFast, TopPeriod)
    BY ModulesRan
  <2>2. top.scanned \in Nat /\ rt - top.scanned <= clock - pims.last["top"] + setBack
    BY <2>1, RealAge DEF IInv
  <2>3. clock - pims.last["top"] <= Sub * TopPeriod
    BY <1>1, <1>3, <1>4, <2>1, TwoPeriods
  <2>4. Sub * TopPeriod \in Nat
    BY Constants
  <2> QED BY <1>2, <1>4, <2>1, <2>2, <2>3, <2>4
<1> QED
  BY <1>5, <1>6, ExternalTold

\* And that the built-in modules tell what their files say.
LEMMA PackedIsImplied ==
  ASSUME IInv, FastIsShort
  PROVE  PackedTrue
<1> SUFFICES ASSUME turn = "told", told # Nothing
             PROVE  /\ since >= FrzReload => told.items.freeze.dirs = Read(conf)
                    /\ since > MapReload => told.items.usedby.map = Read(conf)
                    /\ since >= CrcReload => told.items.crc = Read(conf)
                    /\ told.items.freeze.status = "error" => told.items.freeze.dirs = Unread
                    /\ Secs(clock) - Epoch - told.items.debug \in -setBack .. PimPeriod
  BY DEF PackedTrue
<1>1. /\ p.status /\ told = Report /\ p.lastFast \in Nat /\ NotDueAt(p.lastFast, clock, Fast)
  BY WhenTold
<1>2. /\ told.items.freeze.dirs = pims.freeze.dirs
      /\ told.items.freeze.status = pims.freeze.status
      /\ told.items.usedby.map = pims.usedby.map
      /\ told.items.crc = pims.crc.crc /\ told.items.debug = pims.debug
  BY <1>1 DEF Report, pim_packInfo, frzinfo_pim_get, usedby_pim_get, cidcrc_pim_get, idbg_pim_get
<1>3. /\ pims.freeze.cycle \in -1 .. FrzReload - 1 /\ pims.usedby.cycle \in 0 .. MapReload
      /\ since \in Nat
  BY DEF IInv, HostOK, ModulesOK, PimsState
<1>4. since >= FrzReload => pims.freeze.dirs = Read(conf)
  BY <1>3, Constants DEF IInv, ReloadOK, FreezeOK
<1>5. since > MapReload => pims.usedby.map = Read(conf)
  BY <1>3, Constants DEF IInv, ReloadOK, UsedbyOK
<1>6. since >= CrcReload => pims.crc.crc = Read(conf)
  BY <1>3, Constants DEF IInv, ReloadOK, CrcOK
<1>7. pims.freeze.status = "error" => pims.freeze.dirs = Unread
  BY DEF IInv, ReloadOK, FreezeOK
<1>8. Secs(clock) - Epoch - pims.debug \in -setBack .. PimPeriod
  <2>1. PICK r : Gathered(pims.last["infod-debug"], r)
    BY ModulesRan
  <2>2. /\ pims.last["infod-debug"] \in Nat
        /\ NotDueAt(pims.last["infod-debug"], p.lastFast, PimPeriod)
        /\ pims.debug = Secs(pims.last["infod-debug"]) - Epoch
    BY ModulesRan
  <2>3. /\ clock \in Nat /\ setBack \in Nat /\ pims.last["infod-debug"] <= clock + setBack
    BY <2>1, <2>2, RealAge DEF IInv
  <2>4. Secs(pims.last["infod-debug"]) <= Secs(clock) + setBack
    BY <2>2, <2>3, SecondsNoFaster
  <2>5. Secs(clock) <= Secs(pims.last["infod-debug"]) + PimPeriod
    BY <1>1, <2>2, <2>3, Constants, TwoPeriods
  <2>6. Secs(clock) \in Nat /\ Secs(pims.last["infod-debug"]) \in Nat /\ Epoch \in Nat
    BY <2>2, <2>3, SecondsAndFraction, Constants
  <2> QED BY <2>2, <2>3, <2>4, <2>5, <2>6, Constants
<1> QED
  BY <1>2, <1>4, <1>5, <1>6, <1>7, <1>8

\* Every state of the invariant has its types.
LEMMA TypesAreImplied == IInv => TypeOK
<1> SUFFICES ASSUME IInv PROVE TypeOK
  OBVIOUS
<1>1. /\ rt \in 0 .. MaxTime /\ clock \in Times /\ setBack \in Nat /\ events \in 0 .. MaxEvents
  <2>1. Sub \in Nat
    BY Constants
  <2> QED BY <2>1, ClockInTimes DEF IInv, HostOK
<1>2. /\ file \in File /\ opened \in File \cup {Nothing} /\ sysOk \in BOOLEAN
      /\ proc \in [Pids -> [run : BOOLEAN, utime : Nat]]
      /\ work \in [Pids -> Nat] /\ steady \subseteq Pids
      /\ conf \in [at : 0 .. MaxTime, good : BOOLEAN]
  BY DEF IInv, HostOK
<1>3. since \in Nat
  BY Constants DEF IInv, HostOK
<1>4. p \in ProviderState /\ turn \in {"admin", "stat", "fast", "step", "told"}
  BY DEF IInv, LoopOK
<1>5. top \in TopState
  BY DEF IInv, TopOK
<1>6. pims.last \in [Modules -> Times]
  BY DEF IInv, ModulesOK, PimsState
<1> QED
  BY <1>1, <1>2, <1>3, <1>4, <1>5, <1>6 DEF TypeOK, ProviderState, TopState

-----------------------------------------------------------------------------
(***************************************************************************)
(* The initial states, and the steps of the host.                          *)
(***************************************************************************)

\* Nothing is known at the start, and the partners are read.
LEMMA InitOK == Init => IInv
<1> SUFFICES ASSUME Init PROVE IInv
  OBVIOUS
<1>1. /\ rt = 0 /\ clock = Start /\ setBack = 0 /\ events = 0 /\ opened = Nothing /\ sysOk = TRUE
      /\ file \in [kind : {Absent, Empty, Text}, at : {0}, mtime : {Epoch}]
      /\ proc = [i \in Pids |-> [run |-> TRUE, utime |-> 0]]
      /\ work = [i \in Pids |-> 0] /\ steady = {}
      /\ p = [status |-> FALSE, reading |-> 0,
              ext |-> [status |-> "no info", at |-> 0, mtime |-> 0],
              lastSlow |-> 0, lastFast |-> 0]
      /\ conf = [at |-> 0, good |-> TRUE] /\ since = 0 /\ turn = "admin" /\ told = Nothing
      /\ pims = pim_init(conf) /\ top = Init_top
  BY DEF Init, Start
<1>2. 0 \in 0 .. MaxTime /\ 0 \in 0 .. MaxEvents /\ 0 \in Times /\ 0 \in 0 .. Sub + 1
      /\ 0 \in Nat /\ 0 \in 0 .. MapReload /\ Epoch \in Int
      /\ -1 \in -1 .. FrzReload - 1 /\ -1 \in -1 .. MaxTime
  BY Constants DEF Times, Start
<1>3. HostOK
  <2>1. file \in File
    BY <1>1, <1>2 DEF File
  <2>2. \A i \in Pids : proc[i].utime <= rt
    <3>1. rt = 0 /\ \A i \in Pids : proc[i].utime = 0
      BY <1>1, Zenon
    <3> QED BY <3>1
  <2>3. clock = Start + rt - setBack
    <3>1. rt = 0 /\ setBack = 0 /\ clock = Start /\ Start \in Nat
      BY <1>1, Constants
    <3> QED BY <3>1
  <2> QED BY <1>1, <1>2, <2>1, <2>2, <2>3 DEF HostOK
<1>4. LoopOK
  <2>1. [status |-> "no info", at |-> 0, mtime |-> 0] \in External
    BY <1>2 DEF External
  <2>2. p \in ProviderState /\ p.status = FALSE
    BY <1>1, <1>2, <2>1 DEF ProviderState
  <2>3. turn = "admin"
    BY <1>1
  <2> QED BY <2>2, <2>3 DEF LoopOK
<1>5. ExternalOK
  BY <1>1 DEF ExternalOK
<1>6. /\ pims.last = [m \in Modules |-> 0] /\ pims.freeze = frzinfo_pim_init
      /\ pims.usedby = [status |-> "init", cycle |-> 0, map |-> 0]
      /\ pims.crc = [counter |-> 0, crc |-> Unread] /\ pims.watch = [size |-> 0] /\ pims.debug = 0
  BY <1>1 DEF pim_init, usedby_pim_init, cidcrc_pim_init, procwatch_pim_init, Read
<1>7. pims \in PimsState
  <2>1. frzinfo_pim_init \in [status : {"init", "ok", "error"}, cycle : -1 .. FrzReload - 1, dirs : Made]
    BY <1>2 DEF frzinfo_pim_init, Made
  <2>2. usedby_pim_init(conf) \in [status : {"init", "ok"}, cycle : 0 .. MapReload, map : Made]
    BY <1>1, <1>2 DEF usedby_pim_init, Made, Read
  <2>3. cidcrc_pim_init \in [counter : Nat, crc : Made] /\ procwatch_pim_init \in [size : {0}]
    BY DEF cidcrc_pim_init, procwatch_pim_init, Made
  <2>4. [m \in Modules |-> 0] \in [Modules -> Times]
    BY <1>2
  <2>5. pims = pim_init(conf)
    BY <1>1, Zenon
  <2>6. 0 \in Int
    OBVIOUS
  <2> QED BY <2>6, <2>1, <2>2, <2>3, <2>4, <2>5, Zenon DEF pim_init, PimsState
<1>8. ModulesOK
  <2>1. "top" \in Modules /\ "infod-debug" \in Modules /\ pim_arr \subseteq Modules
    BY Constants DEF pim_arr
  <2> QED BY <1>1, <1>6, <1>7, <2>1 DEF ModulesOK
<1>9. ReloadOK
  <2>1. FreezeOK
    <3>1. since = 0 /\ pims.freeze = frzinfo_pim_init
      BY <1>1, <1>6
    <3> QED BY <3>1 DEF FreezeOK, frzinfo_pim_init
  <2>2. UsedbyOK
    <3>1. since = 0
      BY <1>1, Zenon
    <3>2. pims.usedby.cycle = 0
      BY <1>6
    <3> QED BY <3>1, <3>2 DEF UsedbyOK
  <2>3. CrcOK
    <3>1. since = 0 /\ CrcReload \in Nat \ {0}
      BY <1>1, Constants
    <3>2. pims.crc.counter = 0
      BY <1>6
    <3>3. 0 % CrcReload = 0
      BY <3>1
    <3> QED BY <3>1, <3>2, <3>3 DEF CrcOK
  <2> QED BY <2>1, <2>2, <2>3 DEF ReloadOK
<1>10. TopOK
  <2>1. /\ top = Init_top /\ rt = 0 /\ steady = {}
        /\ 0 \in 0 .. MaxTime /\ 0 \in Times /\ -1 \in -1 .. MaxTime /\ Nines \subseteq Pids
    BY <1>1, <1>2, Constants, Zenon
  <2> QED BY <2>1 DEF TopOK, TopState, Init_top, NotThere
<1> QED
  BY <1>1, <1>3, <1>4, <1>5, <1>8, <1>9, <1>10 DEF IInv, ToldOK

\* What was gathered stays so while time passes and when the clock is set back, which
\* happens once.
LEMMA GatheredStays ==
  ASSUME NEW t, NEW r, NEW now \in Int, NEW later \in Int, NEW back, NEW b,
         now <= later, b = back \/ back = 0, GatheredBy(t, r, now, back)
  PROVE  GatheredBy(t, r, later, b) /\ r \in 0 .. later
<1>1. r \in Int /\ Start + r - 0 = Start + r
  BY Constants DEF GatheredBy
<1> QED
  BY <1>1 DEF GatheredBy

\* What the host does leaves what the loop knows as true as it was.
LEMMA LoopKept ==
  ASSUME IInv, UNCHANGED loop, turn \in {"admin", "stat"}, rt' \in Nat, rt <= rt',
         setBack' = setBack \/ setBack = 0, turn = "admin" \/ clock' = clock
  PROVE  /\ LoopOK' /\ ModulesOK' /\ ToldOK'
         /\ file' = file /\ opened' = opened => ExternalOK'
<1>1. /\ p' = p /\ pims' = pims /\ top' = top /\ turn' = turn /\ told' = told
      /\ rt \in Int /\ rt' \in Int
  BY DEF loop, IInv, HostOK
<1>2. \A t, r : Gathered(t, r) =>
        /\ GatheredBy(t, r, rt', setBack') /\ r \in 0 .. rt'
  BY <1>1, GatheredStays DEF Gathered
<1>3. LoopOK'
  BY <1>1, <1>2 DEF IInv, LoopOK, Gathered
<1>4. ModulesOK'
  BY <1>1, <1>2 DEF IInv, ModulesOK, Gathered
<1>5. ToldOK'
  BY <1>1 DEF ToldOK
<1>6. ASSUME file' = file, opened' = opened PROVE ExternalOK'
  <2> SUFFICES ASSUME p.lastSlow # 0
               PROVE  \E r \in 0 .. rt' :
                        /\ GatheredBy(p.lastSlow, r, rt', setBack')
                        /\ file.at < r => IF turn = "stat" THEN opened = file /\ file.kind # Absent ELSE Shows(p.ext, file)
    BY <1>1, <1>6 DEF ExternalOK, Gathered
  <2>1. PICK r \in 0 .. rt :
          /\ Gathered(p.lastSlow, r)
          /\ file.at < r => IF turn = "stat" THEN opened = file /\ file.kind # Absent ELSE Shows(p.ext, file)
    BY DEF IInv, ExternalOK
  <2> QED BY <1>2, <2>1
<1> QED
  BY <1>3, <1>4, <1>5, <1>6

\* The reloads depend on the configuration and the runs since it changed alone, the table of
\* processes on these.
LEMMA ModulesKept ==
  ASSUME IInv, UNCHANGED loop
  PROVE  /\ UNCHANGED <<conf, since>> => ReloadOK'
         /\ UNCHANGED <<rt, proc, work, steady>> => TopOK'
<1>1. p' = p /\ pims' = pims /\ top' = top
  BY DEF loop
<1>2. UNCHANGED <<conf, since>> => ReloadOK'
  BY <1>1 DEF IInv, ReloadOK, FreezeOK, UsedbyOK, CrcOK
<1>3. UNCHANGED <<rt, proc, work, steady>> => TopOK'
  BY <1>1 DEF IInv, TopOK
<1> QED
  BY <1>2, <1>3

\* Time passes, and processes that are read use the processor.
LEMMA TickOK == IInv /\ Tick => IInv'
<1> SUFFICES ASSUME IInv, Tick PROVE IInv'
  OBVIOUS
<1>1. /\ turn = "admin" /\ rt < MaxTime /\ rt' = rt + 1 /\ clock' = clock + 1 /\ UNCHANGED loop
      /\ UNCHANGED <<setBack, events, file, opened, conf, sysOk, steady, since>>
      /\ turn' = turn
  BY DEF Tick, Idle, loop
<1>2. PICK S \in SUBSET Seen :
        /\ proc' = [i \in Pids |-> IF i \in S THEN [proc[i] EXCEPT !.utime = @ + 1] ELSE proc[i]]
        /\ work' = [i \in Pids |-> IF i \in S THEN work[i] + 1 ELSE work[i]]
  BY DEF Tick
<1>3. /\ rt \in 0 .. MaxTime /\ MaxTime \in Nat /\ rt' \in 0 .. MaxTime /\ rt' \in Nat /\ rt <= rt'
  BY <1>1, Constants DEF IInv, HostOK
<1>4. LoopOK' /\ ModulesOK' /\ ToldOK' /\ ExternalOK'
  BY <1>1, <1>3, LoopKept
<1>5. ReloadOK'
  BY <1>1, ModulesKept
<1>6. /\ proc \in [Pids -> [run : BOOLEAN, utime : Nat]] /\ work \in [Pids -> Nat]
      /\ \A i \in Pids : proc[i].utime <= rt
      /\ steady \subseteq Pids
  BY DEF IInv, HostOK
<1>7. \A i \in Pids :
        /\ proc[i] \in [run : BOOLEAN, utime : Nat] /\ proc'[i] \in [run : BOOLEAN, utime : Nat]
        /\ proc'[i].run = proc[i].run
        /\ proc'[i].utime = (IF i \in S THEN proc[i].utime + 1 ELSE proc[i].utime)
        /\ work'[i] = (IF i \in S THEN work[i] + 1 ELSE work[i])
        /\ work[i] \in Nat /\ work'[i] \in Nat
  <2> SUFFICES ASSUME NEW i \in Pids
               PROVE  /\ proc[i] \in [run : BOOLEAN, utime : Nat]
                      /\ proc'[i] \in [run : BOOLEAN, utime : Nat]
                      /\ proc'[i].run = proc[i].run
                      /\ proc'[i].utime = (IF i \in S THEN proc[i].utime + 1 ELSE proc[i].utime)
                      /\ work'[i] = (IF i \in S THEN work[i] + 1 ELSE work[i])
                      /\ work[i] \in Nat /\ work'[i] \in Nat
    OBVIOUS
  <2>1. proc[i] \in [run : BOOLEAN, utime : Nat] /\ work[i] \in Nat
    BY <1>6
  <2>2. work'[i] = (IF i \in S THEN work[i] + 1 ELSE work[i])
    BY <1>2
  <2>3. proc'[i] = IF i \in S THEN [proc[i] EXCEPT !.utime = @ + 1] ELSE proc[i]
    BY <1>2, Zenon
  <2> QED BY <2>1, <2>2, <2>3
<1>8. proc' \in [Pids -> [run : BOOLEAN, utime : Nat]] /\ work' \in [Pids -> Nat]
  <2>1. /\ \E f : proc' = [i \in Pids |-> f[i]]
        /\ \E f : work' = [i \in Pids |-> f[i]]
    <3> DEFINE f == [i \in Pids |-> IF i \in S THEN [proc[i] EXCEPT !.utime = @ + 1] ELSE proc[i]]
               g == [i \in Pids |-> IF i \in S THEN work[i] + 1 ELSE work[i]]
    <3>1. f = [i \in Pids |-> f[i]] /\ g = [i \in Pids |-> g[i]] /\ proc' = f /\ work' = g
      BY <1>2, Zenon
    <3> HIDE DEF f, g
    <3> QED BY <3>1
  <2> QED BY <1>7, <2>1, Zenon
<1>9. HostOK'
  <2>1. \A i \in Pids : proc'[i].utime <= rt'
    BY <1>1, <1>3, <1>6, <1>7
  <2>2. clock' = Start + rt' - setBack'
    <3>1. clock = Start + rt - setBack /\ setBack \in Int /\ Start \in Nat
      BY Constants DEF IInv, HostOK
    <3> QED BY <1>1, <1>3, <3>1
  <2>3. /\ setBack \in 0 .. Sub + 1 /\ events \in 0 .. MaxEvents /\ sysOk \in BOOLEAN
        /\ file \in File /\ opened \in File \cup {Nothing} /\ (turn = "stat" => opened \in File)
        /\ conf \in [at : 0 .. MaxTime, good : BOOLEAN] /\ since \in Nat
    BY DEF IInv, HostOK
  <2> QED BY <1>1, <1>3, <1>6, <1>8, <2>1, <2>2, <2>3 DEF HostOK
<1>10. TopOK'
  <2>1. top' = top /\ pims' = pims /\ steady' = steady
    BY <1>1 DEF loop
  <2>0. top.scanned <= rt'
    <3>1. top.scanned <= rt /\ top.scanned \in Int
      BY Constants DEF IInv, TopOK, TopState
    <3> QED BY <1>1, <1>3, <3>1
  <2> SUFFICES ASSUME NEW i \in steady \ Nines
               PROVE  /\ proc'[i].run /\ work'[i] <= proc'[i].utime
                      /\ proc'[i].utime - work'[i] = proc[i].utime - work[i]
    BY <2>0, <2>1 DEF IInv, TopOK
  <2>2. proc[i].run /\ work[i] <= proc[i].utime /\ i \in Pids /\ proc[i].utime \in Nat
    BY <1>6 DEF IInv, TopOK
  <2>3. proc'[i].run
    BY <1>7, <2>2
  <2> QED BY <1>7, <2>2, <2>3
<1> QED
  BY <1>4, <1>5, <1>9, <1>10 DEF IInv

\* What happens on the host but for the processes.
LEMMA HostKept ==
  ASSUME IInv, UNCHANGED <<rt, proc, work, steady, loop>>,
         events' \in 0 .. MaxEvents, sysOk' \in BOOLEAN, setBack' \in 0 .. Sub + 1,
         clock' = Start + rt - setBack', file' \in File, opened' \in File \cup {Nothing},
         turn = "stat" => opened' \in File,
         conf' \in [at : 0 .. MaxTime, good : BOOLEAN], since' \in Nat
  PROVE  HostOK'
BY DEF IInv, HostOK, loop

\* One more event is within its bound.
LEMMA EventCounted == IInv /\ Event => events' \in 0 .. MaxEvents
BY Constants DEF IInv, HostOK, Event

\* The clock is set back, once.
LEMMA SetClockBackOK ==
  ASSUME IInv, NEW t \in 1 .. Sub + 1, SetClockBack(t)
  PROVE  IInv'
<1>1. /\ turn = "admin" /\ setBack = 0 /\ clock' = clock - t /\ setBack' = t /\ UNCHANGED loop
      /\ UNCHANGED <<rt, file, opened, conf, sysOk, proc, work, steady, since>>
      /\ events' \in 0 .. MaxEvents
  BY EventCounted DEF SetClockBack, Idle
<1>2. /\ rt \in Nat /\ clock = Start + rt - 0 /\ Start \in Nat /\ t \in Nat /\ t \in 0 .. Sub + 1
  BY <1>1, Constants DEF IInv, HostOK
<1>3. clock' = Start + rt - setBack'
  BY <1>1, <1>2
<1>4. /\ sysOk \in BOOLEAN /\ file \in File /\ opened \in File \cup {Nothing}
      /\ conf \in [at : 0 .. MaxTime, good : BOOLEAN] /\ since \in Nat
  BY DEF IInv, HostOK
<1>5. HostOK'
  BY <1>1, <1>2, <1>3, <1>4, HostKept
<1>6. LoopOK' /\ ModulesOK' /\ ToldOK' /\ ExternalOK'
  BY <1>1, <1>2, LoopKept
<1> QED
  BY <1>1, <1>5, <1>6, ModulesKept DEF IInv

\* The file changes: what is known of it need no longer be so, the time of the change being
\* no earlier than anything that was gathered.
LEMMA ChangeFileOK ==
  ASSUME IInv, NEW kind \in {Absent, Empty, Text}, NEW inPlace \in BOOLEAN,
         ChangeFile(kind, inPlace)
  PROVE  IInv'
<1>1. /\ turn \in {"admin", "stat"} /\ UNCHANGED loop /\ turn' = turn /\ p' = p
      /\ file' = [kind |-> kind, at |-> rt, mtime |-> Secs(clock)]
      /\ opened' = IF inPlace THEN [opened EXCEPT !.mtime = Secs(clock)] ELSE opened
      /\ inPlace => file = opened
      /\ UNCHANGED <<rt, clock, setBack, conf, sysOk, proc, work, steady, since>>
      /\ events' \in 0 .. MaxEvents
  BY EventCounted DEF ChangeFile, loop
<1>2. /\ rt \in 0 .. MaxTime /\ rt \in Nat /\ clock = Start + rt - setBack
      /\ sysOk \in BOOLEAN /\ file \in File /\ opened \in File \cup {Nothing}
      /\ turn = "stat" => opened \in File
      /\ setBack \in 0 .. Sub + 1
      /\ conf \in [at : 0 .. MaxTime, good : BOOLEAN] /\ since \in Nat
  BY Constants DEF IInv, HostOK
<1>3. Secs(clock) \in Int
  BY ClockInTimes, SecondsAndFraction DEF IInv
<1>4. file' \in File
  BY <1>1, <1>2, <1>3 DEF File
<1>5. opened' \in File \cup {Nothing} /\ (turn = "stat" => opened' \in File)
  <2>1. CASE inPlace
    <3>1. opened \in File /\ opened' = [opened EXCEPT !.mtime = Secs(clock)]
      BY <1>1, <1>2, <2>1
    <3> QED BY <1>3, <3>1 DEF File
  <2>2. CASE ~inPlace
    BY <1>1, <1>2, <2>2
  <2> QED BY <2>1, <2>2
<1>6. HostOK'
  BY <1>1, <1>2, <1>4, <1>5, HostKept
<1>7. LoopOK' /\ ModulesOK' /\ ToldOK'
  BY <1>1, <1>2, LoopKept
<1>8. ExternalOK'
  <2>1. file'.at = rt /\ rt' = rt /\ setBack' = setBack /\ p' = p
    BY <1>1
  <2>2. p.lastSlow # 0 => \E r \in 0 .. rt : Gathered(p.lastSlow, r)
    BY DEF IInv, ExternalOK
  <2>3. \A r \in 0 .. rt : ~(rt < r)
    BY <1>2
  <2> QED BY <2>1, <2>2, <2>3 DEF ExternalOK, Gathered
<1> QED
  BY <1>1, <1>6, <1>7, <1>8, ModulesKept DEF IInv

\* The system's own file becomes unreadable, or readable again.
LEMMA SystemChangesOK ==
  ASSUME IInv, SystemChanges
  PROVE  IInv'
<1>1. /\ turn = "admin" /\ UNCHANGED loop /\ sysOk' = ~sysOk
      /\ UNCHANGED <<rt, clock, setBack, file, opened, conf, proc, work, steady, since>>
      /\ events' \in 0 .. MaxEvents
  BY EventCounted DEF SystemChanges, Idle
<1>2. /\ rt \in Nat /\ clock = Start + rt - setBack
      /\ file \in File /\ opened \in File \cup {Nothing} /\ setBack \in 0 .. Sub + 1
      /\ conf \in [at : 0 .. MaxTime, good : BOOLEAN] /\ since \in Nat
  BY Constants DEF IInv, HostOK
<1>3. HostOK'
  BY <1>1, <1>2, HostKept
<1>4. LoopOK' /\ ModulesOK' /\ ToldOK' /\ ExternalOK'
  BY <1>1, <1>2, LoopKept
<1> QED
  BY <1>1, <1>3, <1>4, ModulesKept DEF IInv

\* The configuration is written anew: no module has run since.
LEMMA ConfChangesOK ==
  ASSUME IInv, ConfChanges
  PROVE  IInv'
<1>1. /\ turn = "admin" /\ UNCHANGED loop /\ pims' = pims
      /\ conf' = [at |-> rt, good |-> ~conf.good] /\ since' = 0
      /\ UNCHANGED <<rt, clock, setBack, file, opened, sysOk, proc, work, steady>>
      /\ events' \in 0 .. MaxEvents
  BY EventCounted DEF ConfChanges, Idle, loop
<1>2. /\ rt \in 0 .. MaxTime /\ rt \in Nat /\ clock = Start + rt - setBack /\ sysOk \in BOOLEAN
      /\ file \in File /\ opened \in File \cup {Nothing} /\ setBack \in 0 .. Sub + 1
      /\ 0 \in Nat
  BY Constants DEF IInv, HostOK
<1>3. conf' \in [at : 0 .. MaxTime, good : BOOLEAN]
  BY <1>1, <1>2
<1>4. HostOK'
  BY <1>1, <1>2, <1>3, HostKept
<1>5. LoopOK' /\ ModulesOK' /\ ToldOK' /\ ExternalOK'
  BY <1>1, <1>2, LoopKept
<1>6. ReloadOK'
  <2>1. FreezeOK'
    BY <1>1 DEF IInv, ReloadOK, FreezeOK
  <2>2. UsedbyOK'
    <3>1. pims.usedby.cycle \in 0 .. MapReload
      BY DEF IInv, ModulesOK, PimsState
    <3> QED BY <1>1, <3>1, Constants DEF UsedbyOK
  <2>3. CrcOK'
    <3>1. since' = 0 /\ pims' = pims /\ CrcReload \in Nat \ {0}
      BY <1>1, Constants
    <3> QED BY <3>1 DEF CrcOK
  <2> QED BY <2>1, <2>2, <2>3 DEF ReloadOK
<1> QED
  BY <1>1, <1>4, <1>5, <1>6, ModulesKept DEF IInv

\* A process ends or one starts: neither has run since the last scan.
LEMMA ProcessChangesOK ==
  ASSUME IInv, NEW i \in Pids \ Nines, ProcessChanges(i)
  PROVE  IInv'
<1>1. /\ turn = "admin" /\ UNCHANGED loop /\ turn' = turn /\ pims' = pims /\ top' = top
      /\ proc' = [proc EXCEPT ![i] = [run |-> ~proc[i].run, utime |-> 0]]
      /\ work' = [work EXCEPT ![i] = 0] /\ steady' = steady \ {i}
      /\ UNCHANGED <<rt, clock, setBack, file, opened, conf, sysOk, since>>
      /\ events' \in 0 .. MaxEvents
  BY EventCounted DEF ProcessChanges, Idle, loop
<1>2. /\ rt \in Nat /\ proc \in [Pids -> [run : BOOLEAN, utime : Nat]] /\ work \in [Pids -> Nat]
      /\ \A j \in Pids : proc[j].utime <= rt
      /\ steady \subseteq Pids
  BY Constants DEF IInv, HostOK
<1>3. [run |-> ~proc[i].run, utime |-> 0] \in [run : BOOLEAN, utime : Nat]
  OBVIOUS
<1> DEFINE q == [run |-> ~proc[i].run, utime |-> 0]
<1>4. q.utime = 0
  OBVIOUS
<1>5. proc' = [proc EXCEPT ![i] = q] /\ q \in [run : BOOLEAN, utime : Nat]
  BY <1>1, <1>3, Zenon
<1> HIDE DEF q
<1>6. proc' \in [Pids -> [run : BOOLEAN, utime : Nat]] /\ work' \in [Pids -> Nat]
  <2>1. proc' \in [Pids -> [run : BOOLEAN, utime : Nat]]
    BY <1>2, <1>5, Zenon
  <2> QED BY <1>1, <1>2, <2>1
<1>7. /\ proc'[i] = q
      /\ \A j \in Pids \ {i} : proc'[j] = proc[j] /\ work'[j] = work[j]
  BY <1>1, <1>2, <1>5
<1>8. HostOK'
  <2>1. \A j \in Pids : proc'[j].utime <= rt
    BY <1>2, <1>4, <1>7
  <2>2. /\ rt \in 0 .. MaxTime /\ clock = Start + rt - setBack /\ sysOk \in BOOLEAN
        /\ file \in File /\ opened \in File \cup {Nothing} /\ setBack \in 0 .. Sub + 1
        /\ conf \in [at : 0 .. MaxTime, good : BOOLEAN] /\ since \in Nat
        /\ turn = "stat" => opened \in File
    BY DEF IInv, HostOK
  <2> QED BY <1>1, <1>2, <1>6, <2>1, <2>2 DEF HostOK
<1>9. LoopOK' /\ ModulesOK' /\ ToldOK' /\ ExternalOK'
  BY <1>1, <1>2, LoopKept
<1>10. TopOK'
  BY <1>1, <1>2, <1>7 DEF IInv, TopOK
<1> QED
  BY <1>1, <1>8, <1>9, <1>10, ModulesKept DEF IInv

-----------------------------------------------------------------------------
(***************************************************************************)
(* The steps of the loop.                                                  *)
(***************************************************************************)

\* The provider as a record of its fields.
LEMMA ProviderFields ==
  ASSUME IInv
  PROVE  /\ p.status \in BOOLEAN /\ p.reading \in 0 .. MaxTime /\ p.ext \in External
         /\ p.lastSlow \in Times /\ p.lastFast \in Times
         /\ p = [status |-> p.status, reading |-> p.reading, ext |-> p.ext,
                 lastSlow |-> p.lastSlow, lastFast |-> p.lastFast]
<1>1. p \in ProviderState
  BY DEF IInv, LoopOK
<1> QED
  BY <1>1 DEF ProviderState

\* The loop leaves the host as it is, but for the file it has open and for the histories.
LEMMA HostSame ==
  ASSUME IInv, UNCHANGED <<rt, clock, setBack, events, file, conf, sysOk, proc>>,
         opened' \in File \cup {Nothing}, turn' = "stat" => opened' \in File,
         work' \in [Pids -> Nat], steady' \subseteq Pids, since' \in Nat
  PROVE  HostOK'
BY DEF IInv, HostOK

\* A step that runs no module keeps what is known of them.
LEMMA NoModuleRuns ==
  ASSUME IInv, UNCHANGED <<rt, setBack, conf, since, proc, work, steady, pims, top>>,
         p'.status = p.status, p'.lastFast = p.lastFast
  PROVE  ModulesOK' /\ ReloadOK' /\ TopOK'
<1>1. ModulesOK'
  BY DEF IInv, ModulesOK, Gathered
<1>2. ReloadOK'
  BY DEF IInv, ReloadOK, FreezeOK, UsedbyOK, CrcOK
<1>3. TopOK'
  BY DEF IInv, TopOK
<1> QED
  BY <1>1, <1>2, <1>3

\* A period of the code is within what an unsigned number counts to.
LEMMA PeriodFits ==
  ASSUME NEW s \in {Fast, Slow, TopPeriod, PimPeriod}
  PROVE  s \in Nat \ {0} /\ Sub * s <= Sub * (Fast + Slow + TopPeriod + PimPeriod)
<1>1. s \in Nat \ {0} /\ s <= Fast + Slow + TopPeriod + PimPeriod
      /\ Fast + Slow + TopPeriod + PimPeriod \in Int
  BY Constants
<1> QED
  BY <1>1, TicksMonotone

\* The slow part: when its period is over the file is looked at now.
LEMMA SlowOK ==
  ASSUME IInv, lp_slow_update_info
  PROVE  IInv'
<1>1. /\ turn = "admin" /\ turn' \in {"stat", "fast"}
      /\ UNCHANGED <<rt, clock, setBack, events, file, conf, sysOk, proc, work, steady, pims, top, since, told>>
  BY DEF lp_slow_update_info
<1>2. clock \in Times /\ clock \in Nat /\ Gathered(clock, rt) /\ rt \in 0 .. rt
  BY ClockInTimes DEF IInv
<1>3. /\ p.status \in BOOLEAN /\ p.reading \in 0 .. MaxTime /\ p.ext \in External
      /\ p.lastSlow \in Times /\ p.lastFast \in Times /\ p \in ProviderState
  BY ProviderFields DEF IInv, LoopOK
<1>4. /\ work \in [Pids -> Nat] /\ steady \subseteq Pids /\ since \in Nat
      /\ opened \in File \cup {Nothing} /\ file \in File /\ rt \in Int
      /\ file.kind \in {Absent, Empty, Text}
  BY DEF IInv, HostOK, File
<1>5. CASE Due(p.lastSlow, Slow)
  <2> DEFINE e == [p.ext EXCEPT !.status = "error"]
  <2>1. p' = [p EXCEPT !.lastSlow = clock, !.ext.status = "error"]
    BY <1>5 DEF lp_slow_update_info
  <2>2. e \in External /\ e.status = "error"
    BY <1>3 DEF External
  <2>3. p' = [p EXCEPT !.lastSlow = clock, !.ext = e]
    BY <2>1, <1>3, Zenon DEF ProviderState
  <2> HIDE DEF e
  <2>4. /\ p' \in ProviderState /\ p'.lastSlow = clock /\ p'.ext = e
        /\ p'.status = p.status /\ p'.reading = p.reading /\ p'.lastFast = p.lastFast
    BY <1>2, <1>3, <2>2, <2>3 DEF ProviderState
  <2>5. IF file.kind # Absent THEN turn' = "stat" /\ opened' = file
                              ELSE turn' = "fast" /\ UNCHANGED opened
    BY <1>5 DEF lp_slow_update_info
  <2>6. HostOK'
    BY <1>1, <1>4, <2>5, HostSame
  <2>7. LoopOK'
    <3>1. NotDueAt(p'.lastSlow, clock', Slow)
      BY <1>1, <1>2, <2>4, PeriodBegins
    <3>2. p.status => Gathered(p.lastFast, p.reading)
      BY DEF IInv, LoopOK
    <3> QED BY <1>1, <2>4, <3>1, <3>2 DEF LoopOK, Gathered
  <2>8. ExternalOK'
    <3>1. IF turn' = "stat" THEN opened' = file /\ file.kind # Absent ELSE Shows(p'.ext, file)
      BY <2>2, <2>4, <2>5 DEF Shows, Text, Empty, Absent
    <3>2. GatheredBy(p'.lastSlow, rt', rt', setBack') /\ file' = file /\ rt' \in 0 .. rt'
      BY <1>1, <1>2, <2>4 DEF Gathered
    <3> QED BY <3>1, <3>2 DEF ExternalOK, Gathered
  <2> QED BY <1>1, <2>4, <2>6, <2>7, <2>8, NoModuleRuns DEF IInv, ToldOK
<1>6. CASE ~Due(p.lastSlow, Slow)
  <2>1. p' = p /\ turn' = "fast" /\ opened' = opened
    BY <1>6 DEF lp_slow_update_info
  <2>2. NotDueAt(p.lastSlow, clock, Slow)
    BY <1>2, <1>3, <1>6, PeriodFits, PeriodRuns
  <2>3. HostOK'
    BY <1>1, <1>4, <2>1, HostSame
  <2>4. LoopOK'
    BY <1>1, <2>1, <2>2 DEF IInv, LoopOK, Gathered
  <2>5. ExternalOK'
    BY <1>1, <2>1 DEF IInv, ExternalOK, Gathered
  <2> QED BY <1>1, <2>1, <2>3, <2>4, <2>5, NoModuleRuns DEF IInv, ToldOK
<1> QED
  BY <1>5, <1>6

\* The file that was opened is read.
LEMMA UpdateExternalOK ==
  ASSUME IInv, update_external_file
  PROVE  IInv'
<1> DEFINE e == [status |-> IF opened.kind = Text THEN "ok" ELSE "empty",
                 at |-> opened.at, mtime |-> opened.mtime]
<1>1. /\ turn = "stat" /\ turn' = "fast" /\ opened' = Nothing
      /\ UNCHANGED <<rt, clock, setBack, events, file, conf, sysOk, proc, work, steady, pims, top, since, told>>
      /\ p' = [p EXCEPT !.ext = e]
  BY DEF update_external_file
<1>2. /\ work \in [Pids -> Nat] /\ steady \subseteq Pids /\ since \in Nat
      /\ opened \in File /\ file \in File
  BY <1>1 DEF IInv, HostOK
<1>3. e \in External
  BY <1>2 DEF External, File
<1>4. ASSUME opened = file, file.kind # Absent PROVE Shows(e, file)
  BY <1>2, <1>4 DEF Shows, File, Text, Empty, Absent
<1> HIDE DEF e
<1>5. p \in ProviderState
  BY DEF IInv, LoopOK
<1>6. /\ p' \in ProviderState /\ p'.ext = e
      /\ p'.status = p.status /\ p'.reading = p.reading /\ p'.lastFast = p.lastFast
      /\ p'.lastSlow = p.lastSlow
  BY <1>1, <1>3, <1>5 DEF ProviderState
<1>7. HostOK'
  BY <1>1, <1>2, HostSame
<1>8. LoopOK'
  <2>1. /\ p.status => Gathered(p.lastFast, p.reading)
        /\ NotDueAt(p.lastSlow, clock, Slow)
    BY <1>1 DEF IInv, LoopOK
  <2> QED BY <1>1, <1>6, <2>1 DEF LoopOK, Gathered
<1>9. ExternalOK'
  <2>0. /\ p'.lastSlow = p.lastSlow /\ p'.ext = e /\ file' = file /\ rt' = rt
        /\ setBack' = setBack /\ turn' # "stat"
    BY <1>1, <1>6
  <2>1. SUFFICES ASSUME p.lastSlow # 0
                 PROVE  \E r \in 0 .. rt' :
                          /\ GatheredBy(p'.lastSlow, r, rt', setBack')
                          /\ file'.at < r => Shows(p'.ext, file')
    BY <2>0, Zenon DEF ExternalOK, Gathered
  <2>2. PICK r \in 0 .. rt : /\ Gathered(p.lastSlow, r)
                             /\ file.at < r => opened = file /\ file.kind # Absent
    BY <1>1, <2>1 DEF IInv, ExternalOK
  <2>3. /\ GatheredBy(p.lastSlow, r, rt, setBack)
        /\ file.at < r => Shows(e, file)
    BY <1>4, <2>2 DEF Gathered
  <2> QED BY <2>0, <2>3
<1>10. ToldOK'
  BY <1>1 DEF ToldOK
<1> QED
  BY <1>1, <1>6, <1>7, <1>8, <1>9, <1>10, NoModuleRuns DEF IInv

\* What a run of the modules due leaves of s, field by field.
RunOf(s, due, now, seconds, q) ==
  /\ q \in PimsState
  /\ q.last = [m \in Modules |-> IF m \in due THEN now ELSE s.last[m]]
  /\ q.freeze = IF "freeze-info" \in due THEN frzinfo_pim_update(s.freeze, conf) ELSE s.freeze
  /\ q.usedby = IF "usedby" \in due THEN usedby_pim_update(s.usedby, conf) ELSE s.usedby
  /\ q.crc = IF "cid-crc" \in due THEN cidcrc_pim_update(s.crc, conf) ELSE s.crc
  /\ q.debug = IF "infod-debug" \in due THEN seconds ELSE s.debug

\* A run of the modules does what it says.  (pim_update, infoModuleManager.c)
LEMMA PimsUpdated ==
  ASSUME NEW s \in PimsState, NEW due, NEW now \in Times, NEW seconds \in Int,
         conf \in [at : 0 .. MaxTime, good : BOOLEAN]
  PROVE  RunOf(s, due, now, seconds, pim_update(s, due, now, seconds, conf))
<1> DEFINE l == [m \in Modules |-> IF m \in due THEN now ELSE s.last[m]]
           f == IF "freeze-info" \in due THEN frzinfo_pim_update(s.freeze, conf) ELSE s.freeze
           u == IF "usedby" \in due THEN usedby_pim_update(s.usedby, conf) ELSE s.usedby
           c == IF "cid-crc" \in due THEN cidcrc_pim_update(s.crc, conf) ELSE s.crc
           d == IF "infod-debug" \in due THEN seconds ELSE s.debug
           q == pim_update(s, due, now, seconds, conf)
<1>1. q = [s EXCEPT !.last = l, !.freeze = f, !.usedby = u, !.crc = c, !.debug = d]
  BY Zenon DEF pim_update, idbg_pim_update
<1>2. /\ s.last \in [Modules -> Times] /\ s.debug \in Int
      /\ s.freeze \in [status : {"init", "ok", "error"}, cycle : -1 .. FrzReload - 1, dirs : Made]
      /\ s.usedby \in [status : {"init", "ok"}, cycle : 0 .. MapReload, map : Made]
      /\ s.crc \in [counter : Nat, crc : Made]
  BY DEF PimsState
<1>3. Read(conf) \in Made /\ conf.at \in Made /\ Unread \in Made
  BY Constants DEF Read, Made
<1>4. l \in [Modules -> Times] /\ d \in Int
  BY <1>2
<1>5. f \in [status : {"init", "ok", "error"}, cycle : -1 .. FrzReload - 1, dirs : Made]
  <2>1. FrzReload \in Nat \ {0}
    BY Constants
  <2>2. /\ s.freeze.cycle \in Int /\ s.freeze.cycle >= -1 /\ s.freeze.dirs \in Made
    BY <1>2
  <2> HIDE DEF Made
  <2>3. frzinfo_pim_update(s.freeze, conf)
          \in [status : {"init", "ok", "error"}, cycle : -1 .. FrzReload - 1, dirs : Made]
    <3> DEFINE y == IF s.freeze.cycle + 1 >= FrzReload THEN 0 ELSE s.freeze.cycle + 1
    <3>1. y \in -1 .. FrzReload - 1
      BY <2>1, <2>2
    <3>2. frzinfo_pim_update(s.freeze, conf) =
            IF y = 0 /\ ~conf.good THEN [status |-> "error", cycle |-> 0, dirs |-> Unread]
            ELSE [status |-> "ok", cycle |-> y, dirs |-> IF y = 0 THEN conf.at ELSE s.freeze.dirs]
      BY DEF frzinfo_pim_update
    <3>3. 0 \in -1 .. FrzReload - 1
      BY <2>1
    <3> HIDE DEF y
    <3> QED BY <1>3, <2>2, <3>1, <3>2, <3>3
  <2> QED BY <1>2, <2>3
<1>6. u \in [status : {"init", "ok"}, cycle : 0 .. MapReload, map : Made]
  <2>1. MapReload \in Nat \ {0}
    BY Constants
  <2>2. s.usedby.cycle \in 0 .. MapReload /\ s.usedby.map \in Made
    BY <1>2
  <2> DEFINE y == (IF s.usedby.cycle >= MapReload THEN 0 ELSE s.usedby.cycle) + 1
             r == Read(conf)
  <2>3. y \in 0 .. MapReload
    BY <2>1, <2>2
  <2>4. usedby_pim_update(s.usedby, conf) =
          [status |-> "ok", cycle |-> y, map |-> IF s.usedby.cycle >= MapReload THEN r ELSE s.usedby.map]
    BY DEF usedby_pim_update
  <2>5. r \in Made
    BY <1>3
  <2> HIDE DEF y, r, Made
  <2> QED BY <1>2, <2>2, <2>3, <2>4, <2>5
<1>7. c \in [counter : Nat, crc : Made]
  BY <1>2, <1>3 DEF cidcrc_pim_update
<1> HIDE DEF l, f, u, c, d, q
<1>8. /\ q.last = l /\ q.freeze = f /\ q.usedby = u /\ q.crc = c /\ q.debug = d
      /\ q \in PimsState
  BY <1>1, <1>4, <1>5, <1>6, <1>7 DEF PimsState
<1> QED
  BY <1>8 DEF RunOf, l, f, u, c, d, q

\* A run of the freezing directories: they are read again, or one more run was made since.
LEMMA FreezeRuns ==
  ASSUME IInv, pims' \in PimsState, UNCHANGED conf,
         pims'.freeze = frzinfo_pim_update(pims.freeze, conf),
         since' = IF Counting THEN since + 1 ELSE since
  PROVE  FreezeOK'
<1> DEFINE y == IF pims.freeze.cycle + 1 >= FrzReload THEN 0 ELSE pims.freeze.cycle + 1
<1>1. /\ pims.freeze.cycle \in -1 .. FrzReload - 1 /\ since \in Nat
      /\ FrzReload \in Nat \ {0}
  BY Constants, ProviderAssumption DEF IInv, HostOK, ModulesOK, PimsState
<1>2. pims'.freeze =
        IF y = 0 /\ ~conf.good THEN [status |-> "error", cycle |-> 0, dirs |-> Unread]
        ELSE [status |-> "ok", cycle |-> y, dirs |-> IF y = 0 THEN conf.at ELSE pims.freeze.dirs]
  BY DEF frzinfo_pim_update
<1>3. pims.freeze.dirs = Read(conf) \/ since <= pims.freeze.cycle \/ since = 0
  BY DEF IInv, ReloadOK, FreezeOK
<1>4. y # 0 => y = pims.freeze.cycle + 1
  OBVIOUS
<1> HIDE DEF y
<1>5. CASE y = 0
  BY <1>2, <1>5 DEF FreezeOK, Read
<1>6. CASE y # 0
  <2>1. pims'.freeze.status = "ok" /\ pims'.freeze.cycle = y /\ pims'.freeze.dirs = pims.freeze.dirs
    BY <1>2, <1>6
  <2>2. since <= pims.freeze.cycle \/ since = 0 => since' <= y
    BY <1>1, <1>4, <1>6
  <2>3. pims.freeze.dirs = Read(conf) \/ since' <= y
    BY <1>3, <2>2
  <2> QED BY <2>1, <2>3 DEF FreezeOK
<1> QED
  BY <1>5, <1>6

\* The same of the partners.
LEMMA UsedbyRuns ==
  ASSUME IInv, UNCHANGED conf,
         pims'.usedby = usedby_pim_update(pims.usedby, conf),
         since' = IF Counting THEN since + 1 ELSE since
  PROVE  UsedbyOK'
<1>1. /\ pims.usedby.cycle \in 0 .. MapReload /\ since \in Nat
      /\ MapReload \in Nat \ {0}
  BY Constants DEF IInv, HostOK, ModulesOK, PimsState
<1>2. pims.usedby.map = Read(conf) \/ since <= pims.usedby.cycle
  BY DEF IInv, ReloadOK, UsedbyOK
<1>3. CASE pims.usedby.cycle >= MapReload
  BY <1>3 DEF UsedbyOK, usedby_pim_update
<1>4. CASE ~(pims.usedby.cycle >= MapReload)
  <2>1. pims'.usedby.cycle = pims.usedby.cycle + 1 /\ pims'.usedby.map = pims.usedby.map
    BY <1>4 DEF usedby_pim_update
  <2>2. since <= pims.usedby.cycle => since' <= pims.usedby.cycle + 1
    BY <1>1
  <2> QED BY <1>2, <2>1, <2>2 DEF UsedbyOK
<1> QED
  BY <1>3, <1>4

\* Counting modulo the runs between two readings.
LEMMA NextRemainder ==
  ASSUME NEW n \in Nat
  PROVE  LET m == n % CrcReload
         IN  /\ m \in 0 .. CrcReload - 1
             /\ (n + 1) % CrcReload = IF m + 1 = CrcReload THEN 0 ELSE m + 1
<1> DEFINE C == CrcReload
           q == n \div C
           m == n % C
           u == (n + 1) \div C
           v == (n + 1) % C
<1>1. C \in Nat \ {0}
  BY Constants
<1> HIDE DEF C
<1>2. /\ q \in Int /\ m \in 0 .. C - 1 /\ n = C * q + m
      /\ u \in Int /\ v \in 0 .. C - 1 /\ n + 1 = C * u + v
  BY <1>1
<1> HIDE DEF q, m, u, v
<1> DEFINE e == u - q
<1>3. e \in Int /\ C * e = m + 1 - v
  <2> DEFINE g == C * u
             h == C * q
  <2>1. C * e = g - h /\ g \in Int /\ h \in Int
    BY <1>1, <1>2
  <2>2. n = h + m /\ n + 1 = g + v /\ m \in Int /\ v \in Int /\ e \in Int
    BY <1>1, <1>2
  <2> HIDE DEF e, g, h
  <2> QED BY <2>1, <2>2
<1> HIDE DEF e
<1>4. C * 1 = C /\ C * 2 = C + C /\ C * (-1) = -C /\ C * 0 = 0
  BY <1>1
<1>5. ~(e >= 2)
  BY <1>1, <1>2, <1>3, <1>4, ProductMonotone
<1>6. ~(e <= -1)
  BY <1>1, <1>2, <1>3, <1>4, ProductMonotone
<1>7. e = 0 \/ e = 1
  BY <1>3, <1>5, <1>6
<1>8. v = IF m + 1 = C THEN 0 ELSE m + 1
  BY <1>1, <1>2, <1>3, <1>4, <1>7
<1> QED
  BY <1>2, <1>8 DEF m, v, C

\* The same of the cluster's map.
LEMMA CrcRuns ==
  ASSUME IInv, UNCHANGED conf,
         pims'.crc = cidcrc_pim_update(pims.crc, conf),
         since' = IF Counting THEN since + 1 ELSE since
  PROVE  CrcOK'
<1> DEFINE m == pims.crc.counter % CrcReload
           k == (pims.crc.counter + 1) % CrcReload
<1>1. /\ pims.crc.counter \in Nat /\ since \in Nat
      /\ CrcReload \in Nat \ {0}
  BY Constants, ProviderAssumption DEF IInv, HostOK, ModulesOK, PimsState
<1>2. m \in 0 .. CrcReload - 1 /\ k = IF m + 1 = CrcReload THEN 0 ELSE m + 1
  BY <1>1, NextRemainder
<1>3. /\ pims'.crc.counter = pims.crc.counter + 1
      /\ pims'.crc.crc = IF m = 0 THEN Read(conf) ELSE pims.crc.crc
  BY DEF cidcrc_pim_update
<1>4. pims.crc.crc = Read(conf) \/ (since < CrcReload /\ (m > 0 => since < m))
  BY DEF IInv, ReloadOK, CrcOK
<1>5. CrcOK' <=> pims'.crc.crc = Read(conf) \/ (since' < CrcReload /\ (k > 0 => since' < k))
  BY <1>3 DEF CrcOK
<1> HIDE DEF m, k
<1>6. CASE m = 0
  BY <1>3, <1>5, <1>6
<1>7. CASE m # 0
  <2>1. pims'.crc.crc = pims.crc.crc
    BY <1>3, <1>7
  <2>2. since < CrcReload /\ since < m => since' < CrcReload /\ (k > 0 => since' < k)
    BY <1>1, <1>2, <1>7
  <2>3. m > 0
    BY <1>2, <1>7
  <2> QED BY <1>4, <1>5, <2>1, <2>2, <2>3
<1> QED
  BY <1>6, <1>7

\* The built-in modules share their period and have always run together.
LEMMA RunTogether ==
  ASSUME IInv
  PROVE  /\ pim_arr \subseteq Modules /\ "top" \in Modules /\ "top" \notin pim_arr
         /\ "infod-debug" \in pim_arr
         /\ \A m \in pim_arr : period(m) = PimPeriod
         /\ pim_arr \subseteq DueModules \/ pim_arr \cap DueModules = {}
<1>1. pim_arr \subseteq Modules /\ "top" \in Modules /\ "top" \notin pim_arr /\ "infod-debug" \in pim_arr
  BY Constants DEF pim_arr
<1>2. \A m \in pim_arr : period(m) = PimPeriod /\ pims.last[m] = pims.last["infod-debug"]
  BY <1>1 DEF period, IInv, ModulesOK
<1>3. \A m \in pim_arr : m \in DueModules <=> Due(pims.last["infod-debug"], PimPeriod)
  BY <1>1, <1>2, Zenon DEF DueModules
<1> QED
  BY <1>1, <1>2, <1>3

\* The modules that are due run, when a reading was gathered.
LEMMA DueModulesRun ==
  ASSUME IInv, UNCHANGED <<conf, rt, setBack>>,
         p'.lastFast = clock, top'.scanned = IF "top" \in DueModules THEN rt ELSE top.scanned,
         pims' = pim_update(pims, DueModules, clock, Secs(clock) - Epoch, conf),
         since' = IF pim_arr \cap DueModules # {} /\ Counting THEN since + 1 ELSE since
  PROVE  ModulesOK' /\ ReloadOK' /\ since' \in Nat
<1>1. /\ pims \in PimsState /\ conf \in [at : 0 .. MaxTime, good : BOOLEAN]
      /\ since \in Nat
  BY DEF IInv, HostOK, ModulesOK
<1>2. clock \in Times /\ clock \in Nat /\ Gathered(clock, rt) /\ rt \in 0 .. rt
  BY ClockInTimes DEF IInv
<1>3. Secs(clock) - Epoch \in Int
  BY <1>2, SecondsAndFraction, Constants
<1>4. /\ pims' \in PimsState
      /\ pims'.last = [m \in Modules |-> IF m \in DueModules THEN clock ELSE pims.last[m]]
      /\ pims'.freeze = IF "freeze-info" \in DueModules THEN frzinfo_pim_update(pims.freeze, conf)
                        ELSE pims.freeze
      /\ pims'.usedby = IF "usedby" \in DueModules THEN usedby_pim_update(pims.usedby, conf)
                        ELSE pims.usedby
      /\ pims'.crc = IF "cid-crc" \in DueModules THEN cidcrc_pim_update(pims.crc, conf) ELSE pims.crc
      /\ pims'.debug = IF "infod-debug" \in DueModules THEN Secs(clock) - Epoch ELSE pims.debug
  <2>1. RunOf(pims, DueModules, clock, Secs(clock) - Epoch, pims')
    BY <1>1, <1>2, <1>3, PimsUpdated
  <2> QED BY <2>1 DEF RunOf
<1>5. \A m \in Modules : pims'.last[m] = IF m \in DueModules THEN clock ELSE pims.last[m]
  BY <1>4
<1>6. \A m \in Modules : pims.last[m] \in Times
  BY <1>1 DEF PimsState
<1>7. \A m \in Modules : NotDueAt(pims'.last[m], clock, period(m))
  <2> SUFFICES ASSUME NEW m \in Modules PROVE NotDueAt(pims'.last[m], clock, period(m))
    OBVIOUS
  <2>1. CASE m \in DueModules
    BY <1>2, <1>5, <2>1, PeriodBegins
  <2>2. CASE m \notin DueModules
    <3>1. ~Due(pims.last[m], period(m))
      BY <2>2 DEF DueModules
    <3>2. period(m) \in {Fast, Slow, TopPeriod, PimPeriod}
      BY DEF period
    <3> QED BY <1>2, <1>5, <1>6, <2>2, <3>1, <3>2, PeriodFits, PeriodRuns
  <2> QED BY <2>1, <2>2
<1>8. ModulesOK'
  <2>1. \A m \in pim_arr : pims'.last[m] = pims'.last["infod-debug"]
    <3>1. \A m \in pim_arr : pims.last[m] = pims.last["infod-debug"]
      BY DEF IInv, ModulesOK
    <3> QED BY <1>5, <3>1, RunTogether
  <2>2. pims'.last["infod-debug"] # 0 =>
          /\ pims'.debug = Secs(pims'.last["infod-debug"]) - Epoch
          /\ \E r \in 0 .. rt : Gathered(pims'.last["infod-debug"], r)
    <3>1. CASE "infod-debug" \in DueModules
      BY <1>2, <1>4, <1>5, <3>1, RunTogether
    <3>2. CASE "infod-debug" \notin DueModules
      <4>1. pims'.last["infod-debug"] = pims.last["infod-debug"] /\ pims'.debug = pims.debug
        BY <1>4, <1>5, <3>2, RunTogether
      <4> QED BY <4>1 DEF IInv, ModulesOK
    <3> QED BY <3>1, <3>2
  <2>3. pims'.last["top"] # 0 => Gathered(pims'.last["top"], top'.scanned)
    <3>1. CASE "top" \in DueModules
      BY <1>2, <1>5, <3>1, RunTogether
    <3>2. CASE "top" \notin DueModules
      <4>1. pims'.last["top"] = pims.last["top"] /\ top'.scanned = top.scanned
        BY <1>5, <3>2, RunTogether
      <4> QED BY <4>1 DEF IInv, ModulesOK
    <3> QED BY <3>1, <3>2
  <2>4. /\ NotDueAt(pims'.last["infod-debug"], p'.lastFast, PimPeriod)
        /\ NotDueAt(pims'.last["top"], p'.lastFast, TopPeriod)
    <3>1. period("top") = TopPeriod /\ period("infod-debug") = PimPeriod
      BY RunTogether DEF period
    <3> QED BY <1>7, <3>1, RunTogether
  <2>5. rt' = rt /\ setBack' = setBack
    OBVIOUS
  <2> QED BY <1>4, <2>1, <2>2, <2>3, <2>4, <2>5 DEF ModulesOK, Gathered
<1>9. CASE pim_arr \subseteq DueModules
  <2>1. "freeze-info" \in DueModules /\ "usedby" \in DueModules /\ "cid-crc" \in DueModules
    BY <1>9 DEF pim_arr
  <2>2. since' = IF Counting THEN since + 1 ELSE since
    BY <2>1 DEF pim_arr
  <2>3. FreezeOK'
    BY <1>4, <2>1, <2>2, FreezeRuns
  <2>4. UsedbyOK'
    BY <1>4, <2>1, <2>2, UsedbyRuns
  <2>5. CrcOK'
    BY <1>4, <2>1, <2>2, CrcRuns
  <2>6. since' \in Nat
    BY <1>1, <2>2, Constants
  <2> QED BY <1>8, <2>3, <2>4, <2>5, <2>6 DEF ReloadOK
<1>10. CASE pim_arr \cap DueModules = {}
  <2>1. "freeze-info" \notin DueModules /\ "usedby" \notin DueModules /\ "cid-crc" \notin DueModules
    BY <1>10 DEF pim_arr
  <2>2. since' = since /\ pims'.freeze = pims.freeze /\ pims'.usedby = pims.usedby /\ pims'.crc = pims.crc
    BY <1>4, <1>10, <2>1
  <2> QED BY <1>1, <1>8, <2>2 DEF IInv, ReloadOK, FreezeOK, UsedbyOK, CrcOK
<1> QED
  BY <1>9, <1>10, RunTogether

\* A scan of the processes.
LEMMA ScanOK ==
  ASSUME IInv, TopFinder_update, UNCHANGED <<rt, proc>>, pims'.last["top"] = clock
  PROVE  TopOK' /\ work' \in [Pids -> Nat] /\ steady' \subseteq Pids
<1> DEFINE h == [i \in Pids |-> IF i \in Seen THEN [utime |-> proc[i].utime, time |-> clock]
                               ELSE NotThere]
<1>1. /\ top'.hash = h /\ top'.count = top.count + 1 /\ top'.scanned = rt
      /\ top'.list = {i \in Seen \cap Known : Busy(i)}
      /\ top' = [hash |-> h, count |-> top'.count, list |-> top'.list, scanned |-> rt]
  BY DEF TopFinder_update
<1>2. work' = [i \in Pids |-> 0] /\ steady' = {i \in Pids : proc[i].run}
  BY DEF TopFinder_update
<1>3. /\ proc \in [Pids -> [run : BOOLEAN, utime : Nat]] /\ \A i \in Pids : proc[i].utime <= rt
      /\ rt \in 0 .. MaxTime /\ MaxTime \in Nat /\ top.count \in Nat
  BY Constants DEF IInv, HostOK, TopOK, TopState
<1>4. clock \in Times
  BY ClockInTimes DEF IInv
<1>5. \A i \in Pids : proc[i].utime \in 0 .. MaxTime
  BY <1>3
<1>6. h \in [Pids -> [utime : -1 .. MaxTime, time : Times]]
  <2>1. 0 \in Times /\ NotThere \in [utime : -1 .. MaxTime, time : Times]
    <3>1. 0 \in Times /\ -1 \in -1 .. MaxTime
      BY Constants DEF Times, Start
    <3> QED BY <3>1 DEF NotThere
  <2>2. \A i \in Pids : [utime |-> proc[i].utime, time |-> clock] \in [utime : -1 .. MaxTime, time : Times]
    BY <1>3, <1>4, <1>5
  <2> QED BY <2>1, <2>2, Zenon
<1>7. top' \in TopState
  <2>1. top'.list \in SUBSET Pids /\ top'.count \in Nat
    BY <1>1, <1>3 DEF Known
  <2> HIDE DEF h
  <2> QED BY <1>1, <1>3, <1>6, <2>1 DEF TopState
<1>8. \A i \in Nines : top'.hash[i] = NotThere
  BY <1>1, Constants DEF Seen
<1>9. \A i \in steady' \ Nines :
        /\ proc[i].run /\ work'[i] <= proc[i].utime
        /\ top'.hash[i] = [utime |-> proc[i].utime - work'[i], time |-> clock]
  <2> SUFFICES ASSUME NEW i \in steady' \ Nines
               PROVE  /\ proc[i].run /\ work'[i] <= proc[i].utime
                      /\ top'.hash[i] = [utime |-> proc[i].utime - work'[i], time |-> clock]
    OBVIOUS
  <2>1. i \in Pids /\ proc[i].run /\ i \in Seen
    BY <1>2 DEF Seen
  <2>2. work'[i] = 0 /\ proc[i].utime \in Nat
    BY <1>2, <1>3, <2>1
  <2>3. top'.hash[i] = [utime |-> proc[i].utime, time |-> clock]
    BY <1>1, <2>1
  <2> HIDE DEF h
  <2> QED BY <2>1, <2>2, <2>3
<1> HIDE DEF h
<1>10. work' \in [Pids -> Nat] /\ steady' \subseteq Pids
  BY <1>2
<1>11. top'.scanned <= rt'
  BY <1>1, <1>3
<1> QED
  BY <1>7, <1>8, <1>9, <1>10, <1>11 DEF TopOK

\* Running no module changes nothing.
LEMMA NothingRuns ==
  ASSUME IInv, NEW now, NEW seconds
  PROVE  pim_update(pims, {}, now, seconds, conf) = pims
<1> DEFINE l == [m \in Modules |-> pims.last[m]]
<1>1. pims \in PimsState /\ pims.last \in [Modules -> Times]
  BY DEF IInv, ModulesOK, PimsState
<1>2. l = pims.last
  BY <1>1
<1>3. pim_update(pims, {}, now, seconds, conf) =
        [pims EXCEPT !.last = l, !.freeze = pims.freeze, !.usedby = pims.usedby,
                     !.crc = pims.crc, !.debug = pims.debug]
  BY DEF pim_update
<1> HIDE DEF l
<1> QED
  BY <1>1, <1>2, <1>3 DEF PimsState

\* The fast part: nothing, a reading that fails, or one with the modules that are due.
LEMMA FastCases ==
  ASSUME IInv, lp_fast_update_info
  PROVE  /\ turn = "fast" /\ turn' = "step"
         /\ UNCHANGED <<rt, clock, setBack, events, file, opened, conf, sysOk, proc, told>>
         /\ \/ /\ ~Due(p.lastFast, Fast) /\ p' = p
               /\ UNCHANGED <<pims, top, work, steady, since>>
            \/ /\ Due(p.lastFast, Fast) /\ ~sysOk
               /\ p' = [p EXCEPT !.lastFast = clock, !.status = FALSE, !.reading = p.reading]
               /\ UNCHANGED <<pims, top, work, steady, since>>
            \/ /\ Due(p.lastFast, Fast) /\ sysOk
               /\ p' = [p EXCEPT !.lastFast = clock, !.status = TRUE, !.reading = rt]
               /\ pims' = pim_update(pims, DueModules, clock, Secs(clock) - Epoch, conf)
               /\ IF "top" \in DueModules THEN TopFinder_update ELSE UNCHANGED <<top, work, steady>>
               /\ since' = IF pim_arr \cap DueModules # {} /\ Counting THEN since + 1
                           ELSE since
<1>1. /\ turn = "fast" /\ turn' = "step"
      /\ UNCHANGED <<rt, clock, setBack, events, file, opened, conf, sysOk, proc, told>>
  BY DEF lp_fast_update_info
<1>2. sysOk \in BOOLEAN
  BY DEF IInv, HostOK
<1>3. CASE Due(p.lastFast, Fast) /\ sysOk
  <2>1. /\ p' = [p EXCEPT !.lastFast = clock, !.status = sysOk, !.reading = rt]
        /\ pims' = pim_update(pims, DueModules, clock, Secs(clock) - Epoch, conf)
        /\ IF "top" \in DueModules THEN TopFinder_update ELSE UNCHANGED <<top, work, steady>>
        /\ since' = IF pim_arr \cap DueModules # {} /\ Counting THEN since + 1 ELSE since
    BY <1>3, Zenon DEF lp_fast_update_info
  <2>2. sysOk = TRUE
    BY <1>2, <1>3
  <2>3. p' = [p EXCEPT !.lastFast = clock, !.status = TRUE, !.reading = rt]
    BY <2>1, <2>2
  <2> QED BY <1>1, <1>3, <2>1, <2>3, Zenon
<1>4. CASE ~(Due(p.lastFast, Fast) /\ sysOk)
  <2>1. /\ pims' = pim_update(pims, {}, clock, Secs(clock) - Epoch, conf)
        /\ IF "top" \in {} THEN TopFinder_update ELSE UNCHANGED <<top, work, steady>>
        /\ since' = IF pim_arr \cap {} # {} /\ Counting THEN since + 1 ELSE since
    BY <1>4, Zenon DEF lp_fast_update_info
  <2>2. UNCHANGED <<pims, top, work, steady, since>>
    BY <2>1, NothingRuns
  <2>3. CASE ~Due(p.lastFast, Fast)
    <3>1. p' = p
      BY <2>3, Zenon DEF lp_fast_update_info
    <3> QED BY <1>1, <2>2, <2>3, <3>1
  <2>4. CASE Due(p.lastFast, Fast) /\ ~sysOk
    <3>1. p' = [p EXCEPT !.lastFast = clock, !.status = sysOk, !.reading = p.reading]
      BY <2>4, Zenon DEF lp_fast_update_info
    <3>2. sysOk = FALSE
      BY <1>2, <2>4
    <3>3. p' = [p EXCEPT !.lastFast = clock, !.status = FALSE, !.reading = p.reading]
      BY <3>1, <3>2
    <3> QED BY <1>1, <2>2, <2>4, <3>3
  <2> QED BY <1>4, <2>3, <2>4
<1> QED
  BY <1>3, <1>4

\* So that a reading, and what the modules know when it is told of, is of this moment or
\* within its period.
LEMMA FastOK ==
  ASSUME IInv, lp_fast_update_info
  PROVE  IInv'
<1>1. /\ turn = "fast" /\ turn' = "step" /\ turn # "stat"
      /\ UNCHANGED <<rt, clock, setBack, events, file, opened, conf, sysOk, proc, told>>
  BY FastCases
<1>2. clock \in Times /\ clock \in Nat /\ Gathered(clock, rt) /\ rt \in 0 .. MaxTime
  BY ClockInTimes DEF IInv, HostOK
<1>3. /\ p.status \in BOOLEAN /\ p.reading \in 0 .. MaxTime /\ p.ext \in External
      /\ p.lastSlow \in Times /\ p.lastFast \in Times /\ p \in ProviderState
  BY ProviderFields DEF IInv, LoopOK
<1>4. /\ work \in [Pids -> Nat] /\ steady \subseteq Pids /\ since \in Nat
      /\ opened \in File \cup {Nothing} /\ proc \in [Pids -> [run : BOOLEAN, utime : Nat]]
  BY DEF IInv, HostOK
<1>5. NotDueAt(p.lastSlow, clock, Slow)
  BY <1>1 DEF IInv, LoopOK
<1>6. ToldOK'
  BY <1>1 DEF ToldOK
<1>7. ASSUME p'.lastSlow = p.lastSlow, p'.ext = p.ext PROVE ExternalOK'
  <2>1. /\ rt' = rt /\ setBack' = setBack /\ file' = file /\ turn' # "stat" /\ turn # "stat"
    BY <1>1
  <2> QED BY <1>7, <2>1, Zenon DEF IInv, ExternalOK, Gathered
<1>8. CASE ~Due(p.lastFast, Fast) /\ p' = p /\ UNCHANGED <<pims, top, work, steady, since>>
  <2>1. NotDueAt(p.lastFast, clock, Fast)
    BY <1>2, <1>3, <1>8, PeriodFits, PeriodRuns
  <2>2. LoopOK'
    <3>1. p.status => Gathered(p.lastFast, p.reading)
      BY DEF IInv, LoopOK
    <3> QED BY <1>1, <1>3, <1>5, <1>8, <2>1, <3>1 DEF LoopOK, Gathered
  <2>3. HostOK'
    BY <1>1, <1>4, <1>8, HostSame
  <2> QED BY <1>1, <1>6, <1>7, <1>8, <2>2, <2>3, NoModuleRuns DEF IInv
<1>9. CASE /\ p' = [p EXCEPT !.lastFast = clock, !.status = FALSE, !.reading = p.reading]
           /\ UNCHANGED <<pims, top, work, steady, since>>
  <2>1. /\ p' \in ProviderState /\ p'.status = FALSE /\ p'.lastFast = clock
        /\ p'.lastSlow = p.lastSlow /\ p'.ext = p.ext
    BY <1>2, <1>3, <1>9 DEF ProviderState
  <2>2. LoopOK'
    <3>1. NotDueAt(p'.lastFast, clock, Fast) /\ NotDueAt(p'.lastSlow, clock, Slow)
      BY <1>2, <1>5, <2>1, PeriodBegins
    <3> QED BY <1>1, <2>1, <3>1 DEF LoopOK
  <2>3. HostOK'
    BY <1>1, <1>4, <1>9, HostSame
  <2>4. ModulesOK' /\ ReloadOK' /\ TopOK'
    <3>1. ModulesOK'
      BY <1>1, <1>9, <2>1 DEF IInv, ModulesOK, Gathered
    <3>2. ReloadOK'
      BY <1>1, <1>9 DEF IInv, ReloadOK, FreezeOK, UsedbyOK, CrcOK
    <3>3. TopOK'
      BY <1>1, <1>9 DEF IInv, TopOK
    <3> QED BY <3>1, <3>2, <3>3
  <2> QED BY <1>6, <1>7, <2>1, <2>2, <2>3, <2>4 DEF IInv
<1>10. CASE /\ p' = [p EXCEPT !.lastFast = clock, !.status = TRUE, !.reading = rt]
            /\ pims' = pim_update(pims, DueModules, clock, Secs(clock) - Epoch, conf)
            /\ IF "top" \in DueModules THEN TopFinder_update ELSE UNCHANGED <<top, work, steady>>
            /\ since' = IF pim_arr \cap DueModules # {} /\ Counting THEN since + 1
                        ELSE since
  <2>1. /\ p' \in ProviderState /\ p'.status = TRUE /\ p'.lastFast = clock /\ p'.reading = rt
        /\ p'.lastSlow = p.lastSlow /\ p'.ext = p.ext
    BY <1>2, <1>3, <1>10 DEF ProviderState
  <2>2. LoopOK'
    <3>1. NotDueAt(p'.lastFast, clock, Fast) /\ NotDueAt(p'.lastSlow, clock, Slow)
      BY <1>2, <1>5, <2>1, PeriodBegins
    <3> QED BY <1>1, <1>2, <2>1, <3>1 DEF LoopOK, Gathered
  <2>3. top'.scanned = IF "top" \in DueModules THEN rt ELSE top.scanned
    BY <1>10 DEF TopFinder_update
  <2>4. ModulesOK' /\ ReloadOK' /\ since' \in Nat
    BY <1>1, <1>10, <2>1, <2>3, DueModulesRun
  <2>5. pims'.last["top"] = IF "top" \in DueModules THEN clock ELSE pims.last["top"]
    <3>1. pims'.last = [m \in Modules |-> IF m \in DueModules THEN clock ELSE pims.last[m]]
      <4>1. pims \in PimsState
        BY DEF IInv, ModulesOK
      <4> QED BY <1>10, <4>1 DEF pim_update, PimsState
    <3> QED BY <3>1, RunTogether
  <2>6. TopOK' /\ work' \in [Pids -> Nat] /\ steady' \subseteq Pids
    <3>1. CASE "top" \in DueModules
      BY <1>1, <1>10, <2>5, <3>1, ScanOK
    <3>2. CASE "top" \notin DueModules
      <4>1. /\ top' = top /\ work' = work /\ steady' = steady /\ proc' = proc /\ rt' = rt
            /\ pims'.last["top"] = pims.last["top"]
        BY <1>1, <1>10, <2>5, <3>2
      <4> QED BY <1>4, <4>1 DEF IInv, TopOK
    <3> QED BY <3>1, <3>2
  <2>7. HostOK'
    BY <1>1, <1>4, <2>4, <2>6, HostSame
  <2> QED BY <1>6, <1>7, <2>1, <2>2, <2>4, <2>6, <2>7 DEF IInv
<1> QED
  BY <1>8, <1>9, <1>10, FastCases

\* What the time step is told is made of what is there, and nothing of that changes until
\* the turn ends.
LEMMA TellOK ==
  ASSUME IInv, mosix_sf_get_info \/ EndTurn
  PROVE  IInv'
<1>1. /\ UNCHANGED <<host, p, pims, top, since>>
      /\ \/ turn = "step" /\ turn' = "told"
         \/ turn = "told" /\ turn' = "admin"
  BY DEF mosix_sf_get_info, EndTurn
<1>2. turn' = "told" => told' = Report
  BY DEF mosix_sf_get_info, EndTurn, Report
<1>3. ToldOK'
  BY <1>1, <1>2 DEF ToldOK, Report, host
<1>4. HostOK'
  BY <1>1 DEF host, IInv, HostOK
<1>5. LoopOK'
  BY <1>1 DEF host, IInv, LoopOK, Gathered
<1>6. ExternalOK'
  <2>1. /\ p' = p /\ rt' = rt /\ setBack' = setBack /\ file' = file
        /\ turn' # "stat" /\ turn # "stat"
    BY <1>1 DEF host
  <2> QED BY <2>1, Zenon DEF IInv, ExternalOK, Gathered
<1>7. ModulesOK' /\ ReloadOK' /\ TopOK'
  BY <1>1, NoModuleRuns DEF host
<1> QED
  BY <1>3, <1>4, <1>5, <1>6, <1>7 DEF IInv

\* The invariant is inductive.
LEMMA AlwaysIInv == Spec => []IInv
<1>1. IInv /\ [Next]_vars => IInv'
  <2> SUFFICES ASSUME IInv, [Next]_vars PROVE IInv'
    OBVIOUS
  <2>1. CASE UNCHANGED vars
    <3>1. UNCHANGED <<host, p, pims, top, since, turn, told>>
      BY <2>1 DEF vars
    <3>2. HostOK'
      BY <3>1 DEF host, IInv, HostOK
    <3>3. LoopOK'
      BY <3>1 DEF host, IInv, LoopOK, Gathered
    <3>4. ExternalOK'
      BY <3>1, Zenon DEF host, IInv, ExternalOK, Gathered
    <3>5. ModulesOK' /\ ReloadOK' /\ TopOK'
      BY <3>1, NoModuleRuns DEF host
    <3>6. ToldOK'
      BY <3>1 DEF host, IInv, ToldOK, Report
    <3> QED BY <3>2, <3>3, <3>4, <3>5, <3>6 DEF IInv
  <2>2. CASE Next
    BY <2>2, SlowOK, UpdateExternalOK, FastOK, TellOK, TickOK, SetClockBackOK, ChangeFileOK,
       SystemChangesOK, ConfChangesOK, ProcessChangesOK DEF Next
  <2> QED BY <2>1, <2>2
<1> QED
  BY <1>1, InitOK, PTL DEF Spec

-----------------------------------------------------------------------------
(***************************************************************************)
(* The theorems.                                                           *)
(***************************************************************************)

\* Every variable of the provider keeps its type: no clock reading, age or processor time
\* leaves its bounds, however the clock was set back.
THEOREM ProviderTypeCorrect == Spec => []TypeOK
BY AlwaysIInv, TypesAreImplied, PTL

\* What infod is told of its host is current, for every length of the periods, if the fast
\* one is short.
THEOREM ToldAlwaysCurrent ==
  ASSUME FastIsShort
  PROVE  Spec => []ToldCurrent
<1>1. IInv => ToldCurrent
  BY CurrentIsImplied
<1> QED
  BY <1>1, AlwaysIInv, PTL

\* What the built-in modules tell is what their files say, for every number of runs from one
\* reading to the next.
THEOREM PackedAlwaysTrue ==
  ASSUME FastIsShort
  PROVE  Spec => []PackedTrue
<1>1. IInv => PackedTrue
  BY PackedIsImplied
<1> QED
  BY <1>1, AlwaysIInv, PTL

\* A process that was scanned and has run since then is one the scan compares, and the
\* difference is what it used.
LEMMA ComparedExactly ==
  ASSUME IInv, top.count > 1, Reused = {}, clock - pims.last["top"] = rt - top.scanned
  PROVE  {i \in Seen \cap Known : Busy(i)}
           = {i \in steady \ Nines : proc[i].run /\ 100 * work[i] > MinCpu * (rt - top.scanned)}
<1> DEFINE time == rt - top.scanned
<1>1. time \in Int
  BY Constants DEF IInv, HostOK, TopOK, TopState
<1>2. Seen \cap Known = {i \in steady \ Nines : proc[i].run}
  <2>1. \A i \in Seen \cap Known : i \in steady \ Nines /\ proc[i].run
    BY DEF Seen, Known, Reused
  <2>2. \A i \in steady \ Nines : i \in Pids /\ proc[i].run /\ top.hash[i] # NotThere
    <3> SUFFICES ASSUME NEW i \in steady \ Nines
                 PROVE  i \in Pids /\ proc[i].run /\ top.hash[i] # NotThere
      OBVIOUS
    <3>1. /\ i \in Pids /\ proc[i].run /\ work[i] <= proc[i].utime
          /\ top.hash[i] = [utime |-> proc[i].utime - work[i], time |-> pims.last["top"]]
      BY DEF IInv, HostOK, TopOK
    <3>2. proc[i].utime \in Nat /\ work[i] \in Nat
      BY <3>1 DEF IInv, HostOK
    <3>3. top.hash[i].utime # -1
      BY <3>1, <3>2
    <3> QED BY <3>1, <3>3 DEF NotThere
  <2> QED BY <2>1, <2>2 DEF Seen, Known
<1>3. \A i \in steady \ Nines : Busy(i) <=> 100 * work[i] > MinCpu * time
  <2> SUFFICES ASSUME NEW i \in steady \ Nines
               PROVE  Busy(i) <=> 100 * work[i] > MinCpu * time
    OBVIOUS
  <2>1. /\ i \in Pids /\ work[i] <= proc[i].utime
        /\ top.hash[i] = [utime |-> proc[i].utime - work[i], time |-> pims.last["top"]]
    BY DEF IInv, HostOK, TopOK
  <2>2. proc[i].utime \in Nat /\ work[i] \in Nat
    BY <2>1 DEF IInv, HostOK
  <2>3. proc[i].utime - top.hash[i].utime = work[i] /\ clock - top.hash[i].time = time
    BY <2>1, <2>2
  <2>4. Unsigned(proc[i].utime - top.hash[i].utime) = work[i]
    BY <2>2, <2>3 DEF Unsigned
  <2>5. Busy(i) <=> work[i] > 0 /\ time >= 0 /\ 100 * work[i] > MinCpu * time
    BY <2>3, <2>4 DEF Busy
  <2>6. time >= 0
    <3>1. top.scanned <= rt /\ top.scanned \in Int /\ rt \in Int
      BY Constants DEF IInv, HostOK, TopOK, TopState
    <3> QED BY <3>1
  <2> HIDE DEF time
  <2>7. MinCpu * time >= 0 /\ MinCpu * time \in Int
    BY <1>1, <2>6, Constants
  <2>8. 100 * work[i] > MinCpu * time => work[i] > 0
    BY <2>2, <2>7
  <2> QED BY <2>5, <2>6, <2>8
<1> HIDE DEF time
<1> QED
  BY <1>2, <1>3 DEF time

\* The processes told of as using the processor are those that did, for every process table
\* and every share asked for.
THEOREM TopAlwaysExact == Spec => TopExact
<1> DEFINE A == top'.count > top.count /\ top.count > 1 /\ Reused = {}
                  /\ clock - pims.last["top"] = rt - top.scanned =>
                top'.list = {i \in steady \ Nines :
                               proc[i].run /\ 100 * work[i] > MinCpu * (rt - top.scanned)}
<1>1. IInv /\ [Next]_vars => [A]_vars
  <2> SUFFICES ASSUME IInv, Next, top'.count > top.count, top.count > 1, Reused = {},
                      clock - pims.last["top"] = rt - top.scanned
               PROVE  top'.list = {i \in steady \ Nines :
                                     proc[i].run /\ 100 * work[i] > MinCpu * (rt - top.scanned)}
    BY Zenon
  <2>1. top.count \in Nat
    BY DEF IInv, TopOK, TopState
  <2>2. top' # top
    BY <2>1
  <2>3. lp_fast_update_info
    BY <2>2 DEF Next, lp_slow_update_info, update_external_file, mosix_sf_get_info, EndTurn,
       Tick, SystemChanges, ConfChanges, SetClockBack, ChangeFile, ProcessChanges, loop
  <2>4. TopFinder_update
    BY <2>2, <2>3, FastCases
  <2>5. top'.list = {i \in Seen \cap Known : Busy(i)}
    BY <2>4 DEF TopFinder_update
  <2> QED BY <2>5, ComparedExactly
<1> HIDE DEF IInv
<1> QED
  BY <1>1, AlwaysIInv, PTL DEF Spec, TopExact

=============================================================================
