--------------------------- MODULE FlightsProofs ----------------------------
(***************************************************************************)
(* Proofs about what an autopilot flies, logs and counts, and what its     *)
(* records add up to.                                                      *)
(***************************************************************************)
EXTENDS Flights, LedgerProofs

-----------------------------------------------------------------------------
(* What was flown.                                                         *)

FlyingIn(p, a, b) == {i \in a..(b - 1) : p[i] = "flying"}

\* Flown before tick t.
FlownBy(p, t) == Cardinality(FlyingIn(p, 1, t))

LEMMA FlyingFinite ==
    ASSUME NEW p, NEW a \in Int, NEW b \in Int
    PROVE  /\ IsFiniteSet(FlyingIn(p, a, b)) /\ Cardinality(FlyingIn(p, a, b)) \in Nat
           /\ a <= b => Cardinality(FlyingIn(p, a, b)) <= b - a
<1>1. IsFiniteSet(a..(b - 1)) /\ Cardinality(a..(b - 1)) = IF a > b - 1 THEN 0 ELSE (b - 1) - a + 1
  BY FS_Interval
<1>2. FlyingIn(p, a, b) \in SUBSET (a..(b - 1))
  BY DEF FlyingIn
<1>3. /\ IsFiniteSet(FlyingIn(p, a, b)) /\ Cardinality(FlyingIn(p, a, b)) \in Nat
      /\ Cardinality(FlyingIn(p, a, b)) <= Cardinality(a..(b - 1))
  BY <1>1, <1>2, FS_Subset, FS_CardinalityType
<1> QED BY <1>1, <1>3

LEMMA FlyingFrom ==
    ASSUME NEW p, NEW a \in Nat \ {0}, NEW b \in Nat, a <= b
    PROVE  /\ FlownBy(p, a) \in Nat /\ FlownBy(p, b) \in Nat
           /\ FlownBy(p, b) = FlownBy(p, a) + Cardinality(FlyingIn(p, a, b))
           /\ FlownBy(p, a) <= FlownBy(p, b)
<1> DEFINE S == FlyingIn(p, 1, a)
<1> DEFINE T == FlyingIn(p, a, b)
<1>1. S \cup T = FlyingIn(p, 1, b) /\ S \cap T = {}
  BY DEF FlyingIn
<1>2. IsFiniteSet(S) /\ IsFiniteSet(T) /\ Cardinality(S) \in Nat /\ Cardinality(T) \in Nat
  BY FlyingFinite
<1> HIDE DEF S, T
<1>3. Cardinality(S \cup T) = Cardinality(S) + Cardinality(T) - Cardinality(S \cap T)
  BY <1>2, FS_Union
<1>4. Cardinality(S \cap T) = 0
  BY <1>1, FS_EmptySet
<1>5. FlownBy(p, a) = Cardinality(S) /\ FlownBy(p, b) = Cardinality(S \cup T)
  BY <1>1 DEF FlownBy, S
<1> QED BY <1>2, <1>3, <1>4, <1>5 DEF T

LEMMA BeforeNext ==
    ASSUME NEW p, NEW t \in Nat \ {0}
    PROVE  FlownBy(p, t + 1) = FlownBy(p, t) + (IF p[t] = "flying" THEN 1 ELSE 0)
<1>1. FlownBy(p, t + 1) = FlownBy(p, t) + Cardinality(FlyingIn(p, t, t + 1)) /\ FlownBy(p, t) \in Nat
  BY FlyingFrom
<1>2. FlyingIn(p, t, t + 1) = IF p[t] = "flying" THEN {t} ELSE {}
  BY DEF FlyingIn
<1>3. Cardinality({t}) = 1 /\ Cardinality({}) = 0
  BY FS_Singleton, FS_EmptySet
<1> QED BY <1>1, <1>2, <1>3

\* Nothing that follows changes what was flown before.
LEMMA BeforeStays ==
    ASSUME NEW p \in Seq(Modes), NEW mode \in Modes, NEW t \in 1..(Len(p) + 1)
    PROVE  FlownBy(Append(p, mode), t) = FlownBy(p, t)
<1>1. \A i \in 1..Len(p) : Append(p, mode)[i] = p[i]
  OBVIOUS
<1>2. FlyingIn(Append(p, mode), 1, t) = FlyingIn(p, 1, t)
  BY <1>1 DEF FlyingIn
<1> QED BY <1>2 DEF FlownBy

-----------------------------------------------------------------------------
(* The autopilot, its counter and its logs.                                *)

Recordings == [open : {TRUE}, first : Nat, last : Nat, holds : Contents,
               atBoot : Nat, seen : Nat, seenAt : Nat]

Begun == logs \cup (IF recording.open THEN {recording} ELSE {})

\* Flight the counter does not show yet.
Uncounted == FlownBy(past, Now) - (saved + unsaved)

\* Flight the counter did not show when the log began.
Debt(p, log) == FlownBy(p, log.first) - log.atBoot

CounterInv ==
    /\ autopilot \in Autopilots
    /\ past \in Seq(Modes) /\ Now \in 1..MaxTicks
    /\ saved \in Nat /\ unsaved \in Nat
    /\ Uncounted \in Nat
    /\ autopilot = "ardupilot" => unsaved <= Tolerance
    /\ autopilot = "px4" =>
          /\ Mode \in DisarmedModes => unsaved = 0
          /\ Now > 1 /\ Mode = "armed" /\ past[Now - 1] = "idle" => unsaved = 0

\* A log begins with at most a tolerance of flight not counted, and PX4's by arming.
BeginsWell(log) ==
    /\ log.first \in 1..Now
    /\ 0 <= Debt(past, log)
    /\ Debt(past, log) <= Tolerance + Uncounted
    /\ autopilot = "px4" =>
          log.first > 1 /\ past[log.first] = "armed" /\ past[log.first - 1] = "idle"

EndsWell(log) ==
    /\ log.last \in (log.first + 1)..Now
    /\ autopilot = "px4" => past[log.last] \in DisarmedModes

LogsInv ==
    /\ IsFiniteSet(logs) /\ logs \subseteq Recordings
    /\ recording.open \in BOOLEAN
    /\ recording.open => recording \in Recordings
    /\ \A log \in Begun : BeginsWell(log)
    /\ \A log \in logs : EndsWell(log)
    /\ \A l, m \in Begun : l.first <= m.first => Debt(past, l) <= Debt(past, m) + Tolerance
    /\ \A l, m \in logs : l = m \/ l.last <= m.first \/ m.last <= l.first
    /\ recording.open => \A l \in logs : l.last <= recording.first

StoredInv ==
    /\ IsFiniteSet(stored) /\ Cardinality(stored) <= MaxUploads
    /\ \A r \in stored : /\ r.ref \in 1..Cardinality(stored)
                         /\ \E log \in logs : r = Read(log, r.ref)
    /\ \A r, s \in stored : r.ref = s.ref => r = s

FlightsInv == CounterInv /\ LogsInv /\ StoredInv

LEMMA FlightsStart ==
    ASSUME FlightsInit
    PROVE  FlightsInv
<1>1. past = <<"idle">> /\ Len(past) = 1 /\ past \in Seq(Modes) /\ past[1] = "idle"
  BY DEF FlightsInit, Modes
<1>2. FlownBy(past, 1) \in Nat
  BY FlyingFinite DEF FlownBy
<1>3. CounterInv
  BY <1>1, <1>2, FlightsAssumption, FlightLogsAssumption
     DEF FlightsInit, CounterInv, Uncounted, Now, Mode, DisarmedModes
<1>4. LogsInv
  BY FS_EmptySet DEF FlightsInit, LogsInv, Begun, NoLog
<1>5. StoredInv
  BY FS_EmptySet, FlightsAssumption DEF FlightsInit, StoredInv
<1> QED BY <1>3, <1>4, <1>5 DEF FlightsInv

\* What a tick does to the history and the counter.
LEMMA TickCounts ==
    ASSUME FlightsInv, NEW mode \in Modes, Tick(mode)
    PROVE  /\ CounterInv'
           /\ Now' = Now + 1
           /\ \A i \in 1..Now : past'[i] = past[i]
           /\ past'[Now + 1] = mode
           /\ \A t \in 1..Now : FlownBy(past', t) = FlownBy(past, t)
           /\ Uncounted' >= Uncounted
<1> DEFINE n == Now
<1> DEFINE f == IF Mode = "flying" THEN 1 ELSE 0
<1>1. /\ past \in Seq(Modes) /\ n \in Nat \ {0} /\ n = Len(past) /\ n <= MaxTicks
      /\ saved \in Nat /\ unsaved \in Nat /\ Uncounted \in Nat
      /\ MaxTicks \in Nat /\ Tolerance \in Nat
  BY FlightsAssumption, FlightLogsAssumption DEF FlightsInv, CounterInv, Now
<1>2. past' = Append(past, mode) /\ n < MaxTicks /\ mode \in Follows(Mode)
  BY DEF Tick
<1>3. /\ past' \in Seq(Modes) /\ Now' = n + 1 /\ past'[n + 1] = mode
      /\ \A i \in 1..n : past'[i] = past[i]
  BY <1>1, <1>2 DEF Now
<1>4. \A t \in 1..(n + 1) : FlownBy(past', t) = FlownBy(past, t)
  BY <1>1, <1>2, BeforeStays
<1>5. FlownBy(past, n + 1) = FlownBy(past, n) + f /\ FlownBy(past, n) \in Nat
  BY <1>1, BeforeNext, FlyingFrom DEF Mode
<1>6. FlownBy(past', Now') = FlownBy(past, n) + f
  BY <1>1, <1>3, <1>4, <1>5
<1>7. PICK saves \in Saves(mode, unsaved + f) :
         /\ saved' = IF saves THEN saved + (unsaved + f) ELSE saved
         /\ unsaved' = IF saves \/ mode = "off" THEN 0 ELSE unsaved + f
  BY DEF Tick
<1>8. f \in Nat /\ (Mode # "flying" => f = 0)
  OBVIOUS
<1> HIDE DEF f
<1>9. PICK s \in Nat, u \in Nat : saved' = s /\ unsaved' = u /\ s + u <= saved + unsaved + f
  <2>1. ASSUME NEW s, NEW u, s = (IF saves THEN saved + (unsaved + f) ELSE saved),
               u = (IF saves \/ mode = "off" THEN 0 ELSE unsaved + f)
        PROVE  s \in Nat /\ u \in Nat /\ s + u <= saved + unsaved + f
    BY <1>1, <1>8, <2>1
  <2> QED BY <1>7, <2>1
<1>10. autopilot' = autopilot /\ autopilot \in {"px4", "ardupilot"} /\ autopilot \in Autopilots
  BY FlightsAssumption DEF Tick, FlightsInv, CounterInv
<1>11. autopilot = "ardupilot" => unsaved' <= Tolerance
  <2> SUFFICES ASSUME autopilot = "ardupilot" PROVE unsaved' <= Tolerance
    OBVIOUS
  <2>1. saves \/ ~(unsaved + f > Tolerance)
    BY <1>7 DEF Saves
  <2> QED BY <1>1, <1>7, <1>8, <2>1
<1>12. ASSUME autopilot = "px4"
       PROVE  /\ mode \in DisarmedModes => unsaved' = 0
              /\ mode = "armed" /\ Mode = "idle" => unsaved' = 0
  <2>1. Mode \in DisarmedModes => unsaved = 0
    BY <1>12 DEF FlightsInv, CounterInv
  <2>2. saves = (mode = "idle" /\ Mode \in ArmedModes)
    BY <1>7, <1>12 DEF Saves
  <2>3. ASSUME mode = "idle" PROVE unsaved' = 0
    <3>1. CASE Mode \in ArmedModes
      BY <1>7, <2>2, <2>3, <3>1
    <3>2. CASE Mode \notin ArmedModes
      <4>1. Mode \in Modes
        BY <1>1 DEF Mode, Now
      <4>2. Mode \in DisarmedModes /\ Mode # "flying"
        BY <3>2, <4>1 DEF Modes, ArmedModes, DisarmedModes
      <4> QED BY <1>1, <1>7, <1>8, <2>1, <4>2
    <3> QED BY <3>1, <3>2
  <2>4. ASSUME mode = "off" PROVE unsaved' = 0
    BY <1>7, <2>4
  <2>5. ASSUME mode = "armed", Mode = "idle" PROVE unsaved' = 0
    <3>1. Mode \in DisarmedModes /\ Mode # "flying"
      BY <2>5 DEF DisarmedModes
    <3> QED BY <1>1, <1>7, <1>8, <2>1, <3>1
  <2> QED BY <2>3, <2>4, <2>5 DEF DisarmedModes
<1>13. Mode' = mode /\ (n + 1) - 1 = n /\ past'[Now' - 1] = Mode
  BY <1>1, <1>3 DEF Mode, Now
<1>14. Uncounted' \in Nat /\ Uncounted' >= Uncounted
  <2>1. PICK k : FlownBy(past', Now') = k
    OBVIOUS
  <2>2. Uncounted' = k - (s + u)
    BY <1>9, <2>1 DEF Uncounted
  <2>3. /\ k = FlownBy(past, n) + f /\ FlownBy(past, n) \in Nat /\ f \in Nat
        /\ s + u <= saved + unsaved + f /\ saved + unsaved \in Nat /\ s + u \in Nat
        /\ Uncounted = FlownBy(past, n) - (saved + unsaved) /\ Uncounted \in Nat
    BY <1>1, <1>5, <1>6, <1>8, <1>9, <2>1 DEF Uncounted
  <2>4. k - (s + u) \in Nat /\ k - (s + u) >= Uncounted
    BY <2>3
  <2> QED BY <2>2, <2>4
<1>15. CounterInv'
  <2>1. Now' \in 1..MaxTicks
    BY <1>1, <1>2, <1>3
  <2> QED BY <1>3, <1>9, <1>10, <1>11, <1>12, <1>13, <1>14, <2>1 DEF CounterInv
<1> QED BY <1>1, <1>3, <1>4, <1>14, <1>15

\* What one log stands for another: both began with the same counter at the same moment.
AsBegun(l, m) == l.first = m.first /\ l.atBoot = m.atBoot

\* What was known of the logs begun is known of those that stand for them.
LEMMA BegunKept ==
    ASSUME FlightsInv, CounterInv', Now <= Now', autopilot' = autopilot,
           \A i \in 1..Now : past'[i] = past[i],
           \A t \in 1..Now : FlownBy(past', t) = FlownBy(past, t),
           Uncounted' >= Uncounted, NEW x, NEW y \in Begun, AsBegun(x, y)
    PROVE  BeginsWell(x)' /\ Debt(past', x) = Debt(past, y)
<1>1. BeginsWell(y) /\ Now \in Nat /\ Now' \in Nat
  BY DEF FlightsInv, LogsInv, CounterInv
<1>2. x.first \in 1..Now /\ FlownBy(past', x.first) = FlownBy(past, y.first)
  BY <1>1 DEF BeginsWell, AsBegun
<1>3. Debt(past', x) = Debt(past, y)
  BY <1>2 DEF Debt, AsBegun
<1>4. ASSUME autopilot = "px4"
      PROVE  x.first > 1 /\ past'[x.first] = "armed" /\ past'[x.first - 1] = "idle"
  <2>1. x.first > 1 /\ past[x.first] = "armed" /\ past[x.first - 1] = "idle"
    BY <1>1, <1>4 DEF BeginsWell, AsBegun
  <2>2. x.first - 1 \in 1..Now
    BY <1>1, <1>2, <2>1
  <2> QED BY <1>2, <2>1, <2>2
<1>5. Debt(past, y) \in Int
  <2>1. y \in Recordings
    BY DEF FlightsInv, LogsInv, Begun
  <2>2. y.atBoot \in Nat /\ y.first \in Int
    BY <2>1 DEF Recordings
  <2>3. FlownBy(past, y.first) \in Nat
    BY <2>2, FlyingFinite DEF FlownBy
  <2> QED BY <2>2, <2>3 DEF Debt
<1>6. PICK v : Uncounted' = v
  OBVIOUS
<1>7. 0 <= Debt(past', x) /\ Debt(past', x) <= Tolerance + v
  <2>1. v \in Nat /\ v >= Uncounted /\ Uncounted \in Nat /\ Tolerance \in Nat
    BY <1>6, FlightLogsAssumption DEF FlightsInv, CounterInv
  <2>2. 0 <= Debt(past, y) /\ Debt(past, y) <= Tolerance + Uncounted
    BY <1>1 DEF BeginsWell
  <2> QED BY <1>3, <1>5, <2>1, <2>2
<1>8. x.first \in 1..Now'
  BY <1>1, <1>2
<1> QED BY <1>3, <1>4, <1>6, <1>7, <1>8 DEF BeginsWell

\* A step of time, or none: what was, was.
Goes ==
    /\ CounterInv' /\ Now' >= Now /\ autopilot' = autopilot
    /\ \A i \in 1..Now : past'[i] = past[i]
    /\ \A t \in 1..Now : FlownBy(past', t) = FlownBy(past, t)
    /\ Uncounted' >= Uncounted

\* The log being written goes on or ends.
Recorded(x) ==
    /\ recording.open /\ x \in Recordings /\ AsBegun(x, recording)
    /\ \/ recording' = x /\ logs' = logs
       \/ recording' = NoLog /\ logs' = logs \cup {x} /\ EndsWell(x)'

LEMMA LogsKept ==
    ASSUME FlightsInv, Goes, NEW x, UNCHANGED <<recording, logs>> \/ Recorded(x)
    PROVE  LogsInv'
<1>1. /\ IsFiniteSet(logs') /\ logs' \subseteq Recordings
      /\ recording'.open \in BOOLEAN /\ (recording'.open => recording' \in Recordings)
  <2>1. CASE UNCHANGED <<recording, logs>>
    BY <2>1 DEF FlightsInv, LogsInv
  <2>2. CASE Recorded(x)
    <3>1. IsFiniteSet(logs \cup {x}) /\ IsFiniteSet(logs)
      BY FS_AddElement DEF FlightsInv, LogsInv
    <3>2. NoLog.open = FALSE /\ (x \in Recordings => x.open \in BOOLEAN)
      BY DEF NoLog, Recordings
    <3> QED BY <2>2, <3>1, <3>2 DEF Recorded, FlightsInv, LogsInv
  <2> QED BY <2>1, <2>2
<1>2. \A l \in logs' : l \in logs \/ (Recorded(x) /\ l = x /\ recording' = NoLog /\ EndsWell(x)')
  BY DEF Recorded
<1>3. ASSUME NEW l \in Begun' PROVE \E y \in Begun : AsBegun(l, y) /\ (l \in logs' /\ l # y => l = x)
  <2>1. l \in logs' \/ (recording'.open /\ l = recording')
    BY DEF Begun
  <2>2. CASE l \in logs
    BY <2>2 DEF Begun, AsBegun
  <2>3. CASE l \notin logs
    <3>1. recording.open /\ recording \in Begun
      <4>1. recording.open
        BY <2>1, <2>3 DEF Recorded
      <4> QED BY <4>1 DEF Begun
    <3>2. AsBegun(l, recording) /\ (l \in logs' => l = x)
      BY <2>1, <2>3 DEF Recorded, AsBegun, NoLog
    <3> QED BY <3>1, <3>2
  <2> QED BY <2>2, <2>3
<1>4. ASSUME NEW l, NEW y \in Begun, AsBegun(l, y)
      PROVE  BeginsWell(l)' /\ Debt(past', l) = Debt(past, y)
  BY <1>4, BegunKept DEF Goes
<1>5. \A l \in Begun' : BeginsWell(l)'
  BY <1>3, <1>4
<1>6. ASSUME NEW l \in Begun', NEW m \in Begun', l.first <= m.first
      PROVE  Debt(past', l) <= Debt(past', m) + Tolerance
  <2>1. PICK y \in Begun : AsBegun(l, y)
    BY <1>3
  <2>2. PICK z \in Begun : AsBegun(m, z)
    BY <1>3
  <2>3. Debt(past, y) <= Debt(past, z) + Tolerance
    BY <1>6, <2>1, <2>2 DEF FlightsInv, LogsInv, AsBegun
  <2> QED BY <1>4, <2>1, <2>2, <2>3
<1>7. ASSUME NEW l \in logs' PROVE EndsWell(l)'
  <2>1. CASE l \in logs
    <3>1. EndsWell(l) /\ Now \in Nat /\ l.first \in Nat
      <4>1. EndsWell(l) /\ BeginsWell(l)
        BY <2>1 DEF FlightsInv, LogsInv, Begun
      <4>2. Now \in Nat
        BY DEF FlightsInv, CounterInv
      <4> QED BY <4>1, <4>2 DEF BeginsWell
    <3>2. PICK k : Now' = k
      OBVIOUS
    <3>3. k \in Nat /\ k >= Now
      BY <3>2 DEF Goes, CounterInv
    <3>4. l.last \in (l.first + 1)..k /\ l.last \in 1..Now
      BY <3>1, <3>3 DEF EndsWell
    <3>5. autopilot = "px4" => past'[l.last] \in DisarmedModes
      BY <3>1, <3>4 DEF EndsWell, Goes
    <3> QED BY <3>2, <3>4, <3>5 DEF EndsWell, Goes
  <2>2. CASE l \notin logs
    BY <1>2, <2>2
  <2> QED BY <2>1, <2>2
<1>8. ASSUME NEW l \in logs, recording.open PROVE l.last <= recording.first
  BY <1>8 DEF FlightsInv, LogsInv
<1>9. ASSUME NEW l \in logs', NEW m \in logs' PROVE l = m \/ l.last <= m.first \/ m.last <= l.first
  <2>1. CASE l \in logs /\ m \in logs
    BY <2>1 DEF FlightsInv, LogsInv
  <2>2. CASE l \in logs /\ m \notin logs
    BY <1>2, <1>8, <2>2 DEF Recorded, AsBegun
  <2>3. CASE l \notin logs /\ m \in logs
    BY <1>2, <1>8, <2>3 DEF Recorded, AsBegun
  <2>4. CASE l \notin logs /\ m \notin logs
    BY <1>2, <2>4
  <2> QED BY <2>1, <2>2, <2>3, <2>4
<1>10. ASSUME recording'.open, NEW l \in logs' PROVE l.last <= recording'.first
  <2>1. CASE UNCHANGED <<recording, logs>>
    BY <1>8, <1>10, <2>1
  <2>2. CASE Recorded(x)
    <3>1. recording' = x /\ logs' = logs
      BY <1>10, <2>2 DEF Recorded, NoLog
    <3> QED BY <1>8, <2>2, <3>1 DEF Recorded, AsBegun
  <2> QED BY <2>1, <2>2
<1> QED BY <1>1, <1>5, <1>6, <1>7, <1>9, <1>10 DEF LogsInv

LEMMA StoredKept ==
    ASSUME FlightsInv, UNCHANGED <<autopilot, past, stored>>, logs \subseteq logs'
    PROVE  StoredInv'
<1>1. \A log \in logs : \A ref : Read(log, ref)' = Read(log, ref)
  BY DEF Read, Px4Read, ArduPilotRead, Start, Flight, TimeWhileSet, Lifetime, Boot
<1>2. ASSUME NEW r \in stored PROVE \E log \in logs' : r = Read(log, r.ref)'
  <2>1. PICK log \in logs : r = Read(log, r.ref)
    BY DEF FlightsInv, StoredInv
  <2> QED BY <1>1, <2>1
<1> QED BY <1>2 DEF FlightsInv, StoredInv

LEMMA TickKeeps ==
    ASSUME FlightsInv, NEW mode \in Modes, Tick(mode)
    PROVE  FlightsInv'
<1>1. Goes /\ Now' = Now + 1 /\ past'[Now + 1] = mode
  <2>1. Now \in Nat /\ autopilot' = autopilot
    BY DEF FlightsInv, CounterInv, Tick
  <2>2. /\ CounterInv' /\ Now' = Now + 1 /\ past'[Now + 1] = mode
        /\ \A i \in 1..Now : past'[i] = past[i]
        /\ \A t \in 1..Now : FlownBy(past', t) = FlownBy(past, t)
        /\ Uncounted' >= Uncounted
    BY TickCounts
  <2>3. Now + 1 >= Now
    BY <2>1
  <2> QED BY <2>1, <2>2, <2>3 DEF Goes
<1>2. \E x : UNCHANGED <<recording, logs>> \/ Recorded(x)
  <2>1. CASE ~recording.open
    BY <2>1 DEF Tick
  <2>2. CASE recording.open
    <3>1. PICK saves : LET log == IF saves /\ mode # "off" THEN Noted(recording) ELSE recording
                       IN  IF LogEnds(mode)
                           THEN /\ logs' = logs \cup {Finished(log)}
                                /\ recording' = NoLog
                           ELSE /\ recording' = log
                                /\ UNCHANGED logs
      BY <2>2 DEF Tick
    <3>2. PICK log : log = IF saves /\ mode # "off" THEN Noted(recording) ELSE recording
      OBVIOUS
    <3>3. recording \in Recordings /\ BeginsWell(recording) /\ saved' \in Nat /\ Now \in Nat
      BY <1>1, <2>2 DEF FlightsInv, LogsInv, Begun, Goes, CounterInv
    <3>4. log \in Recordings /\ AsBegun(log, recording)
      <4>1. PICK s \in Nat : saved' = s
        BY <3>3
      <4>2. Now + 1 - recording.first \in Nat
        BY <3>3 DEF BeginsWell
      <4>3. log = recording \/ log = [recording EXCEPT !.seen = s, !.seenAt = Now + 1 - recording.first]
        BY <3>2, <4>1 DEF Noted
      <4>4. \A k \in Nat : LET l == [recording EXCEPT !.seen = s, !.seenAt = k]
                           IN  l \in Recordings /\ AsBegun(l, recording)
        BY <3>3, <4>1 DEF Recordings, AsBegun
      <4>5. AsBegun(recording, recording)
        BY DEF AsBegun
      <4> QED BY <3>3, <4>2, <4>3, <4>4, <4>5
    <3>5. CASE LogEnds(mode)
      <4>1. PICK x : x = [log EXCEPT !.last = Now + 1]
        OBVIOUS
      <4>2. x \in Recordings /\ AsBegun(x, recording) /\ x.last = Now + 1 /\ x.first = recording.first
        <5>1. \A k \in Nat : LET l == [log EXCEPT !.last = k]
                             IN  l \in Recordings /\ AsBegun(l, log) /\ l.last = k
          BY <3>4 DEF Recordings, AsBegun
        <5>2. Now + 1 \in Nat
          BY <3>3
        <5> QED BY <3>4, <4>1, <5>1, <5>2 DEF AsBegun
      <4>3. logs' = logs \cup {x} /\ recording' = NoLog
        BY <3>1, <3>2, <3>5, <4>1 DEF Finished
      <4>4. mode \in DisarmedModes
        BY <3>5 DEF LogEnds, DisarmedModes
      <4>5. Now + 1 \in (x.first + 1)..(Now + 1)
        BY <3>3, <4>2 DEF BeginsWell
      <4>6. EndsWell(x)'
        BY <1>1, <4>2, <4>4, <4>5 DEF EndsWell
      <4> QED BY <2>2, <4>2, <4>3, <4>6 DEF Recorded
    <3>6. CASE ~LogEnds(mode)
      <4>1. logs' = logs /\ recording' = log
        BY <3>1, <3>2, <3>6
      <4> QED BY <2>2, <3>4, <4>1 DEF Recorded
    <3> QED BY <3>5, <3>6
  <2> QED BY <2>1, <2>2
<1>3. LogsInv'
  BY <1>1, <1>2, LogsKept
<1>4. StoredInv'
  BY FS_EmptySet, FlightsAssumption DEF Tick, StoredInv
<1> QED BY <1>1, <1>3, <1>4 DEF Goes, FlightsInv

\* Steps in which no time passes.
LEMMA NoTimePasses ==
    ASSUME FlightsInv, UNCHANGED <<autopilot, past, saved, unsaved>>
    PROVE  Goes /\ Now' = Now /\ Uncounted' = Uncounted
<1>1. Now' = Now /\ Mode' = Mode /\ Uncounted' = Uncounted
  BY DEF Now, Mode, Uncounted
<1>2. CounterInv'
  BY <1>1 DEF FlightsInv, CounterInv
<1>3. Now >= Now /\ Uncounted >= Uncounted
  BY DEF FlightsInv, CounterInv
<1> QED BY <1>1, <1>2, <1>3 DEF Goes

LEMMA StopLogKeeps ==
    ASSUME FlightsInv, StopLog
    PROVE  FlightsInv'
<1>1. Goes /\ Now' = Now
  BY NoTimePasses DEF StopLog
<1>2. Now \in Nat /\ recording \in Recordings /\ BeginsWell(recording)
  BY DEF FlightsInv, CounterInv, LogsInv, Begun, StopLog
<1>3. PICK x : x = [recording EXCEPT !.last = Now]
  OBVIOUS
<1>4. x \in Recordings /\ AsBegun(x, recording) /\ x.last = Now /\ x.first = recording.first
  <2>1. \A k \in Nat : LET l == [recording EXCEPT !.last = k]
                       IN  l \in Recordings /\ AsBegun(l, recording) /\ l.last = k
    BY <1>2 DEF Recordings, AsBegun
  <2> QED BY <1>2, <1>3, <2>1 DEF AsBegun
<1>5. EndsWell(x)'
  <2>1. x.last \in (x.first + 1)..Now
    BY <1>2, <1>4 DEF BeginsWell, StopLog
  <2>2. autopilot # "px4"
    BY DEF StopLog
  <2> QED BY <1>1, <2>1, <2>2 DEF EndsWell, Goes
<1>6. Recorded(x)
  BY <1>3, <1>4, <1>5 DEF Recorded, StopLog
<1>7. LogsInv'
  BY <1>1, <1>6, LogsKept
<1>8. StoredInv'
  BY StoredKept DEF StopLog
<1> QED BY <1>1, <1>7, <1>8 DEF Goes, FlightsInv

\* A log begins at the last tick: whatever log is there began before it, and it owes
\* what the counter owes.
LEMMA StartLogKeeps ==
    ASSUME FlightsInv, NEW holds \in Contents, StartLog(holds)
    PROVE  FlightsInv'
<1>1. Goes /\ Now' = Now /\ Uncounted' = Uncounted
  BY NoTimePasses DEF StartLog
<1>2. PICK x : recording' = x
  OBVIOUS
<1>3. /\ x = [open |-> TRUE, first |-> Now, last |-> Now, holds |-> holds,
              atBoot |-> saved, seen |-> saved, seenAt |-> 0]
      /\ ~recording.open /\ logs' = logs
  BY <1>2 DEF StartLog
<1>4. /\ Now \in Nat \ {0} /\ saved \in Nat /\ unsaved \in Nat /\ Uncounted \in Nat
      /\ Tolerance \in Nat /\ autopilot \in {"px4", "ardupilot"}
      /\ past' = past /\ autopilot' = autopilot
  BY FlightLogsAssumption, FlightsAssumption DEF FlightsInv, CounterInv, StartLog
<1>5. x \in Recordings /\ x.open /\ x.first = Now /\ x.atBoot = saved
  BY <1>3, <1>4 DEF Recordings
<1>6. Begun' = logs \cup {x} /\ Begun = logs
  BY <1>2, <1>3, <1>5 DEF Begun
<1>7. unsaved <= Tolerance /\ (autopilot = "px4" => unsaved = 0 /\ Now > 1 /\ Mode = "armed"
                                                      /\ past[Now - 1] = "idle")
  <2>1. autopilot = "px4" => Mode = "armed" /\ Now > 1 /\ past[Now - 1] = "idle"
    BY DEF StartLog
  <2>2. autopilot = "px4" => unsaved = 0
    BY <2>1 DEF FlightsInv, CounterInv
  <2>3. autopilot = "ardupilot" => unsaved <= Tolerance
    BY DEF FlightsInv, CounterInv
  <2> QED BY <1>4, <2>1, <2>2, <2>3
<1>8. Debt(past, x) = Uncounted + unsaved
  <2>1. FlownBy(past, Now) \in Nat
    BY <1>4, FlyingFinite DEF FlownBy
  <2> QED BY <1>4, <1>5, <2>1 DEF Debt, Uncounted
<1>9. BeginsWell(x)'
  <2>1. 0 <= Debt(past, x) /\ Debt(past, x) <= Tolerance + Uncounted
    BY <1>4, <1>7, <1>8
  <2>2. x.first \in 1..Now
    BY <1>4, <1>5
  <2>3. autopilot = "px4" => x.first > 1 /\ past[x.first] = "armed" /\ past[x.first - 1] = "idle"
    BY <1>5, <1>7 DEF Mode
  <2> QED BY <1>1, <1>4, <2>1, <2>2, <2>3 DEF BeginsWell
<1>10. ASSUME NEW l \in logs
       PROVE  /\ BeginsWell(l) /\ EndsWell(l) /\ l \in Recordings
              /\ l.first < Now /\ l.last <= Now /\ l.first \in Nat /\ Debt(past, l) \in Int
  <2>1. BeginsWell(l) /\ EndsWell(l) /\ l \in Recordings
    BY <1>10 DEF FlightsInv, LogsInv, Begun
  <2>2. l.first \in 1..Now /\ l.last \in (l.first + 1)..Now /\ l.atBoot \in Nat
    BY <2>1 DEF BeginsWell, EndsWell, Recordings
  <2>3. FlownBy(past, l.first) \in Nat
    BY <2>2, FlyingFinite DEF FlownBy
  <2> QED BY <1>4, <2>1, <2>2, <2>3 DEF Debt
<1>11. \A l \in Begun' : BeginsWell(l)'
  <2>1. ASSUME NEW l \in logs PROVE BeginsWell(l)'
    BY <1>1, <1>4, <1>10 DEF BeginsWell
  <2> QED BY <1>6, <1>9, <2>1
<1>12. \A l \in logs' : EndsWell(l)'
  BY <1>1, <1>3, <1>4, <1>10 DEF EndsWell
<1>13. ASSUME NEW l \in Begun', NEW m \in Begun', l.first <= m.first
       PROVE  Debt(past, l) <= Debt(past, m) + Tolerance
  <2>1. CASE l \in logs /\ m \in logs
    BY <1>13, <2>1 DEF FlightsInv, LogsInv, Begun
  <2>2. CASE l \in logs /\ m = x
    <3>1. Debt(past, l) <= Tolerance + Uncounted /\ Debt(past, l) \in Int
      BY <1>10, <2>2 DEF BeginsWell
    <3> QED BY <1>4, <1>8, <2>2, <3>1
  <2>3. CASE l = x /\ m \in logs
    BY <1>4, <1>5, <1>10, <1>13, <2>3
  <2>4. CASE l = x /\ m = x
    BY <1>4, <1>8, <2>4
  <2> QED BY <1>6, <2>1, <2>2, <2>3, <2>4
<1>14. \A l \in logs' : l.last <= x.first
  BY <1>3, <1>5, <1>10
<1>15. LogsInv'
  BY <1>2, <1>3, <1>4, <1>5, <1>11, <1>12, <1>13, <1>14 DEF FlightsInv, LogsInv
<1>16. StoredInv'
  BY StoredKept DEF StartLog
<1> QED BY <1>1, <1>15, <1>16 DEF Goes, FlightsInv

LEMMA UploadLogKeeps ==
    ASSUME FlightsInv, NEW log \in logs, UploadLog(log)
    PROVE  FlightsInv'
<1>1. Goes /\ Now' = Now
  BY NoTimePasses DEF UploadLog
<1>2. LogsInv'
  BY <1>1, LogsKept DEF UploadLog
<1>3. PICK n : n = Cardinality(stored) + 1
  OBVIOUS
<1>4. PICK r : r = Read(log, n)
  OBVIOUS
<1>5. r.ref = n
  BY <1>4 DEF Read, Px4Read, ArduPilotRead
<1>6. IsFiniteSet(stored) /\ Cardinality(stored) \in Nat /\ Cardinality(stored) < MaxUploads /\ MaxUploads \in Nat
  BY FS_CardinalityType, FlightsAssumption DEF FlightsInv, StoredInv, UploadLog
<1>7. r \notin stored
  BY <1>3, <1>5, <1>6 DEF FlightsInv, StoredInv
<1>8. stored' = stored \cup {r} /\ IsFiniteSet(stored \cup {r}) /\ Cardinality(stored \cup {r}) = n
  BY <1>3, <1>4, <1>6, <1>7, FS_AddElement DEF UploadLog
<1>9. \A l \in logs : \A ref : Read(l, ref)' = Read(l, ref)
  BY DEF UploadLog, Read, Px4Read, ArduPilotRead, Start, Flight, TimeWhileSet, Lifetime, Boot
<1>10. ASSUME NEW s \in stored' PROVE s.ref \in 1..n /\ \E l \in logs : s = Read(l, s.ref)'
  <2>1. CASE s = r
    BY <1>3, <1>4, <1>5, <1>6, <1>9, <2>1
  <2>2. CASE s \in stored
    <3>1. s.ref \in 1..Cardinality(stored) /\ \E l \in logs : s = Read(l, s.ref)
      BY <2>2 DEF FlightsInv, StoredInv
    <3> QED BY <1>3, <1>6, <1>9, <3>1
  <2> QED BY <1>8, <2>1, <2>2
<1>11. ASSUME NEW s \in stored', NEW t \in stored', s.ref = t.ref PROVE s = t
  <2>1. \A u \in stored : u.ref \in 1..Cardinality(stored)
    BY DEF FlightsInv, StoredInv
  <2>2. CASE s \in stored /\ t \in stored
    BY <1>11, <2>2 DEF FlightsInv, StoredInv
  <2>3. \A u \in stored : u.ref # r.ref
    BY <1>3, <1>5, <1>6, <2>1
  <2> QED BY <1>8, <1>11, <2>2, <2>3
<1>12. logs' = logs /\ Cardinality(stored') = n /\ n <= MaxUploads
  <2>1. logs' = logs
    BY DEF UploadLog
  <2>2. Cardinality(stored') = n
    BY <1>8
  <2>3. n <= MaxUploads
    BY <1>3, <1>6
  <2> QED BY <2>1, <2>2, <2>3
<1>13. StoredInv'
  <2>1. IsFiniteSet(stored') /\ Cardinality(stored)' = n
    BY <1>8, <1>12
  <2>2. \A s \in stored' : s.ref \in 1..n /\ \E l \in logs' : s = Read(l, s.ref)'
    BY <1>10, <1>12
  <2> QED BY <1>11, <1>12, <2>1, <2>2 DEF StoredInv
<1> QED BY <1>1, <1>2, <1>13 DEF Goes, FlightsInv

\* What the history, the logs and the records of them always are.
THEOREM FlightsInductive == FlightsSpec => []FlightsInv
<1>1. FlightsInit => FlightsInv
  BY FlightsStart
<1>2. FlightsInv /\ [FlightsNext]_flightVars => FlightsInv'
  <2> SUFFICES ASSUME FlightsInv, [FlightsNext]_flightVars PROVE FlightsInv'
    OBVIOUS
  <2>1. ASSUME NEW mode \in Modes, Tick(mode) PROVE FlightsInv'
    BY <2>1, TickKeeps
  <2>2. ASSUME NEW holds \in Contents, StartLog(holds) PROVE FlightsInv'
    BY <2>2, StartLogKeeps
  <2>3. CASE StopLog
    BY <2>3, StopLogKeeps
  <2>4. ASSUME NEW log \in logs, UploadLog(log) PROVE FlightsInv'
    BY <2>4, UploadLogKeeps
  <2>5. CASE UNCHANGED flightVars
    <3>1. Goes /\ LogsInv'
      BY <2>5, NoTimePasses, LogsKept DEF flightVars
    <3>2. StoredInv'
      BY <2>5, StoredKept DEF flightVars
    <3> QED BY <3>1, <3>2 DEF Goes, FlightsInv
  <2> QED BY <2>1, <2>2, <2>3, <2>4, <2>5 DEF FlightsNext
<1> QED BY <1>1, <1>2, PTL DEF FlightsSpec

-----------------------------------------------------------------------------
(* What a record says of its log.                                          *)

LEMMA LogIs ==
    ASSUME FlightsInv, NEW log \in logs
    PROVE  /\ log.first \in Nat \ {0} /\ log.last \in Nat /\ log.first < log.last
           /\ Now \in Nat /\ log.last <= Now /\ Now <= MaxTicks /\ log.holds \in Contents
           /\ log.atBoot \in Nat /\ log.seen \in Nat /\ log.seenAt \in Nat
           /\ TimeWhileSet(log) \in Nat /\ TimeWhileSet(log) <= log.last - log.first
           /\ FlownBy(past, log.first) \in Nat /\ FlownBy(past, log.last) \in Nat
           /\ FlownBy(past, log.last) = FlownBy(past, log.first) + TimeWhileSet(log)
<1>1. log \in Recordings /\ BeginsWell(log) /\ EndsWell(log) /\ Now \in 1..MaxTicks /\ MaxTicks \in Nat
  BY FlightsAssumption DEF FlightsInv, CounterInv, LogsInv, Begun
<1>2. /\ log.first \in Nat \ {0} /\ log.last \in Nat /\ log.first < log.last
      /\ Now \in Nat /\ log.last <= Now /\ Now <= MaxTicks
  BY <1>1 DEF BeginsWell, EndsWell
<1>3. /\ log.holds \in Contents
      /\ log.atBoot \in Nat /\ log.seen \in Nat /\ log.seenAt \in Nat
  BY <1>1 DEF Recordings
<1>4. TimeWhileSet(log) = Cardinality(FlyingIn(past, log.first, log.last))
  BY DEF TimeWhileSet, FlyingIn
<1>5. TimeWhileSet(log) \in Nat /\ TimeWhileSet(log) <= log.last - log.first
  BY <1>2, <1>4, FlyingFinite
<1>6. /\ FlownBy(past, log.first) \in Nat /\ FlownBy(past, log.last) \in Nat
      /\ FlownBy(past, log.last) = FlownBy(past, log.first) + TimeWhileSet(log)
  BY <1>2, <1>4, FlyingFrom
<1> QED BY <1>2, <1>3, <1>5, <1>6

\* Two logs that begin together are one.
LEMMA LogsApart ==
    ASSUME FlightsInv, NEW l \in logs, NEW m \in logs
    PROVE  /\ l.first = m.first => l = m
           /\ l.first < m.first => l.last <= m.first
<1>1. l = m \/ l.last <= m.first \/ m.last <= l.first
  BY DEF FlightsInv, LogsInv
<1>2. /\ l.first \in Nat /\ l.last \in Nat /\ l.first < l.last
      /\ m.first \in Nat /\ m.last \in Nat /\ m.first < m.last
  BY LogIs
<1> QED BY <1>1, <1>2

LEMMA RecordSays ==
    ASSUME FlightsInv, NEW log \in logs, NEW ref, NEW r, r = Read(log, ref)
    PROVE  /\ r.ref = ref /\ r.source = autopilot /\ r.span = log.last - log.first
           /\ r.start = Start(log) /\ r.flight = Flight(log) /\ r.lifetime = Lifetime(log)
           /\ r.boot = (IF autopilot = "px4" THEN Unknown ELSE Boot(log.first))
           /\ r = [ref |-> r.ref, source |-> r.source, start |-> r.start, span |-> r.span,
                   flight |-> r.flight, boot |-> r.boot, lifetime |-> r.lifetime]
<1>1. autopilot = "px4" \/ autopilot = "ardupilot"
  BY FlightsAssumption DEF FlightsInv, CounterInv
<1>2. CASE autopilot = "px4"
  BY <1>2 DEF Read, Px4Read
<1>3. CASE autopilot = "ardupilot"
  BY <1>3 DEF Read, ArduPilotRead
<1> QED BY <1>1, <1>2, <1>3

LEMMA BootIs ==
    ASSUME NEW t \in Int
    PROVE  Boot(t) \in Nat
<1> DEFINE S == {i \in 2..t : past[i - 1] = "off" /\ past[i] # "off"}
<1>1. IsFiniteSet(2..t) /\ S \in SUBSET (2..t)
  BY FS_Interval
<1> HIDE DEF S
<1>2. Cardinality(S) \in Nat
  BY <1>1, FS_Subset, FS_CardinalityType
<1> QED BY <1>2 DEF Boot, S

\* Later boots are counted no lower.
LEMMA BootRises ==
    ASSUME NEW t \in Int, NEW u \in Int, t <= u
    PROVE  Boot(t) <= Boot(u)
<1> DEFINE S(n) == {i \in 2..n : past[i - 1] = "off" /\ past[i] # "off"}
<1>1. IsFiniteSet(2..u) /\ S(u) \in SUBSET (2..u) /\ S(t) \in SUBSET S(u)
  BY FS_Interval
<1>2. Boot(t) = Cardinality(S(t)) /\ Boot(u) = Cardinality(S(u))
  BY DEF Boot
<1> HIDE DEF S
<1>3. IsFiniteSet(S(u))
  BY <1>1, FS_Subset
<1> QED BY <1>1, <1>2, <1>3, FS_Subset

LEMMA RecordTyped ==
    ASSUME FlightsInv, NEW r \in stored
    PROVE  /\ r \in FlightRecords(1..MaxUploads, Autopilots, 0..MaxTicks)
           /\ r \in FlightRecords(Nat, STRING, Nat)
<1>1. PICK log \in logs : r = Read(log, r.ref)
  BY DEF FlightsInv, StoredInv
<1>2. /\ log.first \in Nat \ {0} /\ log.last \in Nat /\ log.first < log.last
      /\ Now \in Nat /\ log.last <= Now /\ Now <= MaxTicks /\ MaxTicks \in Nat
      /\ log.atBoot \in Nat /\ log.seen \in Nat /\ log.seenAt \in Nat
      /\ TimeWhileSet(log) \in Nat /\ TimeWhileSet(log) <= log.last - log.first
  BY LogIs, FlightsAssumption
<1>3. /\ r.source = autopilot /\ r.span = log.last - log.first
      /\ r.start = Start(log) /\ r.flight = Flight(log) /\ r.lifetime = Lifetime(log)
      /\ r.boot = (IF autopilot = "px4" THEN Unknown ELSE Boot(log.first))
      /\ r = [ref |-> r.ref, source |-> r.source, start |-> r.start, span |-> r.span,
              flight |-> r.flight, boot |-> r.boot, lifetime |-> r.lifetime]
  BY <1>1, RecordSays
<1>4. r.ref \in 1..MaxUploads
  <2>1. /\ r.ref \in 1..Cardinality(stored) /\ Cardinality(stored) <= MaxUploads
        /\ Cardinality(stored) \in Nat /\ MaxUploads \in Nat
    BY FS_CardinalityType, FlightsAssumption DEF FlightsInv, StoredInv
  <2> QED BY <2>1
<1>5. r.source \in Autopilots /\ r.source \in STRING
  <2>1. autopilot \in Autopilots
    BY DEF FlightsInv, CounterInv
  <2>2. autopilot \in STRING
    BY <2>1, FlightsAssumption
  <2> QED BY <1>3, <2>1, <2>2
<1>6. r.start \in (0..MaxTicks) \cup {Unknown} /\ r.span \in 0..MaxTicks
  BY <1>2, <1>3 DEF Start
<1>7. r.flight \in (0..MaxTicks) \cup {Unknown}
  BY <1>2, <1>3 DEF Flight
<1>8. r.boot \in Nat \cup {Unknown}
  BY <1>2, <1>3, BootIs
<1>9. r.lifetime \in [atBoot : Nat, seen : Nat, seenAt : Nat] \cup {Unknown}
  BY <1>2, <1>3 DEF Lifetime
<1>10. r \in FlightRecords(1..MaxUploads, Autopilots, 0..MaxTicks)
  BY <1>3, <1>4, <1>5, <1>6, <1>7, <1>8, <1>9 DEF FlightRecords
<1>11. r.ref \in Nat /\ r.start \in Nat \cup {Unknown} /\ r.span \in Nat /\ r.flight \in Nat \cup {Unknown}
  BY <1>4, <1>6, <1>7
<1>12. r \in FlightRecords(Nat, STRING, Nat)
  BY <1>3, <1>5, <1>8, <1>9, <1>11 DEF FlightRecords
<1> QED BY <1>10, <1>12

LEMMA StoredLogged ==
    ASSUME FlightsInv
    PROVE  Logged(stored) /\ FlightsTypeOK
<1>1. Logged(stored)
  BY RecordTyped DEF FlightsInv, StoredInv, Logged
<1>2. FlightsTypeOK
  BY RecordTyped DEF FlightsInv, CounterInv, LogsInv, FlightsTypeOK
<1> QED BY <1>1, <1>2

-----------------------------------------------------------------------------
(* Dated records in order, and the ones kept of those that show one log.   *)

\* Records that are dated, and whose boots are counted in the order they began.
DatedInOrder(g) ==
    /\ Logged(g) /\ Dated(g)
    /\ Booted(g) => \A r, s \in g : r.start < s.start => r.boot <= s.boot

LEMMA PlacedByStart ==
    ASSUME NEW g, DatedInOrder(g), NEW x \in g, NEW y \in g, Precedes(Placed(g, x), Placed(g, y))
    PROVE  x.start <= y.start
<1>1. Logged(g) /\ Dated(g)
  BY DEF DatedInOrder
<1>2. ASSUME NEW r \in g
      PROVE  /\ r.ref \in Int /\ r.start \in Int /\ StorePlace(r) = <<0, r.start, r.ref>>
             /\ Booted(g) => r.boot \in Int
  <2>1. /\ r.ref \in Nat /\ r.start \in Nat \cup {Unknown} /\ r.boot \in Nat \cup {Unknown}
    BY <1>1, RecordIs
  <2>2. Known(r.start)
    BY <1>1 DEF Dated
  <2> QED BY <2>1, <2>2 DEF Known, StorePlace, Booted
<1>3. CASE Booted(g)
  <2>1. \A r \in g : Placed(g, r) = <<r.boot, 0, r.start, r.ref>>
    BY <1>2, <1>3, Joined DEF Placed
  <2>2. PICK p, q : p = Placed(g, x) /\ q = Placed(g, y)
    OBVIOUS
  <2>3. \A a, b, c, d, r : r = <<a, b, c, d>> =>
           r[1] = a /\ r[2] = b /\ r[3] = c /\ r[4] = d /\ r = <<r[1], r[2], r[3], r[4]>>
    OBVIOUS
  <2>4. /\ p[1] = x.boot /\ p[2] = 0 /\ p[3] = x.start /\ p[4] = x.ref
        /\ p = <<p[1], p[2], p[3], p[4]>>
    BY <2>1, <2>2, <2>3
  <2>5. /\ q[1] = y.boot /\ q[2] = 0 /\ q[3] = y.start /\ q[4] = y.ref
        /\ q = <<q[1], q[2], q[3], q[4]>>
    BY <2>1, <2>2, <2>3
  <2>6. \/ p[1] < q[1]
        \/ p[1] = q[1] /\ p[2] < q[2]
        \/ p[1] = q[1] /\ p[2] = q[2] /\ p[3] < q[3]
        \/ p[1] = q[1] /\ p[2] = q[2] /\ p[3] = q[3] /\ p[4] < q[4]
    BY <2>2, <2>4, <2>5, PrecedesByFour
  <2>7. x.boot < y.boot \/ x.start <= y.start
    BY <1>2, <2>4, <2>5, <2>6
  <2>8. y.start < x.start => y.boot <= x.boot
    BY <1>3 DEF DatedInOrder
  <2> QED BY <1>2, <1>3, <2>7, <2>8
<1>4. CASE ~Booted(g)
  <2>1. \A r \in g : Placed(g, r) = <<0, r.start, r.ref>>
    BY <1>2, <1>4 DEF Placed
  <2>2. PICK a \in Int, b \in Int, c \in Int, d \in Int :
           a = x.start /\ b = x.ref /\ c = y.start /\ d = y.ref
    BY <1>2
  <2>3. Precedes(<<0, a, b>>, <<0, c, d>>)
    BY <2>1, <2>2
  <2>4. a <= c
    BY <2>3, PrecedesIs
  <2> QED BY <2>2, <2>4
<1> QED BY <1>3, <1>4

\* In order they come by their starts, every one of them.
LEMMA OrderedByStart ==
    ASSUME NEW g, DatedInOrder(g)
    PROVE  /\ Ordered(g) \in Seq(g)
           /\ \A r \in g : \E n \in DOMAIN Ordered(g) : Ordered(g)[n] = r
           /\ \A i, j \in DOMAIN Ordered(g) : i <= j => Ordered(g)[i].start <= Ordered(g)[j].start
<1> DEFINE R == [p \in g \X g |-> Precedes(Placed(g, p[1]), Placed(g, p[2]))]
<1> DEFINE Below(x) == {y \in g : Precedes(Placed(g, y), Placed(g, x))}
<1> DEFINE At(n) == CHOOSE x \in g : Cardinality(Below(x)) = n - 1
<1>1. Ordered(g) = [n \in 1..Cardinality(g) |-> At(n)]
  BY DEF Ordered, SortedBy, Placed
<1>2. IsFiniteSet(g) /\ Cardinality(g) \in Nat /\ Orders(R, g) /\ Logged(g)
  BY FS_CardinalityType, PlacesOrder DEF DatedInOrder, Logged
<1>3. \A x \in g : Under(R, g, x) = Below(x)
  BY DEF Under
<1>4. \A x, y \in g : R[<<x, y>>] => x.start <= y.start
  BY PlacedByStart
<1>5. \A x \in g : IsFiniteSet(Below(x)) /\ Below(x) \in SUBSET g
  BY <1>2, FS_Subset
<1>6. ASSUME NEW x \in g, NEW y \in g, R[<<x, y>>] PROVE x \in Below(y)
  BY <1>6
<1> HIDE DEF R, Below
<1>7. ASSUME NEW n \in 1..Cardinality(g) PROVE At(n) \in g /\ Cardinality(Below(At(n))) = n - 1
  <2>1. PICK x \in g : Cardinality(Under(R, g, x)) = n - 1
    BY <1>2, RankExists
  <2>2. Cardinality(Below(x)) = n - 1
    BY <1>3, <2>1
  <2> QED BY <2>2
<1>8. ASSUME NEW x \in g, NEW y \in g, Cardinality(Below(x)) = Cardinality(Below(y)) PROVE x = y
  BY <1>2, <1>3, <1>8, RankUnique
<1>9. ASSUME NEW x \in g PROVE Cardinality(Below(x)) + 1 \in 1..Cardinality(g)
  <2>1. x \notin Below(x)
    BY <1>2, <1>3 DEF Orders, Under
  <2>2. Below(x) \in SUBSET (g \ {x}) /\ IsFiniteSet(g \ {x}) /\ Cardinality(g \ {x}) = Cardinality(g) - 1
    BY <1>2, <1>5, <2>1, FS_RemoveElement
  <2>3. Cardinality(Below(x)) <= Cardinality(g \ {x}) /\ Cardinality(Below(x)) \in Nat
    BY <1>5, <2>2, FS_Subset, FS_CardinalityType
  <2> QED BY <1>2, <2>2, <2>3
<1>10. ASSUME NEW x \in g, NEW y \in g, Cardinality(Below(x)) <= Cardinality(Below(y))
       PROVE  x.start <= y.start
  <2>1. CASE x = y
    <3>1. x.start \in Nat
      BY <1>2, RecordIs DEF DatedInOrder, Dated, Known
    <3> QED BY <2>1, <3>1
  <2>2. CASE R[<<x, y>>]
    BY <1>4, <2>2
  <2>3. CASE R[<<y, x>>]
    <3>1. Below(y) \in SUBSET (Below(x) \ {y}) /\ y \in Below(x)
      <4>1. Under(R, g, y) \subseteq Under(R, g, x) \ {y} /\ y \in Under(R, g, x)
        BY <1>2, <2>3 DEF Orders, Under
      <4> QED BY <1>3, <4>1
    <3>2. Cardinality(Below(x) \ {y}) = Cardinality(Below(x)) - 1 /\ IsFiniteSet(Below(x) \ {y})
      BY <1>5, <3>1, FS_RemoveElement
    <3>3. Cardinality(Below(y)) <= Cardinality(Below(x) \ {y})
      BY <3>1, <3>2, FS_Subset
    <3>4. Cardinality(Below(x)) \in Nat /\ Cardinality(Below(y)) \in Nat
      BY <1>5, FS_CardinalityType
    <3> QED BY <1>10, <3>2, <3>3, <3>4
  <2> QED BY <1>2, <2>1, <2>2, <2>3 DEF Orders
<1> HIDE DEF At
<1>11. DOMAIN Ordered(g) = 1..Cardinality(g) /\ \A n \in 1..Cardinality(g) : Ordered(g)[n] = At(n)
  BY <1>1
<1>12. Ordered(g) \in Seq(g)
  BY <1>2, OrderedIs
<1>13. ASSUME NEW r \in g PROVE \E n \in DOMAIN Ordered(g) : Ordered(g)[n] = r
  <2>1. PICK n \in 1..Cardinality(g) : n = Cardinality(Below(r)) + 1
    BY <1>9
  <2>2. At(n) \in g /\ Cardinality(Below(At(n))) = n - 1
    BY <1>7
  <2>3. Cardinality(Below(r)) \in Nat
    BY <1>5, FS_CardinalityType
  <2>4. At(n) = r
    BY <1>8, <2>1, <2>2, <2>3
  <2> QED BY <1>11, <2>4
<1>14. ASSUME NEW i \in DOMAIN Ordered(g), NEW j \in DOMAIN Ordered(g), i <= j
       PROVE  Ordered(g)[i].start <= Ordered(g)[j].start
  <2>1. /\ At(i) \in g /\ Cardinality(Below(At(i))) = i - 1
        /\ At(j) \in g /\ Cardinality(Below(At(j))) = j - 1
    BY <1>7, <1>11
  <2>2. i - 1 <= j - 1
    BY <1>2, <1>11, <1>14
  <2>3. At(i).start <= At(j).start
    BY <1>10, <2>1, <2>2
  <2> QED BY <1>11, <2>3
<1> QED BY <1>12, <1>13, <1>14

\* Where two records show one log just when they begin together, one is kept of those that do.
LEMMA KeptByStart ==
    ASSUME NEW g, \A r \in g : r.start \in Nat,
           \A r, s \in g : SameLog(r, s) <=> r.start = s.start,
           NEW o \in Seq(g), \A i, j \in DOMAIN o : i <= j => o[i].start <= o[j].start
    PROVE  /\ FirstUploads(o) \in Seq(g)
           /\ \A i, j \in DOMAIN FirstUploads(o) :
                 i < j => FirstUploads(o)[i].start < FirstUploads(o)[j].start
           /\ \A i \in DOMAIN o : \E j \in DOMAIN FirstUploads(o) :
                 FirstUploads(o)[j].start = o[i].start
<1> DEFINE Well(n, k) ==
      /\ k \in Seq(g)
      /\ \A i, j \in DOMAIN k : i < j => k[i].start < k[j].start
      /\ \A j \in DOMAIN k : \E i \in 1..n : k[j].start = o[i].start
      /\ \A i \in 1..n : \E j \in DOMAIN k : k[j].start = o[i].start
<1>1. PICK h : KeptUpTo(o, g, h)
  BY FirstUploadsSteps
<1>2. Len(o) \in Nat /\ DOMAIN o = 1..Len(o) /\ \A i \in DOMAIN o : o[i] \in g
  OBVIOUS
<1> DEFINE K == {n \in Nat : n <= Len(o) => Well(n, h[1..n])}
<1>3. 0 \in K
  <2>1. 1..0 = {} /\ h[{}] = <<>>
    <3>1. PICK s : s = {}
      OBVIOUS
    <3>2. s \in SUBSET DOMAIN o
      BY <3>1
    <3>3. h[s] = <<>>
      BY <1>1, <3>1, <3>2 DEF KeptUpTo
    <3> QED BY <3>1, <3>3
  <2>2. <<>> \in Seq(g) /\ DOMAIN <<>> = {}
    OBVIOUS
  <2>3. Well(0, <<>>)
    BY <2>1, <2>2
  <2> HIDE DEF Well
  <2> QED BY <2>1, <2>3
<1>4. ASSUME NEW n \in Nat, n \in K PROVE n + 1 \in K
  <2> SUFFICES ASSUME n + 1 <= Len(o) PROVE Well(n + 1, h[1..(n + 1)])
    <3> HIDE DEF Well
    <3> QED OBVIOUS
  <2>1. PICK k : k = h[1..n]
    OBVIOUS
  <2>2. Well(n, k)
    <3> HIDE DEF Well
    <3> QED BY <1>2, <1>4, <2>1
  <2>3. PICK r \in g : r = o[n + 1]
    BY <1>2
  <2>4. h[1..(n + 1)] = Keep(k, r)
    <3>1. PICK s : s = 1..(n + 1)
      OBVIOUS
    <3>2. s \in SUBSET DOMAIN o /\ s # {}
      BY <1>2, <3>1
    <3>3. Max(s) = n + 1
      <4>1. \A m : (m \in s /\ \A l \in s : m >= l) <=> m = n + 1
        BY <3>1
      <4>2. Max(s) = CHOOSE m : m \in s /\ \A l \in s : m >= l
        BY <4>1 DEF Max
      <4> QED BY <4>1, <4>2
    <3>4. s \ {n + 1} = 1..n
      BY <3>1
    <3>5. h[s] = Keep(h[s \ {Max(s)}], o[Max(s)])
      BY <1>1, <3>2 DEF KeptUpTo
    <3> QED BY <2>1, <2>3, <3>1, <3>3, <3>4, <3>5
  <2>5. Len(k) \in Nat /\ DOMAIN k = 1..Len(k) /\ \A j \in DOMAIN k : k[j] \in g
    BY <2>2
  <2>6. ToSet(k) = {k[j] : j \in DOMAIN k}
    BY DEF ToSet
  <2>7. CASE \E j \in DOMAIN k : k[j].start = r.start
    <3>1. Keep(k, r) = k
      <4>1. PICK j \in DOMAIN k : k[j].start = r.start
        BY <2>7
      <4>2. k[j] \in ToSet(k) /\ SameLog(r, k[j])
        BY <2>5, <2>6, <4>1
      <4> QED BY <4>2 DEF Keep
    <3>2. \A j \in DOMAIN k : \E i \in 1..(n + 1) : k[j].start = o[i].start
      BY <2>2
    <3>3. \A i \in 1..(n + 1) : \E j \in DOMAIN k : k[j].start = o[i].start
      <4>1. \A i \in 1..(n + 1) : i \in 1..n \/ i = n + 1
        OBVIOUS
      <4> QED BY <2>2, <2>3, <2>7, <4>1
    <3> QED BY <2>2, <2>4, <3>1, <3>2, <3>3
  <2>8. CASE ~\E j \in DOMAIN k : k[j].start = r.start
    <3>1. Keep(k, r) = Append(k, r)
      <4>1. \A x \in ToSet(k) : ~SameLog(r, x)
        BY <2>5, <2>6, <2>8
      <4> QED BY <4>1 DEF Keep
    <3>2. PICK a : a = Append(k, r)
      OBVIOUS
    <3>3. /\ a \in Seq(g) /\ Len(a) = Len(k) + 1 /\ DOMAIN a = 1..(Len(k) + 1)
          /\ a[Len(k) + 1] = r /\ \A j \in 1..Len(k) : a[j] = k[j]
      BY <2>5, <2>2, <3>2
    <3>4. \A j \in DOMAIN k : k[j].start < r.start
      <4>1. TAKE j \in DOMAIN k
      <4>2. PICK i \in 1..n : k[j].start = o[i].start
        BY <2>2
      <4>3. i \in DOMAIN o /\ n + 1 \in DOMAIN o /\ i <= n + 1
        BY <1>2
      <4>4. o[i].start <= r.start
        BY <2>3, <4>3
      <4>5. k[j].start \in Nat /\ r.start \in Nat /\ k[j].start # r.start
        BY <2>5, <2>8
      <4> QED BY <4>2, <4>4, <4>5
    <3>5. ASSUME NEW i \in DOMAIN a, NEW j \in DOMAIN a, i < j PROVE a[i].start < a[j].start
      <4>1. i \in 1..Len(k) /\ (j \in 1..Len(k) \/ j = Len(k) + 1)
        BY <2>5, <3>3, <3>5
      <4> QED BY <2>2, <2>5, <3>3, <3>4, <3>5, <4>1
    <3>6. \A j \in DOMAIN a : \E i \in 1..(n + 1) : a[j].start = o[i].start
      <4>1. TAKE j \in DOMAIN a
      <4>2. CASE j = Len(k) + 1
        BY <2>3, <3>3, <4>2
      <4>3. CASE j \in 1..Len(k)
        <5>1. PICK i \in 1..n : k[j].start = o[i].start
          BY <2>2, <2>5, <4>3
        <5> QED BY <3>3, <4>3, <5>1
      <4> QED BY <2>5, <3>3, <4>2, <4>3
    <3>7. \A i \in 1..(n + 1) : \E j \in DOMAIN a : a[j].start = o[i].start
      <4>1. TAKE i \in 1..(n + 1)
      <4>2. CASE i = n + 1
        <5>1. Len(k) + 1 \in DOMAIN a
          BY <2>5, <3>3
        <5> QED BY <2>3, <3>3, <4>2, <5>1
      <4>3. CASE i \in 1..n
        <5>1. PICK j \in DOMAIN k : k[j].start = o[i].start
          BY <2>2, <4>3
        <5> QED BY <2>5, <3>3, <5>1
      <4> QED BY <4>2, <4>3
    <3>8. Well(n + 1, a)
      BY <3>3, <3>5, <3>6, <3>7
    <3> HIDE DEF Well
    <3> QED BY <2>4, <3>1, <3>2, <3>8
  <2> QED BY <2>7, <2>8
<1>5. Len(o) \in K
  <2> HIDE DEF K
  <2> QED BY <1>2, <1>3, <1>4, Reaches
<1>6. FirstUploads(o) = h[1..Len(o)]
  BY <1>1, <1>2 DEF KeptUpTo
<1>7. Well(Len(o), FirstUploads(o))
  <2> HIDE DEF Well
  <2> QED BY <1>2, <1>5, <1>6
<1> QED BY <1>2, <1>7

-----------------------------------------------------------------------------
(* The records that can be checked, and the logs they show.                *)

Shown == {r \in stored : Known(r.flight)}

ShownOnce == FirstUploads(Ordered(Shown))

ToldBy(r, log) ==
    /\ r.start = log.first /\ r.span = log.last - log.first /\ LogEnd(r) = log.last
    /\ r.lifetime.atBoot = log.atBoot
    /\ Known(r.flight) => r.flight = TimeWhileSet(log)

LEMMA TellingIs ==
    ASSUME FlightsInv, Telling(stored), NEW r \in Shown
    PROVE  \E log \in logs : ToldBy(r, log) /\ (Known(r.boot) => r.boot = Boot(log.first))
<1>1. PICK log \in logs : r = Read(log, r.ref)
  BY DEF FlightsInv, StoredInv, Shown
<1>2. /\ r.span = log.last - log.first
      /\ r.start = Start(log) /\ r.flight = Flight(log) /\ r.lifetime = Lifetime(log)
      /\ r.boot = (IF autopilot = "px4" THEN Unknown ELSE Boot(log.first))
  BY <1>1, RecordSays
<1>3. Known(r.start) /\ Known(r.lifetime)
  BY DEF Telling, Shown
<1>4. r.start = log.first /\ r.lifetime.atBoot = log.atBoot
  BY <1>2, <1>3 DEF Start, Lifetime, Known
<1>5. LogEnd(r) = log.last
  <2>1. log.first \in Nat /\ log.last \in Nat
    BY LogIs
  <2> QED BY <1>2, <1>3, <1>4, <2>1 DEF LogEnd
<1>6. Known(r.flight) => r.flight = TimeWhileSet(log)
  BY <1>2 DEF Flight, Known
<1>7. Known(r.boot) => r.boot = Boot(log.first)
  BY <1>2 DEF Known
<1> QED BY <1>2, <1>4, <1>5, <1>6, <1>7 DEF ToldBy

LEMMA ShownIs ==
    ASSUME FlightsInv, Telling(stored)
    PROVE  /\ DatedInOrder(Shown)
           /\ \A r \in Shown : r.start \in Nat
           /\ \A r, s \in Shown : SameLog(r, s) <=> r.start = s.start
           /\ Shown = {} => Groups(stored) = {}
           /\ Shown # {} => Groups(stored) = {Shown}
<1>1. Shown \in SUBSET stored /\ Logged(stored)
  BY StoredLogged DEF Shown
<1>2. Logged(Shown)
  BY <1>1, LoggedPart
<1>3. Dated(Shown)
  BY DEF Shown, Telling, Dated
<1>4. ASSUME NEW r \in Shown, NEW s \in Shown, Booted(Shown), r.start < s.start
      PROVE  r.boot <= s.boot
  <2>1. PICK l \in logs : ToldBy(r, l) /\ (Known(r.boot) => r.boot = Boot(l.first))
    BY <1>1, TellingIs
  <2>2. PICK m \in logs : ToldBy(s, m) /\ (Known(s.boot) => s.boot = Boot(m.first))
    BY <1>1, TellingIs
  <2>3. r.boot = Boot(l.first) /\ s.boot = Boot(m.first) /\ l.first < m.first
    BY <1>4, <2>1, <2>2 DEF Booted, ToldBy
  <2>4. l.first \in Nat /\ m.first \in Nat
    BY LogIs
  <2> QED BY <2>3, <2>4, BootRises
<1>5. ASSUME NEW r \in Shown PROVE r.start \in Nat /\ r.span \in Nat /\ Known(r.start)
  <2>1. PICK l \in logs : ToldBy(r, l)
    BY <1>1, TellingIs
  <2> QED BY <2>1, LogIs, FlightLogsAssumption DEF ToldBy, Known
<1>6. ASSUME NEW r \in Shown, NEW s \in Shown PROVE SameLog(r, s) <=> r.start = s.start
  <2>1. PICK l \in logs : ToldBy(r, l)
    BY <1>1, TellingIs
  <2>2. PICK m \in logs : ToldBy(s, m)
    BY <1>1, TellingIs
  <2>3. r.start = s.start => r.span = s.span
    BY <2>1, <2>2, LogsApart DEF ToldBy
  <2>4. Within(r.start, s.start) <=> r.start = s.start
    BY <1>5, FlightsAssumption DEF Within
  <2>5. r.span = s.span => Within(r.span, s.span)
    BY <1>5, FlightsAssumption DEF Within
  <2> QED BY <1>5, <2>3, <2>4, <2>5 DEF SameLog
<1>7. ASSUME NEW s \in SourcesOf(stored) PROVE Group(stored, s) = Shown
  <2>1. \A r \in stored : r.source = autopilot
    BY RecordSays DEF FlightsInv, StoredInv
  <2>2. \A r \in stored : r.source = s /\ (Checkable(r) <=> Known(r.flight))
    BY <2>1 DEF SourcesOf, Checkable, Telling
  <2> QED BY <2>2 DEF Group, Shown
<1>8. Shown # {} => SourcesOf(stored) # {}
  BY <1>1 DEF SourcesOf
<1>9. Orderable(Shown)
  BY <1>3 DEF Orderable
<1>10. Groups(stored) = {g \in {Group(stored, s) : s \in SourcesOf(stored)} : g # {} /\ Orderable(g)}
  BY DEF Groups
<1>11. Shown = {} => Groups(stored) = {}
  BY <1>7, <1>10
<1>12. Shown # {} => Groups(stored) = {Shown}
  BY <1>7, <1>8, <1>9, <1>10
<1> QED BY <1>2, <1>3, <1>4, <1>5, <1>6, <1>11, <1>12 DEF DatedInOrder

\* The logs of the records kept, in their order.
ShowsInTurn(k, m) ==
    /\ k \in Seq(Shown) /\ Len(k) \in Nat
    /\ \A i \in 1..Len(k) : k[i] \in Shown /\ m[i] \in logs /\ ToldBy(k[i], m[i])
    /\ \A i, j \in 1..Len(k) : i < j => m[i].first < m[j].first /\ m[i].last <= m[j].first
    /\ \A r \in Shown : \E j \in 1..Len(k) : r.start = k[j].start

LEMMA ShownOnceIs ==
    ASSUME FlightsInv, Telling(stored)
    PROVE  \E m : ShowsInTurn(ShownOnce, m)
<1> DEFINE o == Ordered(Shown)
<1> DEFINE k == FirstUploads(o)
<1>1. /\ o \in Seq(Shown)
      /\ \A r \in Shown : \E n \in DOMAIN o : o[n] = r
      /\ \A i, j \in DOMAIN o : i <= j => o[i].start <= o[j].start
  BY ShownIs, OrderedByStart
<1>2. /\ k \in Seq(Shown)
      /\ \A i, j \in DOMAIN k : i < j => k[i].start < k[j].start
      /\ \A i \in DOMAIN o : \E j \in DOMAIN k : k[j].start = o[i].start
  <2> HIDE DEF o
  <2>1. /\ \A r \in Shown : r.start \in Nat
        /\ \A r, s \in Shown : SameLog(r, s) <=> r.start = s.start
    BY ShownIs
  <2>2. PICK g : g = Shown
    OBVIOUS
  <2>3. PICK q : q = o
    OBVIOUS
  <2>4. /\ \A r \in g : r.start \in Nat
        /\ \A r, s \in g : SameLog(r, s) <=> r.start = s.start
        /\ q \in Seq(g) /\ \A i, j \in DOMAIN q : i <= j => q[i].start <= q[j].start
    BY <1>1, <2>1, <2>2, <2>3
  <2>5. /\ FirstUploads(q) \in Seq(g)
        /\ \A i, j \in DOMAIN FirstUploads(q) :
              i < j => FirstUploads(q)[i].start < FirstUploads(q)[j].start
        /\ \A i \in DOMAIN q : \E j \in DOMAIN FirstUploads(q) :
              FirstUploads(q)[j].start = q[i].start
    BY <2>4, KeptByStart
  <2> QED BY <2>2, <2>3, <2>5
<1>3. k = ShownOnce
  BY DEF ShownOnce
<1> HIDE DEF k, o
<1>4. Len(k) \in Nat /\ DOMAIN k = 1..Len(k) /\ \A i \in 1..Len(k) : k[i] \in Shown
  BY <1>2
<1> DEFINE m == [i \in 1..Len(k) |-> CHOOSE log \in logs : ToldBy(k[i], log)]
<1>5. ASSUME NEW i \in 1..Len(k) PROVE m[i] \in logs /\ ToldBy(k[i], m[i])
  <2>1. k[i] \in Shown
    BY <1>4
  <2>2. \E log \in logs : ToldBy(k[i], log)
    BY <2>1, TellingIs
  <2> QED BY <2>2
<1> HIDE DEF m
<1>6. ASSUME NEW i \in 1..Len(k), NEW j \in 1..Len(k), i < j
      PROVE  m[i].first < m[j].first /\ m[i].last <= m[j].first
  <2>1. m[i].first < m[j].first
    BY <1>2, <1>4, <1>5, <1>6 DEF ToldBy
  <2> QED BY <1>5, <2>1, LogsApart
<1>7. ASSUME NEW r \in Shown PROVE \E j \in 1..Len(k) : r.start = k[j].start
  <2>1. PICK n \in DOMAIN o : o[n] = r
    BY <1>1
  <2>2. PICK j \in DOMAIN k : k[j].start = o[n].start
    BY <1>2
  <2> QED BY <1>4, <2>1, <2>2
<1>8. ShowsInTurn(k, m)
  BY <1>2, <1>4, <1>5, <1>6, <1>7 DEF ShowsInTurn
<1> QED BY <1>3, <1>8

\* The counter's advance to the next log that this one does not show.
Gap(m, i) == m[i + 1].atBoot - (m[i].atBoot + TimeWhileSet(m[i]))

GapFlight(m, i) == [after |-> ShownOnce[i], seconds |-> Gap(m, i)]

\* The places of the logs after which flight is missing, up to n.
GapsTo(m, n) == {i \in 1..n : Gap(m, i) > Tolerance}

LEMMA GapsAre ==
    ASSUME FlightsInv, Telling(stored), NEW m, ShowsInTurn(ShownOnce, m)
    PROVE  /\ Duplicates(stored) = Shown \ ToSet(ShownOnce)
           /\ UnloggedFlights(stored) = {GapFlight(m, i) : i \in GapsTo(m, Len(ShownOnce) - 1)}
<1>1. PICK k : k = ShownOnce
  OBVIOUS
<1>2. k \in Seq(Shown) /\ Len(k) \in Nat
  BY <1>1 DEF ShowsInTurn
<1>3. ASSUME NEW i \in 1..(Len(k) - 1)
      PROVE  UnloggedBetween([log |-> k[i], next |-> k[i + 1]]) = Gap(m, i)
  <2>1. i \in 1..Len(k) /\ i + 1 \in 1..Len(k)
    BY <1>2
  <2>2. ToldBy(k[i], m[i]) /\ ToldBy(k[i + 1], m[i + 1]) /\ Known(k[i].flight)
    BY <1>1, <2>1 DEF ShowsInTurn, Shown
  <2> QED BY <2>2 DEF UnloggedBetween, Gap, ToldBy
<1>4. CASE Shown = {}
  <2>1. Groups(stored) = {}
    BY <1>4, ShownIs
  <2>2. Len(k) = 0
    BY <1>2, <1>4
  <2>3. GapsTo(m, Len(k) - 1) = {}
    BY <2>2 DEF GapsTo
  <2>4. Pairs(stored) = {} /\ Duplicates(stored) = {}
    BY <2>1 DEF Pairs, Duplicates
  <2>5. UnloggedFlights(stored) = {}
    BY <2>4 DEF UnloggedFlights
  <2> QED BY <1>1, <1>4, <2>3, <2>4, <2>5
<1>5. CASE Shown # {}
  <2>1. Groups(stored) = {Shown}
    BY <1>5, ShownIs
  <2>2. Duplicates(stored) = Shown \ ToSet(k)
    BY <1>1, <2>1 DEF Duplicates, ShownOnce
  <2>3. Pairs(stored) = {[log |-> k[i], next |-> k[i + 1]] : i \in 1..(Len(k) - 1)}
    BY <1>1, <2>1 DEF Pairs, ShownOnce
  <2>4. ASSUME NEW f \in UnloggedFlights(stored)
        PROVE  \E i \in GapsTo(m, Len(k) - 1) : f = GapFlight(m, i)
    <3>1. PICK q \in Pairs(stored) : /\ UnloggedBetween(q) > Tolerance
                                     /\ f = [after |-> q.log, seconds |-> UnloggedBetween(q)]
      BY DEF UnloggedFlights
    <3>2. PICK i \in 1..(Len(k) - 1) : q = [log |-> k[i], next |-> k[i + 1]]
      BY <2>3, <3>1
    <3>3. UnloggedBetween(q) = Gap(m, i) /\ q.log = k[i]
      BY <1>3, <3>2
    <3> QED BY <1>1, <3>1, <3>3 DEF GapsTo, GapFlight
  <2>5. ASSUME NEW i \in GapsTo(m, Len(k) - 1)
        PROVE  GapFlight(m, i) \in UnloggedFlights(stored)
    <3>1. i \in 1..(Len(k) - 1) /\ Gap(m, i) > Tolerance
      BY DEF GapsTo
    <3>2. PICK q : q = [log |-> k[i], next |-> k[i + 1]]
      OBVIOUS
    <3>3. q \in Pairs(stored) /\ UnloggedBetween(q) = Gap(m, i) /\ q.log = k[i]
      BY <1>3, <2>3, <3>1, <3>2
    <3> QED BY <1>1, <3>1, <3>3 DEF UnloggedFlights, GapFlight
  <2> QED BY <1>1, <2>2, <2>4, <2>5
<1> QED BY <1>4, <1>5

\* Flight a log shows, and what the next shows to be missing after it.
StepTold(m, i) == TimeWhileSet(m[i]) + (IF Gap(m, i) > Tolerance THEN Gap(m, i) ELSE 0)

LEMMA StepIs ==
    ASSUME FlightsInv, NEW k, NEW m, ShowsInTurn(k, m), NEW i \in 1..(Len(k) - 1)
    PROVE  LET flown == FlownBy(past, m[i + 1].first) - FlownBy(past, m[i].first)
               owed == Debt(past, m[i]) - Debt(past, m[i + 1])
               between == Cardinality(FlyingIn(past, m[i].last, m[i + 1].first))
           IN  /\ m[i + 1].first \in Nat /\ m[i].last \in Nat
               /\ TimeWhileSet(m[i]) \in Nat /\ Gap(m, i) \in Int
               /\ Debt(past, m[i]) \in Int /\ Debt(past, m[i + 1]) \in Int
               /\ StepTold(m, i) <= flown + Tolerance
               /\ StepTold(m, i) >= flown + owed - Tolerance
               /\ between \in Nat /\ Gap(m, i) <= between + Tolerance
<1>1. i \in 1..Len(k) /\ i + 1 \in 1..Len(k) /\ i < i + 1
  BY DEF ShowsInTurn
<1>2. m[i] \in logs /\ m[i + 1] \in logs /\ m[i].first < m[i + 1].first /\ m[i].last <= m[i + 1].first
  BY <1>1 DEF ShowsInTurn
<1>3. PICK l, n : l = m[i] /\ n = m[i + 1]
  OBVIOUS
<1>4. l \in logs /\ n \in logs /\ l.first < n.first /\ l.last <= n.first
  BY <1>2, <1>3
<1>5. /\ l.first \in Nat \ {0} /\ l.last \in Nat /\ l.first < l.last /\ l.atBoot \in Nat
      /\ TimeWhileSet(l) \in Nat
      /\ FlownBy(past, l.first) \in Nat /\ FlownBy(past, l.last) \in Nat
      /\ FlownBy(past, l.last) = FlownBy(past, l.first) + TimeWhileSet(l)
  BY <1>4, LogIs
<1>6. n.first \in Nat \ {0} /\ n.atBoot \in Nat /\ FlownBy(past, n.first) \in Nat
  BY <1>4, LogIs
<1>7. /\ FlownBy(past, n.first) = FlownBy(past, l.last) + Cardinality(FlyingIn(past, l.last, n.first))
      /\ Cardinality(FlyingIn(past, l.last, n.first)) \in Nat
  <2>1. l.last \in Nat \ {0}
    BY <1>5
  <2> QED BY <1>4, <1>6, <2>1, FlyingFrom, FlyingFinite
<1>8. Debt(past, l) <= Debt(past, n) + Tolerance
  BY <1>4, <1>5, <1>6 DEF FlightsInv, LogsInv, Begun
<1>9. /\ Debt(past, l) = FlownBy(past, l.first) - l.atBoot
      /\ Debt(past, n) = FlownBy(past, n.first) - n.atBoot
      /\ Gap(m, i) = n.atBoot - (l.atBoot + TimeWhileSet(l))
      /\ StepTold(m, i) = TimeWhileSet(l) + (IF Gap(m, i) > Tolerance THEN Gap(m, i) ELSE 0)
  BY <1>3 DEF Debt, Gap, StepTold
<1>10. Tolerance \in Nat
  BY FlightLogsAssumption
<1>11. PICK a, b, c, t, u, x, y, g, s :
          /\ a = FlownBy(past, l.first) /\ b = FlownBy(past, l.last) /\ c = FlownBy(past, n.first)
          /\ t = TimeWhileSet(l) /\ u = Cardinality(FlyingIn(past, l.last, n.first))
          /\ x = l.atBoot /\ y = n.atBoot /\ g = Gap(m, i) /\ s = StepTold(m, i)
  OBVIOUS
<1>12. /\ a \in Nat /\ b \in Nat /\ c \in Nat /\ t \in Nat /\ u \in Nat /\ x \in Nat /\ y \in Nat
       /\ b = a + t /\ c = b + u /\ g = y - (x + t) /\ a - x <= (c - y) + Tolerance
       /\ s = t + (IF g > Tolerance THEN g ELSE 0)
  BY <1>5, <1>6, <1>7, <1>8, <1>9, <1>11
<1>13. /\ g \in Int /\ a - x \in Int /\ c - y \in Int
       /\ s <= (c - a) + Tolerance
       /\ s >= (c - a) + ((a - x) - (c - y)) - Tolerance
       /\ g <= u + Tolerance
  BY <1>10, <1>12
<1> QED BY <1>3, <1>5, <1>6, <1>9, <1>11, <1>12, <1>13

LEMMA ShownTold ==
    ASSUME FlightsInv, Telling(stored), NEW k, NEW m, ShowsInTurn(k, m), NEW r \in Shown
    PROVE  \E j \in 1..Len(k) : r.start = m[j].first /\ ToldBy(r, m[j])
<1>1. PICK j \in 1..Len(k) : r.start = k[j].start
  BY DEF ShowsInTurn
<1>2. m[j] \in logs /\ ToldBy(k[j], m[j])
  BY DEF ShowsInTurn
<1>3. PICK l \in logs : ToldBy(r, l)
  BY TellingIs DEF Shown
<1>4. l = m[j]
  BY <1>1, <1>2, <1>3, LogsApart DEF ToldBy
<1> QED BY <1>3, <1>4 DEF ToldBy

LEMMA UncoveredStep ==
    ASSUME FlightsInv, Telling(stored), NEW f \in UnloggedFlights(stored)
    PROVE  f.seconds <= Tolerance
              + Cardinality({i \in 1..(Now - 1) :
                    /\ past[i] = "flying"
                    /\ \A r \in stored : Known(r.flight) => i \notin r.start..(LogEnd(r) - 1)})
<1>1. PICK k : k = ShownOnce
  OBVIOUS
<1>2. PICK m : ShowsInTurn(k, m)
  BY <1>1, ShownOnceIs
<1>3. PICK i \in 1..(Len(k) - 1) : f = GapFlight(m, i)
  BY <1>1, <1>2, GapsAre DEF GapsTo
<1> DEFINE S == FlyingIn(past, m[i].last, m[i + 1].first)
<1> DEFINE T == {x \in 1..(Now - 1) :
                   /\ past[x] = "flying"
                   /\ \A r \in stored : Known(r.flight) => x \notin r.start..(LogEnd(r) - 1)}
<1>4. Len(k) \in Nat /\ i \in 1..Len(k) /\ i + 1 \in 1..Len(k)
  BY <1>2, <1>3 DEF ShowsInTurn
<1>5. /\ m[i].first \in Nat \ {0} /\ m[i].last \in Nat /\ m[i].first < m[i].last
      /\ m[i + 1].first \in Nat /\ m[i + 1].last \in Nat /\ m[i + 1].first < m[i + 1].last
      /\ m[i + 1].last <= Now /\ Now \in Nat
  BY <1>2, <1>4, LogIs DEF ShowsInTurn
<1>6. ASSUME NEW x \in S PROVE x \in T
  <2>1. x \in Int /\ m[i].last <= x /\ x < m[i + 1].first /\ past[x] = "flying"
    BY <1>5 DEF FlyingIn
  <2>2. x \in 1..(Now - 1)
    BY <1>5, <2>1
  <2>3. ASSUME NEW r \in stored, Known(r.flight) PROVE x \notin r.start..(LogEnd(r) - 1)
    <3>1. PICK j \in 1..Len(k) : r.start = m[j].first /\ ToldBy(r, m[j])
      BY <1>2, <2>3, ShownTold DEF Shown
    <3>2. LogEnd(r) = m[j].last
      BY <3>1 DEF ToldBy
    <3>3. m[j].first \in Nat /\ m[j].last \in Nat
      BY <1>2, LogIs DEF ShowsInTurn
    <3>4. CASE j <= i
      <4>1. m[j].last <= m[i].last
        <5>1. CASE j = i
          BY <1>5, <5>1
        <5>2. CASE j < i
          <6>1. m[j].last <= m[i].first
            BY <1>2, <1>4, <5>2 DEF ShowsInTurn
          <6> QED BY <1>5, <3>3, <6>1
        <5> QED BY <1>4, <3>4, <5>1, <5>2
      <4> QED BY <1>5, <2>1, <3>2, <3>3, <4>1
    <3>5. CASE j > i
      <4>1. m[i + 1].first <= m[j].first
        <5>1. CASE j = i + 1
          BY <1>5, <5>1
        <5>2. CASE i + 1 < j
          <6>1. m[i + 1].first < m[j].first
            BY <1>2, <1>4, <5>2 DEF ShowsInTurn
          <6> QED BY <1>5, <3>3, <6>1
        <5> QED BY <1>4, <3>5, <5>1, <5>2
      <4> QED BY <1>5, <2>1, <3>1, <3>3, <4>1
    <3> QED BY <1>4, <3>4, <3>5
  <2> QED BY <2>1, <2>2, <2>3
<1>7. IsFiniteSet(1..(Now - 1)) /\ T \in SUBSET (1..(Now - 1))
  <2>1. Now - 1 \in Int
    BY <1>5
  <2>2. IsFiniteSet(1..(Now - 1))
    BY <2>1, FS_Interval
  <2>3. T \subseteq 1..(Now - 1)
    OBVIOUS
  <2> QED BY <2>2, <2>3
<1> HIDE DEF T
<1>8. IsFiniteSet(T) /\ Cardinality(T) \in Nat
  BY <1>7, FS_Subset, FS_CardinalityType
<1>9. Cardinality(S) <= Cardinality(T) /\ Cardinality(S) \in Nat
  <2>1. S \in SUBSET T
    BY <1>6
  <2> HIDE DEF S
  <2> QED BY <1>8, <2>1, FS_Subset, FS_CardinalityType
<1>10. f.seconds = Gap(m, i)
  BY <1>3 DEF GapFlight
<1>11. Gap(m, i) \in Int /\ Gap(m, i) <= Cardinality(S) + Tolerance
  BY <1>2, StepIs
<1>12. f.seconds <= Tolerance + Cardinality(T)
  <2> HIDE DEF S
  <2> QED BY <1>8, <1>9, <1>10, <1>11, FlightLogsAssumption
<1> QED BY <1>12 DEF T

\* Flight the autopilot counted that no log covers is, but for a tolerance, flight that none of
\* the logs in the store shows.
THEOREM UnloggedIsUncoveredAlways == FlightsSpec => []UnloggedIsUncovered
<1>1. FlightsInv => UnloggedIsUncovered
  BY UncoveredStep DEF UnloggedIsUncovered
<1> QED BY <1>1, FlightsInductive, PTL

-----------------------------------------------------------------------------
(* What the records add up to.                                             *)

LEMMA TotalMore ==
    ASSUME NEW v, NEW S, Summable(v, S), NEW x, x \notin S, v[x] \in Int
    PROVE  Total(v, S \cup {x}) = Total(v, S) + v[x] /\ Total(v, S) \in Int
<1>1. IsFiniteSet(S) /\ IsFiniteSet(S \cup {x}) /\ \A y \in S : v[y] \in Int
  BY FS_AddElement DEF Summable
<1>2. Summable(v, S \cup {x})
  BY <1>1 DEF Summable
<1>3. PICK T : T = S \cup {x}
  OBVIOUS
<1>4. x \in T /\ T \ {x} = S /\ Summable(v, T)
  BY <1>2, <1>3
<1>5. Total(v, T) = v[x] + Total(v, S)
  BY <1>4, TotalOut
<1>6. Total(v, S) \in Int
  BY TotalOut
<1>7. Total(v, T) = Total(v, S) + v[x]
  BY <1>5, <1>6
<1> QED BY <1>3, <1>6, <1>7

\* The records kept, to the n-th, and the flight missing after them.
KeptTo(n) == {ShownOnce[j] : j \in 1..n}
MissingTo(m, n) == {GapFlight(m, i) : i \in GapsTo(m, n)}

KeptTold(n) == Total(Values(stored), KeptTo(n))
MissingTold(m, n) == Total(Spans(UnloggedFlights(stored)), MissingTo(m, n))

LEMMA SummandsAre ==
    ASSUME FlightsInv
    PROVE  /\ \A S \in SUBSET stored : Summable(Values(stored), S)
           /\ \A r \in stored : Values(stored)[r] = Seconds(r) /\ Seconds(r) \in Nat
           /\ \A S \in SUBSET UnloggedFlights(stored) : Summable(Spans(UnloggedFlights(stored)), S)
           /\ \A f \in UnloggedFlights(stored) :
                 Spans(UnloggedFlights(stored))[f] = f.seconds /\ f.seconds \in Nat
<1>1. Logged(stored)
  BY StoredLogged
<1>2. PICK R : R = stored
  OBVIOUS
<1>3. PICK U : U = UnloggedFlights(R)
  OBVIOUS
<1>4. Logged(R) /\ R \in SUBSET R /\ U \in SUBSET UnloggedFlights(R)
  BY <1>1, <1>2, <1>3
<1>5. IsFiniteSet(R) /\ \A r \in R : Values(R)[r] \in Nat /\ Values(R)[r] = Seconds(r)
  BY <1>4, FlownIs
<1>6. IsFiniteSet(U) /\ \A f \in U : Spans(U)[f] \in Nat /\ Spans(U)[f] = f.seconds
  BY <1>4, UncoveredIs
<1>7. \A S \in SUBSET R : Summable(Values(R), S)
  BY <1>5, FS_Subset DEF Summable
<1>8. \A S \in SUBSET U : Summable(Spans(U), S)
  BY <1>6, FS_Subset DEF Summable
<1> QED BY <1>2, <1>3, <1>5, <1>6, <1>7, <1>8

LEMMA KeptNext ==
    ASSUME FlightsInv, Telling(stored), NEW m, ShowsInTurn(ShownOnce, m),
           NEW n \in Nat, n + 1 <= Len(ShownOnce)
    PROVE  /\ KeptTold(n) \in Int /\ TimeWhileSet(m[n + 1]) \in Nat
           /\ KeptTold(n + 1) = KeptTold(n) + TimeWhileSet(m[n + 1])
<1>1. PICK k : k = ShownOnce
  OBVIOUS
<1>2. /\ Len(k) \in Nat /\ n + 1 \in 1..Len(k)
      /\ \A i \in 1..Len(k) : k[i] \in stored /\ k[i] \in Shown /\ m[i] \in logs /\ ToldBy(k[i], m[i])
  <2>1. /\ Len(k) \in Nat
        /\ \A i \in 1..Len(k) : k[i] \in Shown /\ m[i] \in logs /\ ToldBy(k[i], m[i])
    BY <1>1 DEF ShowsInTurn
  <2>2. n + 1 \in 1..Len(k)
    BY <1>1, <2>1
  <2> QED BY <2>1, <2>2 DEF Shown
<1>3. KeptTo(n) \in SUBSET stored /\ KeptTo(n + 1) = KeptTo(n) \cup {k[n + 1]}
  BY <1>1, <1>2 DEF KeptTo
<1>4. k[n + 1] \notin KeptTo(n)
  <2>1. ASSUME NEW j \in 1..n, k[j] = k[n + 1] PROVE FALSE
    <3>1. j \in 1..Len(k) /\ j < n + 1
      BY <1>2
    <3>2. m[j].first < m[n + 1].first
      BY <1>1, <1>2, <3>1 DEF ShowsInTurn
    <3>3. m[j].first = m[n + 1].first
      BY <1>2, <2>1, <3>1 DEF ToldBy
    <3>4. m[j].first \in Nat
      BY <1>2, <3>1, LogIs
    <3> QED BY <3>2, <3>3, <3>4
  <2> QED BY <1>1, <2>1 DEF KeptTo
<1>5. Values(stored)[k[n + 1]] = TimeWhileSet(m[n + 1]) /\ TimeWhileSet(m[n + 1]) \in Nat
  <2>1. Known(k[n + 1].flight) /\ k[n + 1].flight = TimeWhileSet(m[n + 1])
    BY <1>2 DEF Shown, ToldBy
  <2>2. Seconds(k[n + 1]) = TimeWhileSet(m[n + 1])
    BY <2>1 DEF Seconds
  <2> QED BY <1>2, <2>2, SummandsAre
<1>6. Summable(Values(stored), KeptTo(n))
  BY <1>3, SummandsAre
<1>7. PICK v, S, x : v = Values(stored) /\ S = KeptTo(n) /\ x = k[n + 1]
  OBVIOUS
<1>8. Total(v, S \cup {x}) = Total(v, S) + v[x] /\ Total(v, S) \in Int
  <2>1. Summable(v, S) /\ x \notin S /\ v[x] \in Int
    BY <1>4, <1>5, <1>6, <1>7
  <2> QED BY <2>1, TotalMore
<1>9. KeptTold(n) = Total(v, S) /\ KeptTold(n + 1) = Total(v, S \cup {x}) /\ v[x] = TimeWhileSet(m[n + 1])
  BY <1>3, <1>5, <1>7 DEF KeptTold
<1> QED BY <1>5, <1>8, <1>9

LEMMA MissingNext ==
    ASSUME FlightsInv, Telling(stored), NEW m, ShowsInTurn(ShownOnce, m),
           NEW n \in Nat, n + 1 <= Len(ShownOnce) - 1
    PROVE  /\ MissingTold(m, n) \in Int /\ Gap(m, n + 1) \in Int
           /\ MissingTold(m, n + 1)
                = MissingTold(m, n) + (IF Gap(m, n + 1) > Tolerance THEN Gap(m, n + 1) ELSE 0)
<1>1. PICK k : k = ShownOnce
  OBVIOUS
<1>2. /\ Len(k) \in Nat /\ n + 1 \in 1..(Len(k) - 1) /\ n + 1 \in 1..Len(k)
      /\ \A i \in 1..Len(k) : m[i] \in logs /\ ToldBy(k[i], m[i])
  <2>1. Len(k) \in Nat /\ \A i \in 1..Len(k) : m[i] \in logs /\ ToldBy(k[i], m[i])
    BY <1>1 DEF ShowsInTurn
  <2>2. n + 1 \in 1..(Len(k) - 1) /\ n + 1 \in 1..Len(k)
    BY <1>1, <2>1
  <2> QED BY <2>1, <2>2
<1>3. PICK U : U = UnloggedFlights(stored)
  OBVIOUS
<1>4. U = {GapFlight(m, i) : i \in GapsTo(m, Len(k) - 1)}
  BY <1>1, <1>3, GapsAre
<1>5. MissingTo(m, n) \in SUBSET U
  <2>1. GapsTo(m, n) \subseteq GapsTo(m, Len(k) - 1)
    BY <1>2 DEF GapsTo
  <2> QED BY <1>4, <2>1 DEF MissingTo
<1>6. Summable(Spans(U), MissingTo(m, n))
  BY <1>3, <1>5, SummandsAre
<1>7. Gap(m, n + 1) \in Int
  BY <1>1, <1>2, StepIs
<1>8. CASE Gap(m, n + 1) > Tolerance
  <2>1. PICK f : f = GapFlight(m, n + 1)
    OBVIOUS
  <2>2. GapsTo(m, n + 1) = GapsTo(m, n) \cup {n + 1}
    BY <1>8 DEF GapsTo
  <2>3. MissingTo(m, n + 1) = MissingTo(m, n) \cup {f}
    BY <2>1, <2>2 DEF MissingTo
  <2>4. f \notin MissingTo(m, n)
    <3>1. ASSUME NEW j \in 1..n, GapFlight(m, j) = f PROVE FALSE
      <4>1. j \in 1..Len(k) /\ j < n + 1
        BY <1>2
      <4>2. m[j].first < m[n + 1].first
        BY <1>1, <1>2, <4>1 DEF ShowsInTurn
      <4>3. k[j] = k[n + 1]
        BY <1>1, <2>1, <3>1 DEF GapFlight
      <4>4. m[j].first = m[n + 1].first
        BY <1>2, <4>1, <4>3 DEF ToldBy
      <4>5. m[j].first \in Nat
        BY <1>2, <4>1, LogIs
      <4> QED BY <4>2, <4>4, <4>5
    <3> QED BY <3>1 DEF MissingTo, GapsTo
  <2>5. f \in U
    <3>1. n + 1 \in GapsTo(m, Len(k) - 1)
      BY <1>2, <1>8 DEF GapsTo
    <3> QED BY <1>4, <2>1, <3>1
  <2>6. Spans(U)[f] = Gap(m, n + 1)
    <3>1. Spans(U)[f] = f.seconds
      BY <1>3, <2>5, SummandsAre
    <3> QED BY <2>1, <3>1 DEF GapFlight
  <2>7. Total(Spans(U), MissingTo(m, n) \cup {f}) = Total(Spans(U), MissingTo(m, n)) + Gap(m, n + 1)
        /\ Total(Spans(U), MissingTo(m, n)) \in Int
    BY <1>6, <1>7, <2>4, <2>6, TotalMore
  <2> QED BY <1>3, <1>7, <1>8, <2>3, <2>7 DEF MissingTold
<1>9. CASE ~(Gap(m, n + 1) > Tolerance)
  <2>1. GapsTo(m, n + 1) = GapsTo(m, n)
    BY <1>9 DEF GapsTo
  <2>2. MissingTold(m, n + 1) = MissingTold(m, n)
    BY <2>1 DEF MissingTold, MissingTo
  <2>3. MissingTold(m, n) \in Int
    BY <1>3, <1>6, TotalOut DEF MissingTold
  <2> QED BY <1>7, <1>9, <2>2, <2>3
<1> QED BY <1>8, <1>9

\* To the next of the logs the records tell what was flown, but for a tolerance each and for
\* what the counter owed.
LEMMA ToldTo ==
    ASSUME FlightsInv, Telling(stored), NEW m, ShowsInTurn(ShownOnce, m), Len(ShownOnce) > 0
    PROVE  LET n == Len(ShownOnce) - 1
               flown == FlownBy(past, m[n + 1].first) - FlownBy(past, m[1].first)
               owed == Debt(past, m[1]) - Debt(past, m[n + 1])
           IN  /\ n \in Nat /\ KeptTold(n) \in Int /\ MissingTold(m, n) \in Int
               /\ flown \in Int /\ owed \in Int
               /\ KeptTold(n) + MissingTold(m, n) <= flown + Tolerance * n
               /\ KeptTold(n) + MissingTold(m, n) >= flown + owed - Tolerance * n
<1>1. PICK N : N = Len(ShownOnce) - 1
  OBVIOUS
<1>2. N \in Nat /\ Len(ShownOnce) = N + 1 /\ Tolerance \in Nat
  BY <1>1, FlightLogsAssumption DEF ShowsInTurn
<1> DEFINE F(n) == FlownBy(past, m[n].first)
<1> DEFINE D(n) == Debt(past, m[n])
<1>3. ASSUME NEW n \in 1..(N + 1) PROVE F(n) \in Nat /\ D(n) \in Int
  <2>1. m[n] \in logs
    BY <1>2 DEF ShowsInTurn
  <2>2. FlownBy(past, m[n].first) \in Nat /\ m[n].atBoot \in Nat
    BY <2>1, LogIs
  <2> QED BY <2>2 DEF Debt
<1> DEFINE Well(n) == /\ KeptTold(n) \in Int /\ MissingTold(m, n) \in Int
                      /\ KeptTold(n) + MissingTold(m, n) <= F(n + 1) - F(1) + Tolerance * n
                      /\ KeptTold(n) + MissingTold(m, n)
                            >= F(n + 1) - F(1) + (D(1) - D(n + 1)) - Tolerance * n
<1> DEFINE K == {n \in Nat : n <= N => Well(n)}
<1>4. 0 \in K
  <2>1. KeptTo(0) = {} /\ MissingTo(m, 0) = {}
    BY DEF KeptTo, MissingTo, GapsTo
  <2>2. \A v : Summable(v, {}) /\ Total(v, {}) = 0
    <3> SUFFICES ASSUME NEW v PROVE Summable(v, {}) /\ Total(v, {}) = 0
      OBVIOUS
    <3>1. Summable(v, {})
      BY FS_EmptySet DEF Summable
    <3> QED BY <3>1, TotalOut
  <2>3. KeptTold(0) = 0 /\ MissingTold(m, 0) = 0
    BY <2>1, <2>2 DEF KeptTold, MissingTold
  <2>4. F(1) \in Nat /\ D(1) \in Int /\ Tolerance * 0 = 0
    BY <1>2, <1>3
  <2> HIDE DEF F, D
  <2> QED BY <2>3, <2>4
<1>5. ASSUME NEW n \in Nat, n \in K PROVE n + 1 \in K
  <2> SUFFICES ASSUME n + 1 <= N PROVE Well(n + 1)
    <3> HIDE DEF Well
    <3> QED OBVIOUS
  <2>1. Well(n)
    <3> HIDE DEF Well
    <3> QED BY <1>2, <1>5
  <2>2. /\ TimeWhileSet(m[n + 1]) \in Nat
        /\ KeptTold(n + 1) = KeptTold(n) + TimeWhileSet(m[n + 1])
    BY <1>2, KeptNext
  <2>3. /\ Gap(m, n + 1) \in Int
        /\ MissingTold(m, n + 1)
             = MissingTold(m, n) + (IF Gap(m, n + 1) > Tolerance THEN Gap(m, n + 1) ELSE 0)
    BY <1>2, MissingNext
  <2>4. n + 1 \in 1..(Len(ShownOnce) - 1)
    BY <1>2
  <2>5. /\ StepTold(m, n + 1) <= F((n + 1) + 1) - F(n + 1) + Tolerance
        /\ StepTold(m, n + 1) >= F((n + 1) + 1) - F(n + 1) + (D(n + 1) - D((n + 1) + 1)) - Tolerance
    BY <2>4, StepIs
  <2>6. StepTold(m, n + 1)
          = TimeWhileSet(m[n + 1]) + (IF Gap(m, n + 1) > Tolerance THEN Gap(m, n + 1) ELSE 0)
    BY DEF StepTold
  <2>7. /\ F(1) \in Nat /\ F(n + 1) \in Nat /\ F((n + 1) + 1) \in Nat
        /\ D(1) \in Int /\ D(n + 1) \in Int /\ D((n + 1) + 1) \in Int
    BY <1>2, <1>3
  <2>8. Tolerance * (n + 1) = Tolerance * n + Tolerance /\ Tolerance * n \in Int
    BY <1>2
  <2> HIDE DEF F, D
  <2>9. PICK s, g, t : s = StepTold(m, n + 1) /\ t = TimeWhileSet(m[n + 1])
                       /\ g = (IF Gap(m, n + 1) > Tolerance THEN Gap(m, n + 1) ELSE 0)
    OBVIOUS
  <2>10. s = t + g /\ t \in Nat /\ g \in Int
    BY <2>2, <2>3, <2>6, <2>9
  <2>11. KeptTold(n + 1) = KeptTold(n) + t /\ MissingTold(m, n + 1) = MissingTold(m, n) + g
    BY <2>2, <2>3, <2>9
  <2>12. PICK a, b, c, d, x, y, p, q :
            /\ a = F(1) /\ b = F(n + 1) /\ c = F((n + 1) + 1)
            /\ d = D(1) /\ x = D(n + 1) /\ y = D((n + 1) + 1)
            /\ p = Tolerance * n /\ q = Tolerance * (n + 1)
    OBVIOUS
  <2>13. /\ a \in Int /\ b \in Int /\ c \in Int /\ d \in Int /\ x \in Int /\ y \in Int
         /\ p \in Int /\ q = p + Tolerance
         /\ s <= c - b + Tolerance /\ s >= c - b + (x - y) - Tolerance
    BY <2>5, <2>7, <2>8, <2>9, <2>12
  <2>14. PICK u, w : u = KeptTold(n) /\ w = MissingTold(m, n)
    OBVIOUS
  <2>15. /\ u \in Int /\ w \in Int /\ u + w <= b - a + p /\ u + w >= b - a + (d - x) - p
    BY <2>1, <2>12, <2>14
  <2>16. /\ u + t \in Int /\ w + g \in Int
         /\ (u + t) + (w + g) <= c - a + q /\ (u + t) + (w + g) >= c - a + (d - y) - q
    BY <1>2, <2>10, <2>13, <2>15
  <2> QED BY <2>11, <2>12, <2>14, <2>16
<1>6. N \in K
  <2> HIDE DEF K
  <2> QED BY <1>2, <1>4, <1>5, Reaches
<1>7. Well(N)
  <2> HIDE DEF Well
  <2> QED BY <1>2, <1>6
<1>8. F(1) \in Nat /\ F(N + 1) \in Nat /\ D(1) \in Int /\ D(N + 1) \in Int
  BY <1>2, <1>3
<1> HIDE DEF F, D, K
<1>9. F(N + 1) - F(1) \in Int /\ D(1) - D(N + 1) \in Int
  BY <1>8
<1> QED BY <1>1, <1>2, <1>7, <1>9 DEF F, D

LEMMA TotalZero ==
    ASSUME NEW v, NEW S, Summable(v, S), \A x \in S : v[x] = 0
    PROVE  Total(v, S) = 0
<1> DEFINE z == [x \in S |-> 0]
<1> DEFINE f == [s \in SUBSET S |-> 0]
<1>1. Summable(z, S)
  BY DEF Summable
<1>2. Adds(S, z, f)
  <2>1. f \in [SUBSET S -> Int] /\ f[{}] = 0
    OBVIOUS
  <2>2. ASSUME NEW s \in SUBSET S, NEW x \in s PROVE f[s] = z[x] + f[s \ {x}]
    <3>1. z[x] = 0 /\ f[s] = 0 /\ f[s \ {x}] = 0
      OBVIOUS
    <3> QED BY <3>1
  <2> QED BY <2>1, <2>2 DEF Adds
<1>3. f[S] = 0
  OBVIOUS
<1>4. \A x \in S : v[x] = z[x]
  OBVIOUS
<1> HIDE DEF f, z
<1>5. Total(z, S) = 0
  <2>1. S \in SUBSET S
    OBVIOUS
  <2> QED BY <1>1, <1>2, <1>3, <2>1, TotalIs
<1> QED BY <1>4, <1>5, TotalSame

\* The records' flight time is that of the records kept and what is missing between them.
LEMMA RecordsTell ==
    ASSUME FlightsInv, Telling(stored), NEW m, ShowsInTurn(ShownOnce, m)
    PROVE  FlightTime(stored, Unknown, TRUE)
              = KeptTold(Len(ShownOnce)) + MissingTold(m, Len(ShownOnce) - 1)
<1>1. PICK k, N : k = ShownOnce /\ N = Len(k)
  OBVIOUS
<1>2. /\ k \in Seq(Shown) /\ N \in Nat /\ N = Len(k)
      /\ \A i \in 1..N : k[i] \in Shown
  BY <1>1 DEF ShowsInTurn
<1>3. PICK U : U = UnloggedFlights(stored)
  OBVIOUS
<1>4. U = MissingTo(m, N - 1)
  BY <1>1, <1>3, GapsAre DEF MissingTo
<1>5. ToSet(k) = KeptTo(N) /\ KeptTo(N) \in SUBSET Shown /\ Shown \in SUBSET stored
  <2>1. ToSet(k) = {k[i] : i \in DOMAIN k} /\ DOMAIN k = 1..N
    BY <1>2 DEF ToSet
  <2>2. KeptTo(N) = {k[i] : i \in 1..N}
    BY <1>1 DEF KeptTo
  <2> QED BY <1>2, <2>1, <2>2 DEF Shown
<1>6. PICK S : S = Flown(stored, Unknown, TRUE)
  OBVIOUS
<1>7. S = KeptTo(N) \cup (stored \ Shown)
  <2>1. \A r : Counted(r, Unknown, TRUE)
    BY DEF Counted, Known
  <2>2. S = stored \ Duplicates(stored)
    BY <1>6, <2>1 DEF Flown
  <2>3. Duplicates(stored) = Shown \ KeptTo(N)
    BY <1>1, <1>5, GapsAre
  <2> QED BY <1>5, <2>2, <2>3
<1>8. Unlogged(stored, Unknown, TRUE) = U
  BY <1>3 DEF Unlogged, Counted, Known
<1>9. MapThenSumSet(Seconds, S) = KeptTold(N)
  <2>1. PICK v, A, B : v = Values(stored) /\ A = KeptTo(N) /\ B = stored \ Shown
    OBVIOUS
  <2>2. S \in SUBSET stored /\ A \in SUBSET stored /\ B \in SUBSET stored /\ A \cap B = {} /\ S = A \cup B
    BY <1>5, <1>7, <2>1
  <2>3. Summable(v, S) /\ Summable(v, A) /\ Summable(v, B)
    BY <2>1, <2>2, SummandsAre
  <2>4. Total(v, A \cup B) = Total(v, A) + Total(v, B) /\ Total(v, A) \in Int
    BY <2>2, <2>3, TotalSplit, TotalOut
  <2>5. Total(v, B) = 0
    <3>1. ASSUME NEW r \in B PROVE v[r] = 0
      <4>1. r \in stored /\ ~Known(r.flight)
        BY <2>1 DEF Shown
      <4>2. Seconds(r) = 0
        BY <4>1 DEF Seconds
      <4> QED BY <2>1, <4>1, <4>2, SummandsAre
    <3> QED BY <2>3, <3>1, TotalZero
  <2>6. MapThenSumSet(Seconds, S) = Total(Values(S), S)
    BY <2>2, StoredLogged, FlownIs
  <2>7. Total(Values(S), S) = Total(v, S)
    <3>1. \A r \in S : v[r] = Values(S)[r]
      BY <2>1, <2>2 DEF Values
    <3>2. Total(v, S) = Total(Values(S), S)
      BY <2>3, <3>1, TotalSame
    <3> QED BY <3>2
  <2> QED BY <2>1, <2>2, <2>4, <2>5, <2>6, <2>7 DEF KeptTold
<1>10. MapThenSumSet(LAMBDA f : f.seconds, U) = MissingTold(m, N - 1)
  <2>1. U \in SUBSET UnloggedFlights(stored)
    BY <1>3
  <2>2. MapThenSumSet(LAMBDA f : f.seconds, U) = Total(Spans(U), U)
    BY <2>1, StoredLogged, UncoveredIs
  <2> QED BY <1>3, <1>4, <2>2 DEF MissingTold
<1>11. FlightTime(stored, Unknown, TRUE) = KeptTold(N) + MissingTold(m, N - 1)
  BY <1>6, <1>8, <1>9, <1>10 DEF FlightTime
<1> QED BY <1>1, <1>11

LEMMA KeptFew ==
    ASSUME FlightsInv, NEW k, NEW m, ShowsInTurn(k, m)
    PROVE  Len(k) <= Cardinality(stored) /\ Cardinality(stored) \in Nat
<1>1. Len(k) \in Nat /\ \A i \in 1..Len(k) : k[i] \in stored /\ ToldBy(k[i], m[i]) /\ m[i] \in logs
  BY DEF ShowsInTurn, Shown
<1>2. ASSUME NEW i \in 1..Len(k), NEW j \in 1..Len(k), k[i] = k[j] PROVE i = j
  <2>1. m[i].first = m[j].first /\ m[i].first \in Nat
    BY <1>1, <1>2, LogIs DEF ToldBy
  <2>2. PICK a \in Nat : a = m[i].first /\ a = m[j].first
    BY <2>1
  <2>3. (i < j => a < a) /\ (j < i => a < a)
    BY <2>2 DEF ShowsInTurn
  <2> QED BY <1>1, <2>2, <2>3
<1>3. IsFiniteSet(1..Len(k)) /\ Cardinality(1..Len(k)) = Len(k)
  BY <1>1, FS_Interval
<1>4. Cardinality({k[i] : i \in 1..Len(k)}) = Len(k)
  BY <1>2, <1>3, SameSize
<1>5. {k[i] : i \in 1..Len(k)} \in SUBSET stored /\ IsFiniteSet(stored)
  BY <1>1 DEF FlightsInv, StoredInv
<1> QED BY <1>4, <1>5, FS_Subset, FS_CardinalityType

\* A tolerance for each of few is no more than a tolerance for each of many.
LEMMA Tolerances ==
    ASSUME NEW a \in Nat, NEW b \in Nat, a <= b
    PROVE  Tolerance * a <= Tolerance * b /\ Tolerance * a \in Nat /\ Tolerance * b \in Nat
           /\ Tolerance * (a + 1) = Tolerance * a + Tolerance
BY FlightLogsAssumption

StoredTold == FlightTime(stored, Unknown, TRUE)
StoredLag == Tolerance * Cardinality(stored)
StoredFrom == Min({r.start : r \in stored})
StoredTo == Max({LogEnd(r) : r \in stored})

LEMMA AddsUp ==
    ASSUME FlightsInv, Telling(stored)
    PROVE  /\ StoredTold <= FlownIn(1, Now) + StoredLag
           /\ stored # {} /\ (\A r \in stored : Known(r.flight)) =>
                 FlownIn(StoredFrom, StoredTo) <= StoredTold + Lost + StoredLag
<1>1. PICK k, N : k = ShownOnce /\ N = Len(k)
  OBVIOUS
<1>2. PICK m : ShowsInTurn(k, m)
  BY <1>1, ShownOnceIs
<1>3. PICK told, lag : told = StoredTold /\ lag = StoredLag
  OBVIOUS
<1>4. N \in Nat /\ lag \in Nat /\ Tolerance * N \in Nat /\ Tolerance * N <= lag
      /\ Tolerance \in Nat
  <2>1. N \in Nat
    BY <1>1, <1>2 DEF ShowsInTurn
  <2>2. PICK c \in Nat : c = Cardinality(stored) /\ N <= c
    BY <1>1, <1>2, KeptFew
  <2>3. lag = Tolerance * c
    BY <1>3, <2>2 DEF StoredLag
  <2> QED BY <2>1, <2>2, <2>3, Tolerances, FlightLogsAssumption
<1>5. told = KeptTold(N) + MissingTold(m, N - 1)
  BY <1>1, <1>2, <1>3, RecordsTell DEF StoredTold
<1>6. PICK w : w = FlownBy(past, Now)
  OBVIOUS
<1>7. /\ FlownIn(1, Now) = w /\ w \in Nat /\ Now \in Nat \ {0}
      /\ Lost = w - saved - unsaved /\ Uncounted = w - (saved + unsaved)
      /\ Uncounted \in Nat /\ saved \in Nat /\ unsaved \in Nat
  <2>1. Now \in 1..MaxTicks /\ saved \in Nat /\ unsaved \in Nat /\ Uncounted \in Nat
    BY DEF FlightsInv, CounterInv
  <2>2. FlownBy(past, Now) \in Nat
    BY <2>1, FlyingFrom
  <2>3. FlownIn(1, Now) = FlownBy(past, Now)
    BY DEF FlownIn, FlownBy, FlyingIn
  <2> QED BY <1>6, <2>1, <2>2, <2>3 DEF Lost, Uncounted
<1>8. CASE N = 0
  <2>1. KeptTo(N) = {} /\ MissingTo(m, N - 1) = {}
    BY <1>8 DEF KeptTo, MissingTo, GapsTo
  <2>2. KeptTold(N) = 0 /\ MissingTold(m, N - 1) = 0
    BY <2>1, FS_EmptySet, TotalOut DEF KeptTold, MissingTold, Summable
  <2>3. told = 0
    BY <1>5, <2>2
  <2>4. ~(stored # {} /\ \A r \in stored : Known(r.flight))
    <3> SUFFICES ASSUME stored # {}, \A r \in stored : Known(r.flight) PROVE FALSE
      OBVIOUS
    <3>1. PICK r \in Shown : TRUE
      BY DEF Shown
    <3>2. \E j \in 1..Len(k) : r.start = k[j].start
      BY <1>2 DEF ShowsInTurn
    <3> QED BY <1>1, <1>8, <3>2
  <2>5. told <= FlownIn(1, Now) + lag
    BY <1>4, <1>7, <2>3
  <2> QED BY <1>3, <2>4, <2>5
<1>9. CASE N > 0
  <2> DEFINE first == m[1]
  <2> DEFINE last == m[N]
  <2>1. PICK n \in Nat : n = N - 1
    BY <1>4, <1>9
  <2>2. N = n + 1 /\ Tolerance * N = Tolerance * n + Tolerance /\ Tolerance * n \in Nat
    <3>1. N = n + 1
      BY <1>4, <2>1
    <3> QED BY <2>1, <3>1, Tolerances
  <2>3. first \in logs /\ last \in logs
    BY <1>1, <1>2, <1>4, <1>9 DEF ShowsInTurn
  <2>4. PICK a, b, e, t : /\ a = FlownBy(past, first.first) /\ b = FlownBy(past, last.first)
                          /\ e = FlownBy(past, last.last) /\ t = TimeWhileSet(last)
    OBVIOUS
  <2>5. PICK d, x : d = Debt(past, first) /\ x = Debt(past, last)
    OBVIOUS
  <2>6. PICK u, v : u = KeptTold(n) /\ v = MissingTold(m, n)
    OBVIOUS
  <2>7. /\ u \in Int /\ v \in Int /\ b - a \in Int /\ d - x \in Int
        /\ u + v <= (b - a) + Tolerance * n
        /\ u + v >= (b - a) + (d - x) - Tolerance * n
    <3>1. Len(ShownOnce) > 0 /\ Len(ShownOnce) - 1 = n /\ n + 1 = N
      BY <1>1, <1>9, <2>1, <2>2
    <3> QED BY <1>1, <1>2, <2>4, <2>5, <2>6, <3>1, ToldTo
  <2>8. /\ first.first \in Nat \ {0} /\ first.first <= last.first
        /\ last.first \in Nat /\ last.last \in Nat /\ last.first < last.last /\ last.last <= Now
        /\ a \in Nat /\ b \in Nat /\ e \in Nat /\ t \in Nat /\ e = b + t
        /\ first.atBoot \in Nat /\ last.atBoot \in Nat
    <3>1. first.first \in Nat \ {0} /\ first.atBoot \in Nat /\ a \in Nat
      BY <2>3, <2>4, LogIs
    <3>2. /\ last.first \in Nat /\ last.last \in Nat /\ last.first < last.last /\ last.last <= Now
          /\ last.atBoot \in Nat /\ b \in Nat /\ e \in Nat /\ t \in Nat /\ e = b + t
      BY <2>3, <2>4, LogIs
    <3>3. first.first <= last.first
      <4>1. CASE N = 1
        BY <3>1, <4>1
      <4>2. CASE N > 1
        <5>1. m[1].first < m[N].first
          BY <1>1, <1>2, <1>4, <4>2 DEF ShowsInTurn
        <5> QED BY <3>1, <3>2, <5>1
      <4> QED BY <1>4, <1>9, <4>1, <4>2
    <3> QED BY <3>1, <3>2, <3>3
  <2>9. e <= w
    <3>1. last.last \in Nat \ {0} /\ last.last <= Now
      BY <2>8
    <3> QED BY <1>6, <1>7, <2>4, <3>1, FlyingFrom
  <2>10. told = u + t + v
    <3>1. n + 1 <= Len(ShownOnce) /\ m[n + 1] = last
      BY <1>1, <1>4, <2>2
    <3>2. KeptTold(n + 1) = u + t
      BY <1>1, <1>2, <2>4, <2>6, <3>1, KeptNext
    <3>3. KeptTold(N) = u + t /\ MissingTold(m, N - 1) = v
      BY <2>1, <2>2, <2>6, <3>2
    <3> QED BY <1>5, <2>7, <2>8, <3>3
  <2>11. told <= FlownIn(1, Now) + lag
    <3>1. PICK p : p = Tolerance * n
      OBVIOUS
    <3>2. p \in Nat /\ p + Tolerance <= lag /\ u + v <= (b - a) + p
      BY <1>4, <2>2, <2>7, <3>1
    <3>3. told <= w + lag
      BY <1>4, <1>7, <2>7, <2>8, <2>9, <2>10, <3>2
    <3> QED BY <1>7, <3>3
  <2>12. ASSUME stored # {}, \A r \in stored : Known(r.flight)
         PROVE  FlownIn(StoredFrom, StoredTo) <= told + Lost + lag
    <3>1. Shown = stored
      BY <2>12 DEF Shown
    <3>2. k[1] \in stored /\ k[N] \in stored /\ ToldBy(k[1], first) /\ ToldBy(k[N], last)
      BY <1>1, <1>2, <1>4, <1>9, <3>1 DEF ShowsInTurn
    <3>3. ASSUME NEW r \in stored PROVE first.first <= r.start /\ LogEnd(r) <= last.last
      <4>1. PICK j \in 1..Len(k) : r.start = m[j].first /\ ToldBy(r, m[j])
        BY <1>2, <3>1, ShownTold
      <4>2. m[j].first \in Nat /\ m[j].last \in Nat
        BY <1>2, LogIs DEF ShowsInTurn
      <4>3. first.first <= m[j].first
        <5>1. CASE j = 1
          BY <2>8, <5>1
        <5>2. CASE j > 1
          <6>1. 1 \in 1..Len(k) /\ j \in 1..Len(k) /\ 1 < j
            BY <1>1, <1>4, <1>9, <5>2
          <6>2. m[1].first < m[j].first
            BY <1>2, <6>1 DEF ShowsInTurn
          <6> QED BY <2>8, <4>2, <6>2
        <5> QED BY <1>1, <1>4, <5>1, <5>2
      <4>4. m[j].last <= last.last
        <5>1. CASE j = N
          BY <2>8, <5>1
        <5>2. CASE j < N
          <6>1. N \in 1..Len(k) /\ j \in 1..Len(k) /\ j < N
            BY <1>1, <1>4, <1>9, <5>2
          <6>2. m[j].last <= m[N].first
            BY <1>2, <6>1 DEF ShowsInTurn
          <6> QED BY <2>8, <4>2, <6>2
        <5> QED BY <1>1, <1>4, <5>1, <5>2
      <4> QED BY <4>1, <4>3, <4>4 DEF ToldBy
    <3>4. \A r \in stored : r.start \in Int /\ LogEnd(r) \in Int
      <4>1. TAKE r \in stored
      <4>2. PICK j \in 1..Len(k) : ToldBy(r, m[j])
        BY <1>2, <3>1, ShownTold
      <4>3. m[j].first \in Nat /\ m[j].last \in Nat
        BY <1>2, LogIs DEF ShowsInTurn
      <4> QED BY <4>2, <4>3 DEF ToldBy
    <3>5. StoredFrom = first.first
      <4>1. PICK S : S = {r.start : r \in stored}
        OBVIOUS
      <4>2. first.first \in S /\ \A y \in S : y \in Int /\ first.first <= y
        BY <3>2, <3>3, <3>4, <4>1 DEF ToldBy
      <4>3. \A z \in S : (\A y \in S : z <= y) => z = first.first
        BY <2>8, <4>2
      <4>4. Min(S) = first.first
        BY <4>2, <4>3 DEF Min
      <4> QED BY <4>1, <4>4 DEF StoredFrom
    <3>6. StoredTo = last.last
      <4>1. PICK S : S = {LogEnd(r) : r \in stored}
        OBVIOUS
      <4>2. last.last \in S /\ \A y \in S : y \in Int /\ y <= last.last
        BY <3>2, <3>3, <3>4, <4>1 DEF ToldBy
      <4>3. \A z \in S : (\A y \in S : z >= y) => z = last.last
        BY <2>8, <4>2
      <4>4. last.last >= last.last /\ \A y \in S : last.last >= y
        BY <2>8, <4>2
      <4>5. Max(S) = last.last
        BY <4>2, <4>3, <4>4 DEF Max
      <4> QED BY <4>1, <4>5 DEF StoredTo
    <3>7. FlownIn(first.first, last.last) = e - a
      <4>1. FlownBy(past, last.last)
              = FlownBy(past, first.first) + Cardinality(FlyingIn(past, first.first, last.last))
        BY <2>8, FlyingFrom
      <4>2. FlownIn(first.first, last.last) = Cardinality(FlyingIn(past, first.first, last.last))
        BY DEF FlownIn, FlyingIn
      <4>3. Cardinality(FlyingIn(past, first.first, last.last)) \in Nat
        BY <2>8, FlyingFinite
      <4>4. PICK q \in Nat : q = Cardinality(FlyingIn(past, first.first, last.last))
        BY <4>3
      <4>5. e = a + q /\ FlownIn(first.first, last.last) = q
        BY <2>4, <4>1, <4>2, <4>4
      <4> QED BY <2>8, <4>4, <4>5
    <3>8. 0 <= d /\ x <= Tolerance + Uncounted
      <4>1. BeginsWell(first) /\ BeginsWell(last)
        BY <2>3 DEF FlightsInv, LogsInv, Begun
      <4> QED BY <2>5, <4>1 DEF BeginsWell
    <3>9. d \in Int /\ x \in Int
      BY <2>4, <2>5, <2>8 DEF Debt
    <3>10. PICK p, l : p = Tolerance * n /\ l = Lost
      OBVIOUS
    <3>11. /\ p \in Nat /\ p + Tolerance <= lag /\ u + v >= (b - a) + (d - x) - p
           /\ l = Uncounted /\ l \in Nat
      BY <1>4, <1>7, <2>2, <2>7, <3>10
    <3>12. e - a <= told + l + lag
      BY <1>4, <2>7, <2>8, <2>10, <3>8, <3>9, <3>11
    <3> QED BY <3>5, <3>6, <3>7, <3>10, <3>12
  <2> QED BY <1>3, <2>11, <2>12
<1> QED BY <1>4, <1>8, <1>9

-----------------------------------------------------------------------------
(* What armings the logs count.                                            *)

Gathered(f, S) == UNION {f[x] : x \in S}

\* Sets with nothing in common hold together what they hold in all.
LEMMA TotalApart ==
    ASSUME NEW S, IsFiniteSet(S), NEW f, NEW v,
           \A x \in S : IsFiniteSet(f[x]) /\ v[x] = Cardinality(f[x]),
           \A x, y \in S : x # y => f[x] \cap f[y] = {}
    PROVE  Summable(v, S) /\ Total(v, S) = Cardinality(Gathered(f, S))
<1> DEFINE Whole(s) == UNION {f[x] : x \in s}
<1> DEFINE K == {k \in Nat : \A s \in SUBSET S : Cardinality(s) = k =>
                    IsFiniteSet(Whole(s)) /\ Total(v, s) = Cardinality(Whole(s))}
<1>1. ASSUME NEW s \in SUBSET S
      PROVE  /\ Summable(v, s) /\ Cardinality(s) \in Nat
             /\ \A x \in s : Cardinality(s \ {x}) = Cardinality(s) - 1
  <2>1. IsFiniteSet(s)
    BY FS_Subset
  <2>2. \A x \in S : v[x] \in Int
    BY FS_CardinalityType
  <2>3. Summable(v, s)
    BY <2>1, <2>2 DEF Summable
  <2> QED BY <2>1, <2>3, FS_CardinalityType, FS_RemoveElement
<1>2. 0 \in K
  <2>1. ASSUME NEW s \in SUBSET S, Cardinality(s) = 0
        PROVE  IsFiniteSet(Whole(s)) /\ Total(v, s) = Cardinality(Whole(s))
    <3>1. s = {}
      BY <1>1, <2>1, FS_EmptySet DEF Summable
    <3>2. Whole(s) = {} /\ Total(v, s) = 0
      BY <1>1, <3>1, TotalOut
    <3> QED BY <3>2, FS_EmptySet
  <2> HIDE DEF Whole
  <2> QED BY <2>1
<1>3. ASSUME NEW k \in Nat, k \in K PROVE k + 1 \in K
  <2>1. ASSUME NEW s \in SUBSET S, Cardinality(s) = k + 1
        PROVE  IsFiniteSet(Whole(s)) /\ Total(v, s) = Cardinality(Whole(s))
    <3>1. s # {}
      <4> SUFFICES ASSUME s = {} PROVE FALSE
        OBVIOUS
      <4> QED BY <2>1, FS_EmptySet
    <3>2. PICK x \in s : TRUE
      BY <3>1
    <3>3. PICK t : t = s \ {x}
      OBVIOUS
    <3>4. t \in SUBSET S /\ Cardinality(t) = k
      BY <1>1, <2>1, <3>2, <3>3
    <3>5. IsFiniteSet(Whole(t)) /\ Total(v, t) = Cardinality(Whole(t))
      <4> HIDE DEF Whole
      <4> QED BY <1>3, <3>4
    <3>6. Whole(s) = Whole(t) \cup f[x] /\ Whole(t) \cap f[x] = {}
      BY <3>2, <3>3
    <3>7. IsFiniteSet(f[x]) /\ v[x] = Cardinality(f[x]) /\ Cardinality(f[x]) \in Nat
      BY <3>2, FS_CardinalityType
    <3> HIDE DEF Whole
    <3>8. IsFiniteSet(Whole(s)) /\ Cardinality(Whole(s)) = Cardinality(Whole(t)) + Cardinality(f[x])
      <4>1. /\ IsFiniteSet(Whole(t) \cup f[x])
            /\ Cardinality(Whole(t) \cup f[x])
                 = Cardinality(Whole(t)) + Cardinality(f[x]) - Cardinality(Whole(t) \cap f[x])
        BY <3>5, <3>7, FS_Union
      <4>2. Cardinality(Whole(t) \cap f[x]) = 0 /\ Cardinality(Whole(t)) \in Nat
        BY <3>5, <3>6, FS_EmptySet, FS_CardinalityType
      <4> QED BY <3>6, <3>7, <4>1, <4>2
    <3>9. Total(v, s) = v[x] + Total(v, t)
      BY <1>1, <3>2, <3>3, TotalOut
    <3>10. Cardinality(Whole(t)) \in Nat
      BY <3>5, FS_CardinalityType
    <3> QED BY <3>5, <3>7, <3>8, <3>9, <3>10
  <2> HIDE DEF Whole
  <2> QED BY <2>1
<1>4. Cardinality(S) \in K
  <2> HIDE DEF K
  <2>1. Cardinality(S) \in Nat
    BY <1>1
  <2> QED BY <2>1, <1>2, <1>3, Reaches
<1>5. Summable(v, S)
  BY <1>1
<1>6. IsFiniteSet(Whole(S)) /\ Total(v, S) = Cardinality(Whole(S))
  <2> HIDE DEF Whole
  <2> QED BY <1>4
<1> QED BY <1>5, <1>6 DEF Gathered

Armings == {i \in 2..Now : past[i - 1] \in DisarmedModes /\ past[i] \in ArmedModes}

\* The armings a log counts; only PX4's counts the one that started it.
ArmingsIn(log) ==
    {i \in Armings : i \in log.first..log.last /\ (i = log.first => autopilot = "px4")}

LEMMA ArmingsFinite ==
    ASSUME FlightsInv
    PROVE  IsFiniteSet(Armings) /\ \A S \in SUBSET Armings : IsFiniteSet(S) /\ Cardinality(S) \in Nat
<1>1. Now \in Int
  BY DEF FlightsInv, CounterInv
<1>2. IsFiniteSet(2..Now) /\ Armings \in SUBSET (2..Now)
  BY <1>1, FS_Interval DEF Armings
<1>3. IsFiniteSet(Armings)
  BY <1>2, FS_Subset
<1> QED BY <1>3, FS_Subset, FS_CardinalityType

LEMMA ArmCyclesIs ==
    ASSUME FlightsInv, NEW log \in logs, Known(ArmCycles(log))
    PROVE  ArmCycles(log) = Cardinality(ArmingsIn(log))
<1> DEFINE E == {i \in (log.first + 1)..log.last :
                    past[i - 1] \in DisarmedModes /\ past[i] \in ArmedModes}
<1>1. /\ log.first \in Nat \ {0} /\ log.last \in Nat /\ log.first < log.last
      /\ Now \in Nat /\ log.last <= Now
  BY LogIs
<1>2. Edges(log, DisarmedModes, ArmedModes) = Cardinality(E)
  BY DEF Edges
<1>3. E \in SUBSET Armings
  BY <1>1 DEF Armings
<1>4. CASE autopilot = "px4"
  <2>1. log.first > 1 /\ past[log.first] = "armed" /\ past[log.first - 1] = "idle"
    BY <1>4 DEF FlightsInv, LogsInv, Begun, BeginsWell
  <2>2. past[log.first] \in ArmedModes /\ past[log.first - 1] \in DisarmedModes
    BY <2>1 DEF ArmedModes, DisarmedModes
  <2>3. log.first \in Armings
    BY <1>1, <2>1, <2>2 DEF Armings
  <2>4. ArmingsIn(log) = E \cup {log.first} /\ log.first \notin E
    BY <1>1, <1>4, <2>3 DEF ArmingsIn, Armings
  <2> HIDE DEF E
  <2>5. IsFiniteSet(E) /\ Cardinality(E) \in Nat
    BY <1>3, ArmingsFinite
  <2>6. Cardinality(E \cup {log.first}) = Cardinality(E) + 1
    BY <2>4, <2>5, FS_AddElement
  <2>7. ArmCycles(log) = Cardinality(E) + 1
    BY <1>2, <1>4, <2>2, <2>5 DEF ArmCycles, Px4ArmCycles
  <2> QED BY <2>4, <2>6, <2>7
<1>5. CASE autopilot # "px4"
  <2>1. ArmingsIn(log) = E
    BY <1>1, <1>5 DEF ArmingsIn, Armings
  <2> HIDE DEF E
  <2>2. ArmCycles(log) = Cardinality(E)
    BY <1>2, <1>5 DEF ArmCycles, ArduPilotArmCycles, Known
  <2> QED BY <2>1, <2>2
<1> QED BY <1>4, <1>5

\* No arming is in two logs: PX4's end disarmed, ArduPilot's do not count their first sample.
LEMMA ArmingsApart ==
    ASSUME FlightsInv, NEW l \in logs, NEW m \in logs, l # m
    PROVE  ArmingsIn(l) \cap ArmingsIn(m) = {}
<1>1. ASSUME NEW a \in logs, NEW b \in logs, a.last <= b.first, NEW i \in ArmingsIn(a), i \in ArmingsIn(b)
      PROVE  FALSE
  <2>1. /\ i \in a.first..a.last /\ i \in b.first..b.last /\ past[i] \in ArmedModes
        /\ (i = b.first => autopilot = "px4")
    BY <1>1 DEF ArmingsIn, Armings
  <2>2. /\ a.first \in Nat /\ a.last \in Nat /\ b.first \in Nat /\ b.last \in Nat
    BY LogIs
  <2>3. i = a.last /\ i = b.first
    BY <1>1, <2>1, <2>2
  <2>4. autopilot = "px4" => past[a.last] \in DisarmedModes
    BY DEF FlightsInv, LogsInv, EndsWell
  <2> QED BY <2>1, <2>3, <2>4 DEF ArmedModes, DisarmedModes
<1>2. l.last <= m.first \/ m.last <= l.first
  BY DEF FlightsInv, LogsInv
<1> QED BY <1>1, <1>2

CyclesOf(S) == [log \in S |-> ArmCycles(log)]

LEMMA ArmCyclesAre ==
    ASSUME NEW S, Summable(CyclesOf(S), S)
    PROVE  MapThenSumSet(ArmCycles, S) = Total(CyclesOf(S), S)
<1> DEFINE Is(f) == f = [s \in SUBSET S |-> IF s = {} THEN 0
                                            ELSE ArmCycles(Some(s)) + f[s \ {Some(s)}]]
<1>1. MapThenSumSet(ArmCycles, S) = (CHOOSE f : Is(f))[S]
  BY DEF MapThenSumSet, MapThenFoldSet, Some
<1>2. \A f : Is(f) <=> Taking(S, CyclesOf(S), f)
  <2> SUFFICES ASSUME NEW f PROVE Is(f) <=> Taking(S, CyclesOf(S), f)
    OBVIOUS
  <2>1. \A s \in SUBSET S : s # {} => CyclesOf(S)[Some(s)] = ArmCycles(Some(s))
    BY DEF CyclesOf, Some
  <2>2. [s \in SUBSET S |-> IF s = {} THEN 0 ELSE ArmCycles(Some(s)) + f[s \ {Some(s)}]]
        = [s \in SUBSET S |-> IF s = {} THEN 0 ELSE CyclesOf(S)[Some(s)] + f[s \ {Some(s)}]]
    BY <2>1
  <2> QED BY <2>2 DEF Taking
<1>3. Is(CHOOSE f : Is(f))
  <2>1. \E f : Is(f)
    BY <1>2, TakingIs
  <2> HIDE DEF Is
  <2> QED BY <2>1, Zenon
<1> HIDE DEF Is
<1> QED BY <1>1, <1>2, <1>3, TakingIs

SaidLogs == {log \in logs : Known(ArmCycles(log))}
SaidArmings == {i \in Armings : \E log \in SaidLogs : /\ i \in log.first..log.last
                                                      /\ i = log.first => autopilot = "px4"}

LEMMA ArmingsAddUp ==
    ASSUME FlightsInv
    PROVE  /\ MapThenSumSet(ArmCycles, SaidLogs) <= Cardinality(Armings)
           /\ MapThenSumSet(ArmCycles, SaidLogs) >= Cardinality(SaidArmings)
<1>1. PICK S : S = SaidLogs
  OBVIOUS
<1>2. IsFiniteSet(S) /\ \A log \in S : log \in logs /\ Known(ArmCycles(log))
  <2>1. IsFiniteSet(logs) /\ S \in SUBSET logs
    BY <1>1 DEF FlightsInv, LogsInv, SaidLogs
  <2> QED BY <1>1, <2>1, FS_Subset DEF SaidLogs
<1> DEFINE v == CyclesOf(S)
<1> DEFINE f == [log \in S |-> ArmingsIn(log)]
<1>3. ASSUME NEW log \in S PROVE IsFiniteSet(f[log]) /\ v[log] = Cardinality(f[log])
  <2>1. ArmingsIn(log) \in SUBSET Armings
    BY DEF ArmingsIn
  <2>2. ArmCycles(log) = Cardinality(ArmingsIn(log))
    BY <1>2, ArmCyclesIs
  <2>3. IsFiniteSet(ArmingsIn(log))
    BY <2>1, ArmingsFinite
  <2> QED BY <2>2, <2>3 DEF CyclesOf
<1>4. ASSUME NEW l \in S, NEW m \in S, l # m PROVE f[l] \cap f[m] = {}
  BY <1>2, <1>4, ArmingsApart
<1>5. UNION {f[log] : log \in S} = SaidArmings
  BY <1>1 DEF ArmingsIn, SaidArmings
<1> HIDE DEF v, f
<1>6. Summable(v, S) /\ Total(v, S) = Cardinality(UNION {f[log] : log \in S})
  <2>1. PICK w, g : w = v /\ g = f
    OBVIOUS
  <2>2. /\ \A x \in S : IsFiniteSet(g[x]) /\ w[x] = Cardinality(g[x])
        /\ \A x, y \in S : x # y => g[x] \cap g[y] = {}
    BY <1>3, <1>4, <2>1
  <2>3. IsFiniteSet(S)
    BY <1>2
  <2>4. Summable(w, S) /\ Total(w, S) = Cardinality(Gathered(g, S))
    BY <2>2, <2>3, TotalApart
  <2> QED BY <2>1, <2>4 DEF Gathered
<1>7. MapThenSumSet(ArmCycles, S) = Cardinality(SaidArmings)
  BY <1>5, <1>6, ArmCyclesAre DEF v
<1>8. SaidArmings \in SUBSET Armings
  BY DEF SaidArmings
<1>9. Cardinality(SaidArmings) <= Cardinality(Armings) /\ Cardinality(SaidArmings) \in Nat
  BY <1>8, ArmingsFinite, FS_Subset
<1> QED BY <1>1, <1>7, <1>9

\* Flight is counted once, as time and as armings, whatever is uploaded.
THEOREM CountedOnceAlways == FlightsSpec => []CountedOnce
<1>1. ASSUME FlightsInv PROVE FlightAddsUp
  BY <1>1, AddsUp DEF FlightAddsUp, StoredTold, StoredLag, StoredFrom, StoredTo
<1>2. ASSUME FlightsInv PROVE ArmingsCountedOnce
  BY <1>2, ArmingsAddUp DEF ArmingsCountedOnce, Armings, SaidLogs, SaidArmings
<1>3. FlightsInv => CountedOnce
  BY <1>1, <1>2, StoredLogged DEF CountedOnce
<1> QED BY <1>3, FlightsInductive, PTL

=============================================================================
