---------------------------- MODULE SourcesProofs ----------------------------
(***************************************************************************)
(* What holds of the sources of telemetry: the simulator's state for every *)
(* interval, start hour and set of hours that raise; the fake source's     *)
(* shutdown for any number of connections; and its voltages at every load, *)
(* sun and ripple the generator can come to, not only those a run picks.   *)
(***************************************************************************)
EXTENDS PowerSim, FakeSource, FakeSnapshot, TLAPS, FiniteSetTheorems

-----------------------------------------------------------------------------
(* The power simulator's telemetry state.                                  *)

\* The day has 24 hours, and the hour after 23 is 0.
LEMMA HourOfDay ==
  ASSUME NEW n \in Nat
  PROVE  n % 24 \in 0 .. 23
  OBVIOUS

LEMMA HourAfter ==
  ASSUME NEW n \in Nat
  PROVE  (n + 1) % 24 = ((n % 24) + 1) % 24
  OBVIOUS

LEMMA TypeStep == TypeOK /\ [Next]_vars => TypeOK'
<1> USE PowerSimAssumption DEF TypeOK
<1> SUFFICES ASSUME TypeOK, [Next]_vars
             PROVE  TypeOK'
  OBVIOUS
<1>1. NextHour \in 0 .. 23
  <2>1. startHour + step \in Nat
    OBVIOUS
  <2> QED
    BY <2>1, HourOfDay DEF NextHour
<1>2. CASE Boot
  BY <1>2 DEF Boot, NoReply
<1>3. CASE ReadThrottled
  BY <1>3 DEF ReadThrottled
<1>4. CASE ReadAdvances
  BY <1>1, <1>4 DEF ReadAdvances
<1>5. CASE ReadRaises
  BY <1>1, <1>5 DEF ReadRaises
<1>6. CASE Exit
  BY <1>6 DEF Exit, NoReply
<1>7. CASE Tick
  BY <1>7 DEF Tick, simVars
<1>8. CASE UNCHANGED vars
  BY <1>8 DEF vars, simVars
<1> QED
  BY <1>2, <1>3, <1>4, <1>5, <1>6, <1>7, <1>8 DEF Next, Read

(* The state of the simulator stays well typed (TelemetryState). *)
THEOREM TypeCorrect == Spec => []TypeOK
<1>1. Init => TypeOK
  BY PowerSimAssumption DEF Init, NoReply, TypeOK
<1> QED
  BY <1>1, TypeStep, PTL DEF Spec

-----------------------------------------------------------------------------
(* While the process serves, _last_step is the time _registers were        *)
(* produced at, the registers hold the last hour handed out, and that hour *)
(* was paid for with one interval for each step but the first.             *)
Serving ==
  /\ lastStep = producedAt
  /\ lastStep <= clock
  /\ bootedAt <= lastStep
  /\ step >= 1
  /\ registers = (startHour + (step - 1)) % 24
  /\ (step - 1) * Interval <= lastStep - bootedAt

SimInv ==
  /\ TypeOK
  /\ ServedIsFresh
  /\ process = "serving" => Serving

\* An interval that has passed pays for one more hour.
LEMMA OneMoreHour ==
  ASSUME NEW n \in Nat, NEW i \in Nat, NEW boot \in Nat, NEW last \in Nat, NEW now \in Nat,
         n >= 1, (n - 1) * i <= last - boot, now - last >= i
  PROVE  ((n + 1) - 1) * i <= now - boot
<1>1. ((n + 1) - 1) * i = (n - 1) * i + i
  OBVIOUS
<1>2. (n - 1) * i \in Int
  OBVIOUS
<1> QED
  BY <1>1, <1>2

LEMMA SimInvInit == Init => SimInv
  BY PowerSimAssumption DEF Init, NoReply, SimInv, TypeOK, ServedIsFresh

LEMMA SimInvStep == SimInv /\ [Next]_vars => SimInv'
<1> USE PowerSimAssumption
<1> SUFFICES ASSUME SimInv, [Next]_vars
             PROVE  ServedIsFresh' /\ (process' = "serving" => Serving')
  BY TypeStep DEF SimInv
<1> USE DEF SimInv, TypeOK, ServedIsFresh
<1>1. CASE Boot
  <2>1. startHour % 24 = startHour
    OBVIOUS
  <2> QED
    BY <1>1, <2>1 DEF Boot, NoReply, Serving
<1>2. CASE ReadThrottled
  BY <1>2 DEF ReadThrottled, Throttled, Serving
<1>3. CASE ReadAdvances
  <2>1. Serving /\ clock - lastStep >= Interval
    BY <1>3 DEF ReadAdvances, Throttled
  <2>2. ((step + 1) - 1) * Interval <= clock - bootedAt
    BY <2>1, OneMoreHour DEF Serving
  <2>3. startHour + step = startHour + ((step + 1) - 1)
    OBVIOUS
  <2> QED
    BY <1>3, <2>1, <2>2, <2>3 DEF ReadAdvances, NextHour, Serving
<1>4. CASE ReadRaises
  BY <1>4 DEF ReadRaises, Serving
<1>5. CASE Exit
  BY <1>5 DEF Exit, NoReply
<1>6. CASE Tick
  BY <1>6 DEF Tick, simVars, Serving
<1>7. CASE UNCHANGED vars
  BY <1>7 DEF vars, simVars, Serving
<1> QED
  BY <1>1, <1>2, <1>3, <1>4, <1>5, <1>6, <1>7 DEF Next, Read

LEMMA SimInvariance == Spec => []SimInv
  BY SimInvInit, SimInvStep, PTL DEF Spec

(* No reader is ever given registers an interval old or older (refresh). *)
THEOREM Freshness == Spec => []ServedIsFresh
<1>1. SimInv => ServedIsFresh
  BY DEF SimInv
<1> QED
  BY <1>1, SimInvariance, PTL

(* No pattern of reads makes the replay run ahead of its clock (refresh). *)
THEOREM BoundedRate == Spec => []NeverAheadOfClock
<1>1. SimInv => NeverAheadOfClock
  <2> SUFFICES ASSUME SimInv, process = "serving"
               PROVE  (step - 1) * Interval <= clock - bootedAt
    BY DEF NeverAheadOfClock
  <2>1. (step - 1) * Interval \in Int
    BY PowerSimAssumption DEF SimInv, TypeOK
  <2> QED
    BY <2>1 DEF SimInv, TypeOK, Serving
<1> QED
  BY <1>1, SimInvariance, PTL

(* A living process replays the hours of the day in turn (refresh). *)
THEOREM HoursReplayedInTurn == Spec => HoursInTurn
<1>1. SimInv /\ [Next]_vars =>
        [process = "serving" /\ process' = "serving" /\ registers' # registers
           => registers' = (registers + 1) % 24]_vars
  <2> SUFFICES ASSUME SimInv, Next, process = "serving", process' = "serving",
                      registers' # registers
               PROVE  registers' = (registers + 1) % 24
    OBVIOUS
  <2>1. registers' = NextHour
    BY DEF Next, Boot, Read, ReadThrottled, ReadAdvances, ReadRaises, Exit, Tick, simVars
  <2>2. startHour + (step - 1) \in Nat
    BY PowerSimAssumption DEF SimInv, TypeOK, Serving
  <2>3. startHour + step = (startHour + (step - 1)) + 1
    BY PowerSimAssumption DEF SimInv, TypeOK
  <2> QED
    BY <2>1, <2>2, <2>3, HourAfter DEF SimInv, Serving, NextHour
<1> QED
  BY <1>1, SimInvariance, PTL DEF HoursInTurn, Spec

-----------------------------------------------------------------------------
(* The fake source's server.                                               *)

LEMMA SourceTypeStep == SourceTypeOK /\ [SourceNext]_sourceVars => SourceTypeOK'
<1> USE DEF SourceTypeOK, ConnStates
<1> SUFFICES ASSUME SourceTypeOK, [SourceNext]_sourceVars
             PROVE  SourceTypeOK'
  OBVIOUS
<1>1. CASE \/ Bind \/ InstallHandlers \/ EnterLoop \/ CheckRequest \/ Selected \/ Recheck
           \/ Reset \/ Announce
  BY <1>1 DEF Bind, InstallHandlers, EnterLoop, CheckRequest, Selected, Recheck, Reset,
     Announce, Move
<1>2. CASE Accept
  BY <1>2 DEF Accept, Move
<1>3. CASE Return \/ Kill
  BY <1>3 DEF Return, Kill, CutOff, Move
<1>4. CASE Signal \/ StopperAsks \/ StopperReturns \/ Restart
  BY <1>4 DEF Signal, StopperAsks, StopperReturns, Restart
<1>5. ASSUME NEW c \in Clients,
             Connect(c) \/ Handle(c) \/ SendBody(c) \/ Conclude(c) \/ GiveUp(c)
      PROVE  SourceTypeOK'
  BY <1>5 DEF Connect, Handle, SendBody, Conclude, GiveUp, serverVars
<1>6. CASE UNCHANGED sourceVars
  BY <1>6 DEF sourceVars, serverVars
<1> QED
  BY <1>1, <1>2, <1>3, <1>4, <1>5, <1>6 DEF SourceNext, MainStep

(* The source's threads and its clients' connections stay well typed, for  *)
(* any number of connections of each kind (run_source).                    *)
THEOREM SourceTypes == SourceSpec => []SourceTypeOK
<1>1. SourceInit => SourceTypeOK
  BY DEF SourceInit, SourceTypeOK, ConnStates
<1> QED
  BY <1>1, SourceTypeStep, PTL DEF SourceSpec

-----------------------------------------------------------------------------
\* The event is set only by a loop that was left; the next process has its own.
SetWhenLeft == isShutDown => main \in {"returned", "exited", "killed"}

\* The thread ends with its process.
OwnThread == stopper # "none" => Alive

Handshake == StopNotLost /\ SetWhenLeft /\ OwnThread

(* A request to shut down reaches the loop whenever the signal comes, before *)
(* serve_forever is called or while it returns (_stop).                      *)
THEOREM ShutdownRequestKept == SourceSpec => []StopNotLost
<1> USE DEF Handshake, StopNotLost, SetWhenLeft, OwnThread, Alive
<1>1. SourceInit => Handshake
  BY DEF SourceInit
<1>2. SourceTypeOK /\ Handshake /\ [SourceNext]_sourceVars => Handshake'
  <2> SUFFICES ASSUME SourceTypeOK, Handshake, [SourceNext]_sourceVars
               PROVE  Handshake'
    OBVIOUS
  <2>1. CASE \/ Bind \/ InstallHandlers \/ CheckRequest \/ Selected \/ Recheck \/ Accept
    BY <2>1 DEF Bind, InstallHandlers, CheckRequest, Selected, Recheck, Accept, Move
  <2>2. CASE EnterLoop
    BY <2>2 DEF EnterLoop, Move
  <2>3. CASE Reset
    BY <2>3 DEF Reset, Move
  <2>4. CASE Announce
    BY <2>4 DEF Announce, Move
  <2>5. CASE Return \/ Kill
    BY <2>5 DEF Return, Kill, CutOff, Move
  <2>6. CASE Signal \/ StopperAsks \/ Restart
    BY <2>6 DEF Signal, StopperAsks, Restart
  <2>7. CASE StopperReturns
    BY <2>7 DEF StopperReturns
  <2>8. ASSUME NEW c \in Clients,
               Connect(c) \/ Handle(c) \/ SendBody(c) \/ Conclude(c) \/ GiveUp(c)
        PROVE  Handshake'
    BY <2>8 DEF Connect, Handle, SendBody, Conclude, GiveUp, serverVars
  <2>9. CASE UNCHANGED sourceVars
    BY <2>9 DEF sourceVars, serverVars
  <2> QED
    BY <2>1, <2>2, <2>3, <2>4, <2>5, <2>6, <2>7, <2>8, <2>9 DEF SourceNext, MainStep
<1> QED
  BY <1>1, <1>2, SourceTypes, PTL DEF SourceSpec

-----------------------------------------------------------------------------
(* The fake source's snapshots.                                            *)

\* The load's part of the drop grows with the load.
LEMMA LoadDrop ==
  ASSUME NEW i \in 0 .. 12, NEW l \in 480 .. 1080
  PROVE  /\ l * (860 + 25 * i) \in Int
         /\ 0 <= l * (860 + 25 * i)
         /\ l * (860 + 25 * i) <= 1080 * (860 + 25 * i)
<1> DEFINE factor == 860 + 25 * i
<1>1. factor \in Nat
  OBVIOUS
<1> HIDE DEF factor
<1>2. l * factor \in Int /\ 0 <= l * factor /\ l * factor <= 1080 * factor
  BY <1>1
<1> QED
  BY <1>2 DEF factor

(* The formula stays within the operating envelope, for every bus and phase. *)
LEMMA VoltageBounds ==
  ASSUME NEW i \in Buses, NEW phase \in Phases,
         NEW l \in LoadRange, NEW p \in PvRange,
         NEW ripple, IsRipple(ripple)
  PROVE  /\ Voltage(i, phase, l, p, ripple) \in Int
         /\ EnvelopeLow <= Voltage(i, phase, l, p, ripple)
         /\ Voltage(i, phase, l, p, ripple) <= EnvelopeHigh
<1> USE DEF MicroPu, MilliPu
<1> DEFINE load_part == l * (860 + 25 * i)
           offset == PhaseOffset(phase)
<1>1. i \in 0 .. 12
  BY DEF Buses, NumBuses
<1>2. /\ load_part \in Int /\ 0 <= load_part
      /\ load_part <= 1080 * (860 + 25 * i)
  BY <1>1, LoadDrop DEF LoadRange
<1>3. offset \in Int /\ -1500 * MicroPu <= offset /\ offset <= 2500 * MicroPu
  BY DEF PhaseOffset, Phases
<1>4. Voltage(i, phase, l, p, ripple)
        = 1017 * MilliPu - 1900 * MicroPu * i - 28 * load_part + 18 * MicroPu * p
          + offset + ripple
  BY <1>1 DEF Voltage, LoadRange, PvRange, IsRipple
<1> HIDE DEF load_part, offset
<1> QED
  BY <1>1, <1>2, <1>3, <1>4 DEF IsRipple, PvRange, EnvelopeLow, EnvelopeHigh

LEMMA ClampWithin ==
  ASSUME NEW v \in Int, EnvelopeLow <= v, v <= EnvelopeHigh
  PROVE  Clamp(v, ClampLow, ClampHigh) = v
  BY DEF Clamp, MicroPu, MilliPu, ClampLow, ClampHigh, EnvelopeLow, EnvelopeHigh

-----------------------------------------------------------------------------
LEMMA Borders ==
  /\ ClampLow \in Int /\ ClampHigh \in Int /\ EnvelopeLow \in Int /\ EnvelopeHigh \in Int
  /\ ClampLow <= EnvelopeLow /\ EnvelopeHigh <= ClampHigh
  BY DEF ClampLow, ClampHigh, EnvelopeLow, EnvelopeHigh, MicroPu, MilliPu

LEMMA SnapshotTypeInit == SnapshotInit => SnapshotTypeOK /\ BaselineQuiet /\ ClampIdle
<1> SUFFICES ASSUME SnapshotInit
             PROVE  SnapshotTypeOK /\ BaselineQuiet /\ ClampIdle
  OBVIOUS
<1>1. voltage \in Int /\ EnvelopeLow <= voltage /\ voltage <= EnvelopeHigh /\ raw = voltage
  BY DEF SnapshotInit, EnvelopeLow, EnvelopeHigh, MicroPu, MilliPu
<1>2. voltage \in Nanos
  BY <1>1, Borders DEF Nanos
<1>3. bus \in 0 .. NumBuses
  BY DEF SnapshotInit, NumBuses
<1> QED
  BY <1>1, <1>2, <1>3 DEF SnapshotInit, SnapshotTypeOK, BaselineQuiet, ClampIdle

LEMMA NextPhaseStep ==
  ASSUME SnapshotTypeOK, NextPhase
  PROVE  /\ raw' \in Int /\ voltage' = raw'
         /\ EnvelopeLow <= voltage' /\ voltage' <= EnvelopeHigh
<1>1. PICK phase \in phases, ripple \in Ripples :
        /\ raw' = Voltage(bus, phase, load, pv, ripple)
        /\ voltage' = Clamp(raw', ClampLow, ClampHigh)
  BY DEF NextPhase
<1>2. /\ bus \in Buses /\ phase \in Phases
      /\ load \in LoadRange /\ pv \in PvRange /\ IsRipple(ripple)
  BY SnapshotAssumption DEF SnapshotTypeOK, NextPhase
<1>3. raw' \in Int /\ EnvelopeLow <= raw' /\ raw' <= EnvelopeHigh
  <2> DEFINE v == Voltage(bus, phase, load, pv, ripple)
  <2>1. v \in Int /\ EnvelopeLow <= v /\ v <= EnvelopeHigh
    BY <1>2, VoltageBounds
  <2> QED
    BY <1>1, <2>1
<1> QED
  BY <1>1, <1>3, ClampWithin

LEMMA QuietStep ==
  SnapshotTypeOK /\ BaselineQuiet /\ ClampIdle /\ [SnapshotNext]_snapshotVars
    => SnapshotTypeOK' /\ BaselineQuiet' /\ ClampIdle'
<1> SUFFICES ASSUME SnapshotTypeOK, BaselineQuiet, ClampIdle, [SnapshotNext]_snapshotVars
             PROVE  SnapshotTypeOK' /\ BaselineQuiet' /\ ClampIdle'
  OBVIOUS
<1> USE DEF BaselineQuiet, ClampIdle
<1>1. CASE Begin
  BY <1>1 DEF Begin, SnapshotTypeOK, NumBuses
<1>2. CASE NextBus
  BY <1>2 DEF NextBus, SnapshotTypeOK
<1>3. CASE NextPhase
  <2>1. raw' \in Int /\ voltage' = raw' /\ BaselineQuiet'
    BY <1>3, NextPhaseStep
  <2>2. voltage' \in Nanos
    BY <1>3, NextPhaseStep, Borders DEF Nanos
  <2>3. phases' \subseteq Phases
    BY <1>3 DEF NextPhase, SnapshotTypeOK
  <2>4. points' \subseteq Buses \X Phases \X Signals
    <3>1. PICK phase \in phases :
            points' = points \union {<<bus, phase, signal>> : signal \in Signals}
      BY <1>3 DEF NextPhase
    <3>2. bus \in Buses /\ phase \in Phases
      BY <1>3 DEF NextPhase, SnapshotTypeOK
    <3> QED
      BY <3>1, <3>2 DEF SnapshotTypeOK
  <2>5. counted' \in Nat
    BY <1>3 DEF NextPhase, SnapshotTypeOK, NumSignals
  <2>6. UNCHANGED <<pc, bus, load, pv, lines>>
    BY <1>3 DEF NextPhase
  <2> QED
    BY <2>1, <2>2, <2>3, <2>4, <2>5, <2>6 DEF SnapshotTypeOK
<1>4. CASE BusDone
  BY <1>4 DEF BusDone, SnapshotTypeOK, Buses, NumBuses
<1>5. CASE ToLines
  BY <1>5 DEF ToLines, SnapshotTypeOK
<1>6. CASE UNCHANGED snapshotVars
  BY <1>6 DEF snapshotVars, SnapshotTypeOK
<1> QED
  BY <1>1, <1>2, <1>3, <1>4, <1>5, <1>6 DEF SnapshotNext

(* Whatever the time of day, the load and the ripple, the synthetic          *)
(* baseline does not leave the operating envelope (generate_snapshot).       *)
THEOREM SyntheticBaselineQuiet == SnapshotSpec => []BaselineQuiet
  BY SnapshotTypeInit, QuietStep, PTL DEF SnapshotSpec

(* The clamp never takes effect: every stored voltage is the formula's.      *)
THEOREM ClampNeverBinds == SnapshotSpec => []ClampIdle
  BY SnapshotTypeInit, QuietStep, PTL DEF SnapshotSpec
-----------------------------------------------------------------------------
AllPoints == Buses \X Phases \X Signals

\* The points of the buses and phases the loops have been through, each
\* counted once.
Tally ==
  /\ pc \in {"bus", "lines"} => points = {p \in AllPoints : p[1] < bus}
  /\ pc = "phase" =>
       points = {p \in AllPoints : p[1] < bus \/ (p[1] = bus /\ p[2] \notin phases)}
  /\ pc = "lines" => bus = NumBuses
  /\ IsFiniteSet(points) /\ Cardinality(points) = counted

\* A phase has five points.
LEMMA FivePoints ==
  ASSUME NEW b, NEW phase
  PROVE  LET new == {<<b, phase, signal>> : signal \in Signals}
         IN  IsFiniteSet(new) /\ Cardinality(new) = NumSignals
<1> DEFINE t(signal) == <<b, phase, signal>>
           one == {t("voltage_pu")}
           two == one \cup {t("current_a")}
           three == two \cup {t("real_power_kw")}
           four == three \cup {t("reactive_power_kvar")}
           five == four \cup {t("frequency_hz")}
<1>1. IsFiniteSet(one) /\ Cardinality(one) = 1
  BY FS_Singleton
<1>2. IsFiniteSet(two) /\ Cardinality(two) = 2
  <2>1. t("current_a") \notin one
    OBVIOUS
  <2> HIDE DEF one, t
  <2> QED
    BY <1>1, <2>1, FS_AddElement
<1>3. IsFiniteSet(three) /\ Cardinality(three) = 3
  <2>1. t("real_power_kw") \notin two
    OBVIOUS
  <2> HIDE DEF two, t
  <2> QED
    BY <1>2, <2>1, FS_AddElement
<1>4. IsFiniteSet(four) /\ Cardinality(four) = 4
  <2>1. t("reactive_power_kvar") \notin three
    OBVIOUS
  <2> HIDE DEF three, t
  <2> QED
    BY <1>3, <2>1, FS_AddElement
<1>5. IsFiniteSet(five) /\ Cardinality(five) = 5
  <2>1. t("frequency_hz") \notin four
    OBVIOUS
  <2> HIDE DEF four, t
  <2> QED
    BY <1>4, <2>1, FS_AddElement
<1>6. {t(signal) : signal \in Signals} = five
  BY DEF Signals
<1> QED
  BY <1>5, <1>6 DEF NumSignals

LEMMA TallyPhase ==
  ASSUME SnapshotTypeOK, Tally, NextPhase
  PROVE  Tally'
<1>1. PICK phase \in phases :
        /\ phases' = phases \ {phase}
        /\ points' = points \cup {<<bus, phase, signal>> : signal \in Signals}
  BY DEF NextPhase
<1>2. /\ pc = "phase" /\ UNCHANGED <<pc, bus>> /\ counted' = counted + NumSignals
      /\ bus \in Buses /\ bus \in Nat /\ phase \in Phases /\ phases \subseteq Phases
  BY DEF NextPhase, SnapshotTypeOK, Buses, NumBuses
<1> DEFINE new == {<<bus, phase, signal>> : signal \in Signals}
<1>3. points' = {p \in AllPoints : p[1] < bus \/ (p[1] = bus /\ p[2] \notin phases')}
  <2>1. points = {p \in AllPoints : p[1] < bus \/ (p[1] = bus /\ p[2] \notin phases)}
    BY <1>2 DEF Tally
  <2>2. new = {p \in AllPoints : p[1] = bus /\ p[2] = phase}
    BY <1>2 DEF AllPoints
  <2> QED
    BY <1>1, <2>1, <2>2
<1>4. points \cap new = {}
  BY <1>1, <1>2 DEF Tally
<1>5. IsFiniteSet(points') /\ Cardinality(points') = counted'
  <2>1. IsFiniteSet(new) /\ Cardinality(new) = NumSignals
    BY FivePoints
  <2> HIDE DEF new
  <2>2. IsFiniteSet(points) /\ Cardinality(points) = counted /\ counted \in Nat
    BY DEF Tally, SnapshotTypeOK
  <2>3. /\ IsFiniteSet(points \cup new)
        /\ Cardinality(points \cup new)
             = Cardinality(points) + Cardinality(new) - Cardinality(points \cap new)
    BY <2>1, <2>2, FS_Union
  <2>4. Cardinality(points \cap new) = 0
    BY <1>4, FS_EmptySet
  <2> QED
    BY <1>1, <1>2, <2>1, <2>2, <2>3, <2>4 DEF new, NumSignals
<1> QED
  BY <1>2, <1>3, <1>5 DEF Tally

LEMMA TallyStep == SnapshotTypeOK /\ Tally /\ [SnapshotNext]_snapshotVars => Tally'
<1> SUFFICES ASSUME SnapshotTypeOK, Tally, [SnapshotNext]_snapshotVars
             PROVE  Tally'
  OBVIOUS
<1> USE DEF Tally
<1>1. CASE Begin
  BY <1>1, FS_EmptySet DEF Begin, AllPoints, Buses, NumBuses
<1>2. CASE NextBus
  <2>1. CASE bus \in Buses
    <3>1. points' = {p \in AllPoints : p[1] < bus \/ (p[1] = bus /\ p[2] \notin Phases)}
      BY <1>2, <2>1 DEF NextBus, AllPoints
    <3> QED
      BY <1>2, <2>1, <3>1 DEF NextBus
  <2>2. CASE bus \notin Buses
    BY <1>2, <2>2 DEF NextBus, SnapshotTypeOK, Buses, NumBuses
  <2> QED
    BY <2>1, <2>2
<1>3. CASE NextPhase
  BY <1>3, TallyPhase
<1>4. CASE BusDone
  <2>1. /\ bus \in Nat /\ bus' = bus + 1 /\ points' = points
        /\ points = {p \in AllPoints : p[1] < bus \/ p[1] = bus}
    BY <1>4 DEF BusDone, SnapshotTypeOK, NumBuses
  <2>2. \A p \in AllPoints : p[1] \in Int
    BY DEF AllPoints, Buses, NumBuses
  <2>3. points' = {p \in AllPoints : p[1] < bus'}
    BY <2>1, <2>2
  <2> QED
    BY <1>4, <2>3 DEF BusDone
<1>5. CASE ToLines
  BY <1>5 DEF ToLines
<1>6. CASE UNCHANGED snapshotVars
  BY <1>6 DEF snapshotVars
<1> QED
  BY <1>1, <1>2, <1>3, <1>4, <1>5, <1>6 DEF SnapshotNext

(* Every bus, phase and signal of a snapshot is a point of a series of its    *)
(* own: InfluxDB keeps as many as the loops counted (generate_snapshot,       *)
(* snapshot_to_line_protocol).                                                *)
THEOREM SnapshotComplete == SnapshotSpec => []NoPointLost
<1>1. SnapshotInit => Tally
  BY FS_EmptySet DEF SnapshotInit, Tally
<1>2. SnapshotTypeOK /\ Tally => NoPointLost
  <2>1. \A p \in AllPoints : p[1] < NumBuses
    BY DEF AllPoints, Buses, NumBuses
  <2> QED
    BY <2>1 DEF Tally, NoPointLost, AllPoints
<1> QED
  BY <1>1, <1>2, TallyStep, SnapshotTypeInit, QuietStep, PTL DEF SnapshotSpec
=============================================================================
