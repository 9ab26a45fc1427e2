---------------------------- MODULE FakeSnapshot ----------------------------
(***************************************************************************)
(* A snapshot of the fake telemetry source (generator.py) and the lines    *)
(* the fake ingestor makes of it (influx.py, snapshot_to_line_protocol).   *)
(*                                                                         *)
(* Voltages are exact, in units of 10^-9 pu: the factors of the formula    *)
(* have at most three decimals.  The daily shapes of load and sun and the  *)
(* ripple are any value in the range the code confines them to, in the     *)
(* constants' grain.  What is derived from the load alone (power, current, *)
(* frequency) is a point like the others, without a value.                 *)
(***************************************************************************)
EXTENDS Integers, FiniteSets

MicroPu == 1000
MilliPu == 1000 * MicroPu

CONSTANTS
    LoadShapes,   \* values of _daily_load_shape considered, in thousandths
    PvShapes,     \* values of _pv_shape considered, in thousandths
    Ripples       \* values of _ripple considered, in 10^-9 pu

\* What the clamp of _daily_load_shape and the powers of a sine leave.
LoadRange == 480 .. 1080
PvRange == 0 .. 1000

\* The sine of _ripple, times 0.0015.
IsRipple(r) == r \in Int /\ -1500 * MicroPu <= r /\ r <= 1500 * MicroPu

ASSUME SnapshotAssumption ==
  /\ LoadShapes \subseteq LoadRange
  /\ PvShapes \subseteq PvRange
  /\ \A r \in Ripples : IsRipple(r)

NumBuses == 13
Buses == 0 .. NumBuses - 1      \* bus_index
Phases == {"A", "B", "C"}
Signals == {"voltage_pu", "current_a", "real_power_kw", "reactive_power_kvar",
            "frequency_hz"}
NumSignals == 5                 \* len(signals)

VARIABLES
    pc,        \* "idle", "bus" (the outer loop), "phase" (the inner), "lines"
    bus,       \* bus_index
    phases,    \* phases of this bus still to do
    load, pv,  \* load_shape and pv_shape of this snapshot
    voltage,   \* the last value of voltage_pu, after the clamp
    raw,       \* and before it
    points,    \* the tags of the points so far, feeder, scenario and source apart
    counted,   \* len(points)
    lines      \* the series the last batch of lines writes to

snapshotVars == <<pc, bus, phases, load, pv, voltage, raw, points, counted, lines>>

PhaseOffset(phase) ==
  CASE phase = "A" -> 2500 * MicroPu
    [] phase = "B" -> -1500 * MicroPu
    [] phase = "C" -> -1000 * MicroPu

Clamp(value, low, high) ==
  IF value < low THEN low ELSE IF value > high THEN high ELSE value

\* Mutant of Voltage: bus_load_factor growing twice as fast.
VoltageSteep(i, phase, l, p, ripple) ==
  1017 * MilliPu - 1900 * MicroPu * i - 28 * l * (860 + 50 * i) + 18 * MicroPu * p
    + PhaseOffset(phase) + ripple

\* voltage_pu before the clamp: distance_drop, bus_load_factor, the sun, the
\* phase and the ripple.
Voltage(i, phase, l, p, ripple) ==
  1017 * MilliPu - 1900 * MicroPu * i - 28 * l * (860 + 25 * i) + 18 * MicroPu * p
    + PhaseOffset(phase) + ripple

ClampLow == 934 * MilliPu
ClampHigh == 1052 * MilliPu

SnapshotInit ==
  /\ pc = "idle"
  /\ bus = 0
  /\ phases = {}
  /\ load \in LoadShapes
  /\ pv \in PvShapes
  /\ voltage = 1000 * MilliPu
  /\ raw = 1000 * MilliPu
  /\ points = {}
  /\ counted = 0
  /\ lines = {}

\* generate_snapshot up to its loops, for another moment of the day.
Begin ==
  /\ pc = "idle"
  /\ pc' = "bus"
  /\ bus' = 0
  /\ load' \in LoadShapes
  /\ pv' \in PvShapes
  /\ points' = {}
  /\ counted' = 0
  /\ UNCHANGED <<phases, voltage, raw, lines>>

\* One turn of the outer loop begins, or the snapshot is complete.
NextBus ==
  /\ pc = "bus"
  /\ IF bus \in Buses
     THEN pc' = "phase" /\ phases' = Phases
     ELSE pc' = "lines" /\ UNCHANGED phases
  /\ UNCHANGED <<bus, load, pv, voltage, raw, points, counted, lines>>

\* Mutant of NextPhase: common_tags shared by the signals of a phase.
NextPhaseSharingTags ==
  /\ pc = "phase"
  /\ phases # {}
  /\ \E phase \in phases, ripple \in Ripples :
       /\ phases' = phases \ {phase}
       /\ raw' = Voltage(bus, phase, load, pv, ripple)
       /\ voltage' = Clamp(raw', ClampLow, ClampHigh)
       /\ points' = points \union {<<bus, phase, "frequency_hz">>}
  /\ counted' = counted + NumSignals
  /\ UNCHANGED <<pc, bus, load, pv, lines>>

\* One turn of the inner loop: the values of a phase and a point for each.
NextPhase ==
  /\ pc = "phase"
  /\ phases # {}
  /\ \E phase \in phases, ripple \in Ripples :
       /\ phases' = phases \ {phase}
       /\ raw' = Voltage(bus, phase, load, pv, ripple)
       /\ voltage' = Clamp(raw', ClampLow, ClampHigh)
       /\ points' = points \union {<<bus, phase, signal>> : signal \in Signals}
  /\ counted' = counted + NumSignals
  /\ UNCHANGED <<pc, bus, load, pv, lines>>

BusDone ==
  /\ pc = "phase"
  /\ phases = {}
  /\ pc' = "bus"
  /\ bus' = bus + 1
  /\ UNCHANGED <<phases, load, pv, voltage, raw, points, counted, lines>>

\* snapshot_to_line_protocol: every point has fields and becomes a line of
\* its series, stamped with the snapshot's one time.
ToLines ==
  /\ pc = "lines"
  /\ pc' = "idle"
  /\ lines' = points
  /\ UNCHANGED <<bus, phases, load, pv, voltage, raw, points, counted>>

SnapshotNext == Begin \/ NextBus \/ NextPhase \/ BusDone \/ ToLines

SnapshotSpec == SnapshotInit /\ [][SnapshotNext]_snapshotVars

-----------------------------------------------------------------------------
Nanos == ClampLow .. ClampHigh

(* The generator's state has its type (generate_snapshot). *)
SnapshotTypeOK ==
  /\ pc \in {"idle", "bus", "phase", "lines"}
  /\ bus \in 0 .. NumBuses
  /\ pc = "phase" => bus \in Buses
  /\ phases \subseteq Phases
  /\ load \in LoadShapes
  /\ pv \in PvShapes
  /\ voltage \in Nanos
  /\ raw \in Int
  /\ points \subseteq Buses \X Phases \X Signals
  /\ counted \in Nat
  /\ lines \subseteq Buses \X Phases \X Signals

\* The operating envelope of the detectors and of the Grafana rule.
EnvelopeLow == 950 * MilliPu
EnvelopeHigh == 1050 * MilliPu

(* Synthetic data carries attack_flag 0, and no moment of its day takes a
   voltage out of the operating envelope: the fake stack raises no alert.
   The clamp alone would not see to that, its bounds lie outside the
   envelope.  (generate_snapshot; gridguard.yml, voltage-out-of-range.) *)
BaselineQuiet == EnvelopeLow <= voltage /\ voltage <= EnvelopeHigh

(* No value is flattened by the clamp. *)
ClampIdle == voltage = raw

(* A complete snapshot is one point for every bus, phase and signal, each of
   a series of its own: with one time stamp for all of them, two of one
   series would overwrite each other in InfluxDB.  (generate_snapshot,
   snapshot_to_line_protocol.) *)
NoPointLost ==
  pc = "lines" => points = Buses \X Phases \X Signals /\ Cardinality(points) = counted
=============================================================================
