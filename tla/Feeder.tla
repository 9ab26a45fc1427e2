------------------------------- MODULE Feeder -------------------------------
(***************************************************************************)
(* The operating points the simulator replays and the scenarios laid over  *)
(* them, for the signal the detectors judge: the three phase voltages of   *)
(* bus 650.  The other six signals of the contract are not judged by any   *)
(* detector and are not given values.  Voltages are integers in units of   *)
(* 0.00001 pu, the precision simulate_timestep and apply_scenario round    *)
(* to.  Operators only.                                                    *)
(***************************************************************************)
EXTENDS RegisterContract

Hour == 0 .. 23

Scenarios == {"baseline-modbus", "naive-bad-value", "stealthy-fdia"}

Phases == {"a", "b", "c"}

\* Per cent of the base load and of the PV rating, hour by hour.
LoadProfile ==
  <<68, 64, 61, 60, 62, 69, 78, 86, 91, 94, 92, 90,
    88, 87, 89, 94, 101, 108, 112, 109, 101, 92, 82, 74>>

PvProfile ==
  <<0, 0, 0, 0, 0, 0, 2, 12, 30, 52, 72, 88,
    100, 94, 78, 55, 30, 10, 1, 0, 0, 0, 0, 0>>

\* vm_pu of the slack bus 650, which the power flow holds at its set point.
SourceVoltage(hour) ==
  101200 - 6 * (LoadProfile[hour + 1] - 85) + 3 * PvProfile[hour + 1]

\* Phases b and c are the source voltage times 0.9985 and 1.0010, rounded.
PhaseVoltages(hour, phase) ==
  CASE phase = "a" -> {SourceVoltage(hour)}
    [] phase = "b" -> Nearest(SourceVoltage(hour) * 9985, 10000)
    [] phase = "c" -> Nearest(SourceVoltage(hour) * 1001, 1000)

\* No hour of the profile has a phase voltage that rounds two ways.
ASSUME ProfileRoundsOneWay ==
  \A hour \in Hour, phase \in Phases : Cardinality(PhaseVoltages(hour, phase)) = 1

SimulatedVoltage(hour, phase) == CHOOSE v \in PhaseVoltages(hour, phase) : TRUE

\* apply_scenario
AttackedVoltage(scenario, hour, phase) ==
  CASE scenario = "naive-bad-value" /\ phase = "a" -> 88000
    [] scenario = "stealthy-fdia" -> SimulatedVoltage(hour, phase) + 1200
    [] OTHER -> SimulatedVoltage(hour, phase)

IsAttack(scenario) == scenario # "baseline-modbus"

\* The voltage registers of ieee13-demo.json: addresses 0, 1, 2, uint16 in
\* steps of 0.0001 pu.
VoltageRegister(phase) ==
  [name |-> phase, point |-> phase, dataType |-> "uint16", scale |-> 10, offset |-> 0,
   address |-> CASE phase = "a" -> 0 [] phase = "b" -> 1 [] phase = "c" -> 2]

\* What the ingestor may decode for a voltage: both neighbours on a tie.
ReceivedVoltages(scenario, hour, phase) ==
  LET reg == VoltageRegister(phase)
  IN  {Decode(reg, Word(raw)) :
         raw \in RawValues(reg, AttackedVoltage(scenario, hour, phase))}
=============================================================================
