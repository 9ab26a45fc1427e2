----------------------------- MODULE Detection ------------------------------
(***************************************************************************)
(* The ingestor's detectors (detection.py): which of them add a detection  *)
(* to a batch.  Voltages are in units of 0.00001 pu.  Operators only.      *)
(***************************************************************************)
EXTENDS Integers

EnvelopeLow == 95000
EnvelopeHigh == 105000

\* Mutant of OutsideEnvelope: no voltage is both.
OutsideBoth(voltage) == voltage < EnvelopeLow /\ voltage > EnvelopeHigh

\* A voltage on the border of the envelope is inside.
OutsideEnvelope(voltage) == voltage < EnvelopeLow \/ voltage > EnvelopeHigh

\* detection_points, for a batch whose voltages of the phases in outside are
\* outside the envelope and whose points all carry one attack flag.
Detectors(outside, attackFlag) ==
  {d \in {"voltage-envelope", "attack-flag-forwarder"} :
     \/ d = "voltage-envelope" /\ outside # {}
     \/ d = "attack-flag-forwarder" /\ attackFlag = 1}
=============================================================================
