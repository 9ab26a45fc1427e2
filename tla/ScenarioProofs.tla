--------------------------- MODULE ScenarioProofs ---------------------------
(***************************************************************************)
(* The envelope detector tells the naive attack from everything else, at   *)
(* every hour and through every rollout of the scenario switch, for any    *)
(* number of pods, reads per cycle and switches; and the smoke tests of    *)
(* the local stack tell what they are said to, for any windows.            *)
(*                                                                         *)
(* First the voltages: what the profile and the scenarios may simulate,    *)
(* what the registers leave of it.  Then the batch: which scenario its     *)
(* first read, the one of the voltages, came from.  Then the stack: what   *)
(* rows a passed test leaves, and which answer a verdict rests on.         *)
(***************************************************************************)
EXTENDS ScenarioRollout, LocalStack, TLAPS, FiniteSetTheorems

\* The voltages of a day: bounds of the profiles and of the source voltage.
LEMMA ProfileBounds ==
  ASSUME NEW hour \in Hour
  PROVE  /\ LoadProfile[hour + 1] \in Int
         /\ 60 <= LoadProfile[hour + 1] /\ LoadProfile[hour + 1] <= 112
         /\ PvProfile[hour + 1] \in Int
         /\ 0 <= PvProfile[hour + 1] /\ PvProfile[hour + 1] <= 100
<1>1. /\ LoadProfile[hour + 1] \in Int
      /\ 60 <= LoadProfile[hour + 1] /\ LoadProfile[hour + 1] <= 112
  BY DEF Hour, LoadProfile
<1>2. /\ PvProfile[hour + 1] \in Int
      /\ 0 <= PvProfile[hour + 1] /\ PvProfile[hour + 1] <= 100
  BY DEF Hour, PvProfile
<1> QED
  BY <1>1, <1>2

LEMMA SourceBounds ==
  ASSUME NEW hour \in Hour
  PROVE  /\ SourceVoltage(hour) \in Int
         /\ 101038 <= SourceVoltage(hour) /\ SourceVoltage(hour) <= 101650
  BY ProfileBounds DEF SourceVoltage

LEMMA AbsBound ==
  ASSUME NEW x \in Int, NEW bound \in Int, 2 * Abs(x) <= bound
  PROVE  -bound <= 2 * x /\ 2 * x <= bound
  BY DEF Abs

\* What round() returns lies between the quotient's neighbours.
LEMMA NearestBounds ==
  ASSUME NEW n \in Int, NEW d \in Nat \ {0}, NEW raw \in Nearest(n, d)
  PROVE  raw \in Int /\ raw * d \in Int /\ -d <= 2 * (n - raw * d) /\ 2 * (n - raw * d) <= d
<1>1. Abs(d) = d /\ ~(d < 0)
  BY DEF Abs
<1>2. raw \in Int /\ 2 * Abs(n - raw * d) <= d
  BY <1>1 DEF Nearest
<1>3. raw * d \in Int
  BY <1>2
<1> QED
  BY <1>2, <1>3, AbsBound

LEMMA PhaseBounds ==
  ASSUME NEW hour \in Hour, NEW phase \in Phases, NEW v \in PhaseVoltages(hour, phase)
  PROVE  v \in Int /\ 100000 <= v /\ v <= 102000
<1> DEFINE s == SourceVoltage(hour)
<1>1. s \in Int /\ 101038 <= s /\ s <= 101650
  BY SourceBounds
<1> HIDE DEF s
<1>2. CASE phase = "a"
  BY <1>1, <1>2 DEF PhaseVoltages, s
<1>3. CASE phase = "b"
  <2>1. v \in Nearest(s * 9985, 10000) /\ s * 9985 \in Int
    BY <1>1, <1>3 DEF PhaseVoltages, s
  <2>2. v \in Int /\ -10000 <= 2 * (s * 9985 - v * 10000) /\ 2 * (s * 9985 - v * 10000) <= 10000
    BY <2>1, NearestBounds
  <2> QED
    BY <1>1, <2>2
<1>4. CASE phase = "c"
  <2>1. v \in Nearest(s * 1001, 1000) /\ s * 1001 \in Int
    BY <1>1, <1>4 DEF PhaseVoltages, s
  <2>2. v \in Int /\ -1000 <= 2 * (s * 1001 - v * 1000) /\ 2 * (s * 1001 - v * 1000) <= 1000
    BY <2>1, NearestBounds
  <2> QED
    BY <1>1, <2>2
<1> QED
  BY <1>2, <1>3, <1>4 DEF Phases

LEMMA SimulatedBounds ==
  ASSUME NEW hour \in Hour, NEW phase \in Phases
  PROVE  /\ SimulatedVoltage(hour, phase) \in Int
         /\ 100000 <= SimulatedVoltage(hour, phase) /\ SimulatedVoltage(hour, phase) <= 102000
<1>1. Cardinality(PhaseVoltages(hour, phase)) = 1
  BY ProfileRoundsOneWay
<1>2. PhaseVoltages(hour, phase) # {}
  BY <1>1, FS_EmptySet
<1>3. SimulatedVoltage(hour, phase) \in PhaseVoltages(hour, phase)
  BY <1>2 DEF SimulatedVoltage
<1> QED
  BY <1>3, PhaseBounds

\* The attacked voltage: far below the envelope for one phase of the naive
\* scenario, well inside it for every other phase and scenario.
LEMMA AttackedBounds ==
  ASSUME NEW scenario \in Scenarios, NEW hour \in Hour, NEW phase \in Phases
  PROVE  /\ AttackedVoltage(scenario, hour, phase) \in Int
         /\ IF scenario = "naive-bad-value" /\ phase = "a"
            THEN AttackedVoltage(scenario, hour, phase) = 88000
            ELSE /\ 100000 <= AttackedVoltage(scenario, hour, phase)
                 /\ AttackedVoltage(scenario, hour, phase) <= 103200
  BY SimulatedBounds DEF AttackedVoltage, Scenarios

\* A voltage register loses half a step of ten at most.
LEMMA ReceivedNear ==
  ASSUME NEW scenario \in Scenarios, NEW hour \in Hour, NEW phase \in Phases,
         NEW v \in ReceivedVoltages(scenario, hour, phase)
  PROVE  /\ v \in Int
         /\ AttackedVoltage(scenario, hour, phase) - 5 <= v
         /\ v <= AttackedVoltage(scenario, hour, phase) + 5
<1> DEFINE reg == VoltageRegister(phase)
           u == AttackedVoltage(scenario, hour, phase)
<1>1. u \in Int /\ 88000 <= u /\ u <= 103200
  BY AttackedBounds
<1>2. reg.dataType = "uint16" /\ reg.scale = 10 /\ reg.offset = 0
  BY DEF VoltageRegister
<1>3. PICK raw \in RawValues(reg, u) : v = Decode(reg, Word(raw))
  BY DEF ReceivedVoltages
<1> HIDE DEF reg, u
<1>4. raw \in Nearest(u, 10)
  BY <1>1, <1>2, <1>3 DEF RawValues
<1>5. raw \in Int /\ -10 <= 2 * (u - raw * 10) /\ 2 * (u - raw * 10) <= 10
  BY <1>1, <1>4, NearestBounds
<1>6. 0 <= raw /\ raw < 65536
  BY <1>1, <1>5
<1>7. Word(raw) = raw
  BY <1>5, <1>6 DEF Word, WordSize
<1>8. v = raw * 10
  BY <1>2, <1>3, <1>5, <1>7 DEF Decode, Signed
<1> QED
  BY <1>1, <1>5, <1>8 DEF u

\* A received voltage is outside the envelope for the naive phase only.
LEMMA ReceivedOutside ==
  ASSUME NEW scenario \in Scenarios, NEW hour \in Hour, NEW phase \in Phases,
         NEW v \in ReceivedVoltages(scenario, hour, phase)
  PROVE  OutsideEnvelope(v) <=> scenario = "naive-bad-value" /\ phase = "a"
<1> DEFINE u == AttackedVoltage(scenario, hour, phase)
<1>1. v \in Int /\ u - 5 <= v /\ v <= u + 5
  BY ReceivedNear
<1>2. /\ u \in Int
      /\ IF scenario = "naive-bad-value" /\ phase = "a"
         THEN u = 88000 ELSE 100000 <= u /\ u <= 103200
  BY AttackedBounds
<1> HIDE DEF u
<1> QED
  BY <1>1, <1>2 DEF OutsideEnvelope, EnvelopeLow, EnvelopeHigh

(* Whatever a scenario's simulator serves, at every hour and whichever way
   the values were rounded: some voltage is outside the envelope exactly if
   the scenario is the naive one (feeder.py, scenarios.py, detection.py). *)
THEOREM EnvelopeSeparates ==
  ASSUME NEW scenario \in Scenarios, NEW outside \in VoltageReads[scenario]
  PROVE  outside # {} <=> scenario = "naive-bad-value"
<1>1. PICK hour \in Hour : outside \in OutsideAt(scenario, hour)
  BY DEF VoltageReads
<1>2. /\ outside \subseteq Phases
      /\ \A phase \in Phases : \E v \in ReceivedVoltages(scenario, hour, phase) :
           OutsideEnvelope(v) <=> phase \in outside
  BY <1>1 DEF OutsideAt
<1>3. \A phase \in Phases :
        phase \in outside <=> scenario = "naive-bad-value" /\ phase = "a"
  BY <1>2, ReceivedOutside
<1>4. "a" \in Phases
  BY DEF Phases
<1> QED
  BY <1>2, <1>3, <1>4

-----------------------------------------------------------------------------
(* The batches of a rollout.                                               *)

Pods ==
  [phase : {"none", "running", "ready", "stopping"}, label : ScenariosUsed,
   stamped : BOOLEAN, from : Seq(ScenariosUsed), outside : SUBSET Phases]

\* The script, the Deployments and the pods have their types; only
\* simulators of a scenario in use are routed to.
RolloutTyped ==
  /\ switches \in Nat
  /\ stage \in {"idle", "simSet", "waitSim", "waitIngestor"}
  /\ simWanted \in ScenariosUsed
  /\ ingestorWanted \in ScenariosUsed
  /\ sims \in [ScenariosUsed -> {"none", "starting", "ready"}]
  /\ lingering \subseteq ScenariosUsed
  /\ ingestors \in [Slots -> Pods]
  /\ calm \in BOOLEAN

\* A batch keeps, through the reads of its other ranges, what its first read
\* found: the pod remembers whose voltages it judges.
PodHonest(pod) ==
  pod.from # << >> => (pod.outside # {} <=> pod.from[1] = "naive-bad-value")

RolloutInv ==
  /\ RolloutTyped
  /\ \A i \in Slots : PodHonest(ingestors[i])

LEMMA EmptyPods ==
  /\ NoPod \in Pods /\ PodHonest(NoPod)
  /\ \A label \in ScenariosUsed : FreshPod(label) \in Pods /\ PodHonest(FreshPod(label))
<1>1. "baseline-modbus" \in ScenariosUsed /\ << >> \in Seq(ScenariosUsed)
  BY RolloutAssumption
<1>2. NoPod \in Pods /\ NoPod.from = << >>
  BY <1>1 DEF Pods, NoPod
<1>3. ASSUME NEW label \in ScenariosUsed
      PROVE  FreshPod(label) \in Pods /\ FreshPod(label).from = << >>
  BY <1>1 DEF Pods, NoPod, FreshPod
<1> QED
  BY <1>2, <1>3 DEF PodHonest

LEMMA RolloutInit == Init => RolloutInv
<1> SUFFICES ASSUME Init
             PROVE  RolloutInv
  OBVIOUS
<1>1. "baseline-modbus" \in ScenariosUsed
  BY RolloutAssumption
<1>2. ingestors \in [Slots -> Pods] /\ \A i \in Slots : PodHonest(ingestors[i])
  BY <1>1, EmptyPods DEF Init
<1>3. RolloutTyped
  BY <1>1, <1>2 DEF Init, RolloutTyped
<1> QED
  BY <1>2, <1>3 DEF RolloutInv

\* A step of one pod alone, whose batch stays honest.
LEMMA OnePod ==
  ASSUME RolloutInv, NEW i \in Slots, ingestors' \in [Slots -> Pods],
         \A j \in Slots : j # i => ingestors'[j] = ingestors[j],
         PodHonest(ingestors'[i]),
         UNCHANGED <<rolloutVars, sims, lingering, calm>>
  PROVE  RolloutInv'
<1>1. \A j \in Slots : PodHonest(ingestors'[j])
  BY DEF RolloutInv
<1>2. RolloutTyped'
  BY DEF RolloutInv, RolloutTyped, rolloutVars, Slots, Pods
<1> QED
  BY <1>1, <1>2 DEF RolloutInv, Slots

\* A step of the script or of the simulators: the pods stay as they are.
LEMMA NoPodMoves ==
  ASSUME RolloutInv, RolloutTyped', UNCHANGED ingestors
  PROVE  RolloutInv'
  BY DEF RolloutInv, PodHonest, Slots

\* The simulators that may serve a read.
LEMMA RoutedUsed == RolloutTyped => Routed \subseteq ScenariosUsed
  BY DEF RolloutTyped, Routed

\* set_scenario and the Deployment of the simulators.
LEMMA ScriptStep ==
  ASSUME RolloutInv,
         \/ SetIngestor \/ AwaitRollouts \/ ScriptAborts \/ CreateSim
         \/ \E s \in ScenariosUsed :
              SetSim(s) \/ SimReady(s) \/ SimRestarts(s) \/ RetireSim(s) \/ SimUnrouted(s)
  PROVE  RolloutInv'
<1> USE DEF RolloutInv, RolloutTyped, rolloutVars, Slots, Pods
<1>1. CASE SetIngestor
  BY <1>1, NoPodMoves DEF SetIngestor
<1>2. CASE AwaitRollouts
  BY <1>2, NoPodMoves DEF AwaitRollouts
<1>3. CASE ScriptAborts
  BY <1>3, NoPodMoves DEF ScriptAborts
<1>4. CASE CreateSim
  BY <1>4, NoPodMoves DEF CreateSim
<1>5. ASSUME NEW s \in ScenariosUsed, SetSim(s)
      PROVE  RolloutInv'
  BY <1>5, NoPodMoves DEF SetSim
<1>6. ASSUME NEW s \in ScenariosUsed, SimReady(s)
      PROVE  RolloutInv'
  BY <1>6, NoPodMoves DEF SimReady
<1>7. ASSUME NEW s \in ScenariosUsed, SimRestarts(s)
      PROVE  RolloutInv'
  BY <1>7, NoPodMoves DEF SimRestarts
<1>8. ASSUME NEW s \in ScenariosUsed, RetireSim(s)
      PROVE  RolloutInv'
  BY <1>8, NoPodMoves DEF RetireSim
<1>9. ASSUME NEW s \in ScenariosUsed, SimUnrouted(s)
      PROVE  RolloutInv'
  BY <1>9, NoPodMoves DEF SimUnrouted
<1> QED
  BY <1>1, <1>2, <1>3, <1>4, <1>5, <1>6, <1>7, <1>8, <1>9

\* The Deployment of the ingestors.
LEMMA DeploymentStep ==
  ASSUME RolloutInv,
         \/ CreateIngestor
         \/ \E i \in Slots :
              IngestorReady(i) \/ IngestorUnready(i) \/ RetireIngestor(i) \/ IngestorExits(i)
  PROVE  RolloutInv'
<1>1. ingestors \in [Slots -> Pods] /\ ingestorWanted \in ScenariosUsed
  BY DEF RolloutInv, RolloutTyped
<1>2. CASE CreateIngestor
  <2>1. PICK i \in Slots : ingestors' = [ingestors EXCEPT ![i] = FreshPod(ingestorWanted)]
    BY <1>2 DEF CreateIngestor
  <2>2. /\ ingestors' \in [Slots -> Pods] /\ PodHonest(ingestors'[i])
        /\ \A j \in Slots : j # i => ingestors'[j] = ingestors[j]
    BY <1>1, <2>1, EmptyPods
  <2> QED
    BY <1>2, <2>2, OnePod DEF CreateIngestor
<1>3. ASSUME NEW i \in Slots, IngestorReady(i)
      PROVE  RolloutInv'
  <2>1. /\ ingestors' \in [Slots -> Pods]
        /\ ingestors'[i].from = ingestors[i].from /\ ingestors'[i].outside = ingestors[i].outside
        /\ \A j \in Slots : j # i => ingestors'[j] = ingestors[j]
    BY <1>1, <1>3 DEF IngestorReady, Pods
  <2>2. PodHonest(ingestors'[i])
    BY <2>1 DEF RolloutInv, PodHonest
  <2> QED
    BY <1>3, <2>1, <2>2, OnePod DEF IngestorReady
<1>4. ASSUME NEW i \in Slots, IngestorUnready(i)
      PROVE  RolloutInv'
  <2>1. /\ ingestors' \in [Slots -> Pods]
        /\ \/ /\ ingestors'[i].from = ingestors[i].from
              /\ ingestors'[i].outside = ingestors[i].outside
           \/ ingestors'[i].from = << >>
        /\ \A j \in Slots : j # i => ingestors'[j] = ingestors[j]
    <3>1. ingestors[i] \in Pods /\ << >> \in Seq(ScenariosUsed)
      BY <1>1
    <3>2. CASE ingestors' = [ingestors EXCEPT ![i].phase = "running", ![i].stamped = FALSE]
      BY <1>1, <3>1, <3>2 DEF Pods
    <3>3. CASE ingestors' = [ingestors EXCEPT ![i].phase = "running", ![i].from = << >>,
                                              ![i].outside = {}]
      BY <1>1, <3>1, <3>3 DEF Pods
    <3> QED
      BY <1>4, <3>2, <3>3 DEF IngestorUnready
  <2>2. PodHonest(ingestors'[i])
    BY <2>1 DEF RolloutInv, PodHonest
  <2> QED
    BY <1>4, <2>1, <2>2, OnePod DEF IngestorUnready
<1>5. ASSUME NEW i \in Slots, RetireIngestor(i)
      PROVE  RolloutInv'
  <2>1. /\ ingestors' \in [Slots -> Pods]
        /\ ingestors'[i].from = ingestors[i].from /\ ingestors'[i].outside = ingestors[i].outside
        /\ \A j \in Slots : j # i => ingestors'[j] = ingestors[j]
    BY <1>1, <1>5 DEF RetireIngestor, Pods
  <2>2. PodHonest(ingestors'[i])
    BY <2>1 DEF RolloutInv, PodHonest
  <2> QED
    BY <1>5, <2>1, <2>2, OnePod DEF RetireIngestor
<1>6. ASSUME NEW i \in Slots, IngestorExits(i)
      PROVE  RolloutInv'
  <2>1. /\ ingestors' \in [Slots -> Pods] /\ PodHonest(ingestors'[i])
        /\ \A j \in Slots : j # i => ingestors'[j] = ingestors[j]
    BY <1>1, <1>6, EmptyPods DEF IngestorExits
  <2> QED
    BY <1>6, <2>1, OnePod DEF IngestorExits
<1> QED
  BY <1>2, <1>3, <1>4, <1>5, <1>6

\* The first read of a cycle judges the voltages, the others keep the verdict.
LEMMA ReadStep ==
  ASSUME RolloutInv, NEW i \in Slots, ReadRange(i)
  PROVE  RolloutInv'
<1> DEFINE pod == ingestors[i]
<1>1. ingestors \in [Slots -> Pods] /\ pod \in Pods /\ PodHonest(pod)
  BY DEF RolloutInv, RolloutTyped
<1>0. PICK s \in Routed :
        \E outside \in IF pod.from = << >> THEN VoltageReads[s] ELSE {pod.outside} :
          ingestors' = [ingestors EXCEPT ![i].from = Append(pod.from, s), ![i].outside = outside]
  BY DEF ReadRange
<1>2. PICK outside \in IF pod.from = << >> THEN VoltageReads[s] ELSE {pod.outside} :
        ingestors' = [ingestors EXCEPT ![i].from = Append(pod.from, s), ![i].outside = outside]
  BY <1>0
<1>3. s \in ScenariosUsed /\ s \in Scenarios
  BY RoutedUsed, RolloutAssumption DEF RolloutInv
<1>4. pod.from \in Seq(ScenariosUsed) /\ pod.outside \subseteq Phases
  BY <1>1 DEF Pods
<1>5. outside \subseteq Phases
  <2>1. CASE pod.from = << >>
    BY <1>2, <1>3, <2>1 DEF VoltageReads, OutsideAt
  <2>2. CASE pod.from # << >>
    BY <1>2, <1>4, <2>2
  <2> QED
    BY <2>1, <2>2
<1> DEFINE from == Append(pod.from, s)
<1>6. /\ from \in Seq(ScenariosUsed)
      /\ from[1] = IF pod.from = << >> THEN s ELSE pod.from[1]
  BY <1>3, <1>4
<1>7. outside # {} <=> from[1] = "naive-bad-value"
  <2>1. CASE pod.from = << >>
    BY <1>2, <1>3, <1>6, <2>1, EnvelopeSeparates
  <2>2. CASE pod.from # << >>
    BY <1>1, <1>2, <1>6, <2>2 DEF PodHonest
  <2> QED
    BY <2>1, <2>2
<1>8. ingestors' = [ingestors EXCEPT ![i].from = from, ![i].outside = outside]
  BY <1>2
<1> HIDE DEF from, pod
<1>9. /\ ingestors' \in [Slots -> Pods]
      /\ ingestors'[i].from = from /\ ingestors'[i].outside = outside
      /\ \A j \in Slots : j # i => ingestors'[j] = ingestors[j]
  BY <1>1, <1>5, <1>6, <1>8 DEF Pods
<1>10. PodHonest(ingestors'[i])
  BY <1>7, <1>9 DEF PodHonest
<1> QED
  BY <1>9, <1>10, OnePod DEF ReadRange

\* A cycle that is over leaves no batch.
LEMMA CycleStep ==
  ASSUME RolloutInv, NEW i \in Slots, StoreBatch(i) \/ CycleFails(i)
  PROVE  RolloutInv'
<1>1. ingestors \in [Slots -> Pods] /\ ingestors[i] \in Pods /\ ingestors[i].stamped \in BOOLEAN
  BY DEF RolloutInv, RolloutTyped, Pods
<1>2. PICK stamped \in BOOLEAN :
        ingestors' = [ingestors EXCEPT ![i].from = << >>, ![i].outside = {},
                                       ![i].stamped = stamped]
  BY <1>1 DEF StoreBatch, CycleFails, CycleOver
<1>3. << >> \in Seq(ScenariosUsed)
  OBVIOUS
<1>4. /\ ingestors' \in [Slots -> Pods] /\ ingestors'[i].from = << >>
      /\ \A j \in Slots : j # i => ingestors'[j] = ingestors[j]
  BY <1>1, <1>2, <1>3 DEF Pods
<1>5. PodHonest(ingestors'[i])
  BY <1>4 DEF PodHonest
<1> QED
  BY <1>4, <1>5, OnePod DEF StoreBatch, CycleFails

LEMMA RolloutStep == RolloutInv /\ [Next]_vars => RolloutInv'
<1> SUFFICES ASSUME RolloutInv, [Next]_vars
             PROVE  RolloutInv'
  OBVIOUS
<1>1. CASE UNCHANGED vars
  <2>1. RolloutTyped'
    BY <1>1 DEF vars, rolloutVars, RolloutInv, RolloutTyped, Slots, Pods
  <2> QED
    BY <1>1, <2>1, NoPodMoves DEF vars
<1> QED
  BY <1>1, ScriptStep, DeploymentStep, ReadStep, CycleStep DEF Next

LEMMA RolloutInvariance == Spec => []RolloutInv
  BY RolloutInit, RolloutStep, PTL DEF Spec

(* Through every switch, rollout, failure and restart the envelope detector
   reports a batch exactly if its voltages were read from a simulator of the
   naive scenario (eks-lab.sh set_scenario, detection_points). *)
THEOREM EnvelopeTells == Spec => []EnvelopeTellsNaive
<1>1. RolloutInv => EnvelopeTellsNaive
  <2> SUFFICES ASSUME RolloutInv, NEW i \in Slots, BatchReady(i)
               PROVE  "voltage-envelope" \in Reported(i)
                        <=> ingestors[i].from[1] = "naive-bad-value"
    BY DEF EnvelopeTellsNaive
  <2>1. ingestors[i].from # << >>
    BY RolloutAssumption DEF BatchReady
  <2>2. ingestors[i].outside # {} <=> ingestors[i].from[1] = "naive-bad-value"
    BY <2>1 DEF RolloutInv, PodHonest
  <2> QED
    BY <2>2 DEF Reported, Detectors
<1> QED
  BY <1>1, RolloutInvariance, PTL

-----------------------------------------------------------------------------
(* The local stack: what a smoke test's verdict says.                      *)

\* The detectors a batch of the local stack has are those any read of its
\* data and its label give.
THEOREM DetectorsAsReceived ==
  ASSUME NEW label \in Scenarios, NEW s \in Scenarios, NEW outside \in VoltageReads[s]
  PROVE  DetectorsOf(<<label, s>>) = Detectors(outside, IF IsAttack(label) THEN 1 ELSE 0)
<1>1. outside # {} <=> s = "naive-bad-value"
  BY EnvelopeSeparates
<1> QED
  BY <1>1 DEF DetectorsOf, Detectors

ScenarioOrNone == Scenarios \union {"none"}
Verdicts == {"none", "passed", "unsatisfied", "error", "broken"}

\* The stack's containers, batches and tests have their types.
StackTyped ==
  /\ ups \in Nat
  /\ up \in [stage : {"idle", "sim", "await", "ingestor"}, wanted : Scenarios]
  /\ sim \in ScenarioOrNone /\ serving \in BOOLEAN /\ (serving => sim # "none")
  /\ ingestor \in ScenarioOrNone
  /\ batch \in ScenarioOrNone /\ (batch # "none" => ingestor # "none")
  /\ age \in [Scenarios -> [Scenarios -> Nat]]
  /\ smoke \in [test : Tests \union {"none"}, at : Nat, left : Nat, verdict : Verdicts]
  /\ smoke.test # "none" => smoke.at \in 1 .. Len(StepsOf(smoke.test))
  /\ sincePass \in Nat

\* Since a pipeline test passed, the rows it saw have aged with it.
PassedRows ==
  sincePass + Window <= DashWindow =>
    \E label, s \in Scenarios : age[label][s] <= sincePass + Window

StackInv == StackTyped /\ PassedRows

\* Replacing the numbers of a test leaves it a test.
LEMMA TestNumbers ==
  ASSUME StackTyped, NEW at \in Nat, NEW left \in Nat,
         smoke' = [smoke EXCEPT !.at = at, !.left = left]
  PROVE  /\ smoke' \in [test : Tests \union {"none"}, at : Nat, left : Nat, verdict : Verdicts]
         /\ smoke'.test = smoke.test /\ smoke'.at = at /\ smoke'.verdict = smoke.verdict
  BY DEF StackTyped

\* Where a running test is.
LEMMA AtStep ==
  ASSUME StackTyped, smoke.test # "none"
  PROVE  /\ smoke.test \in Tests
         /\ smoke.test = "pipeline" =>
              Len(StepsOf(smoke.test)) = 3 /\ StepsOf(smoke.test)[3] = "rows"
         /\ smoke.test = "dashboard" => Step \notin {"detections", "rows"}
         /\ smoke.test \notin {"pipeline", "dashboard"} => Step = "detections"
<1>1. smoke.test \in Tests /\ smoke.at \in 1 .. Len(StepsOf(smoke.test))
  BY DEF StackTyped
<1>2. CASE smoke.test = "pipeline"
  BY <1>1, <1>2 DEF StepsOf
<1>3. CASE smoke.test = "dashboard"
  BY <1>1, <1>3 DEF StepsOf, Step
<1>4. CASE smoke.test \notin {"pipeline", "dashboard"}
  BY <1>1, <1>4 DEF StepsOf, Step
<1> QED
  BY <1>1, <1>2, <1>3, <1>4

\* What an attempt makes of the running test.
LEMMA AfterEnds ==
  ASSUME StackTyped, NEW verdict \in Verdicts, Ends(verdict)
  PROVE  /\ smoke' \in [test : Tests \union {"none"}, at : Nat, left : Nat, verdict : Verdicts]
         /\ smoke'.test = smoke.test /\ smoke'.at = smoke.at /\ smoke'.verdict = verdict
  BY DEF StackTyped, Ends

LEMMA AfterTryAgain ==
  ASSUME StackTyped, NEW reason \in Verdicts, TryAgain(reason)
  PROVE  /\ smoke' \in [test : Tests \union {"none"}, at : Nat, left : Nat, verdict : Verdicts]
         /\ smoke'.test = smoke.test /\ smoke'.at = smoke.at
         /\ smoke'.verdict \in {smoke.verdict, reason}
<1>1. CASE Ends(reason)
  BY <1>1, AfterEnds
<1>2. CASE smoke.left > 1 /\ smoke' = [smoke EXCEPT !.left = smoke.left - 1]
  <2>1. smoke.left \in Nat /\ smoke.at \in Nat
    BY DEF StackTyped
  <2>2. smoke.left - 1 \in Nat
    BY <1>2, <2>1
  <2>3. smoke' = [smoke EXCEPT !.at = smoke.at, !.left = smoke.left - 1]
    BY <1>2 DEF StackTyped
  <2> QED
    BY <2>1, <2>2, <2>3, TestNumbers
<1> QED
  BY <1>1, <1>2 DEF TryAgain

LEMMA AfterStepDone ==
  ASSUME StackTyped, Running, StepDone
  PROVE  /\ smoke' \in [test : Tests \union {"none"}, at : Nat, left : Nat, verdict : Verdicts]
         /\ smoke'.test = smoke.test /\ smoke'.at \in 1 .. Len(StepsOf(smoke.test))
         /\ \/ /\ smoke.at = Len(StepsOf(smoke.test)) /\ smoke'.verdict = "passed"
               /\ sincePass' = IF smoke.test = "pipeline" THEN 0 ELSE sincePass
            \/ smoke'.verdict = "none" /\ UNCHANGED sincePass
<1>1. smoke.at \in 1 .. Len(StepsOf(smoke.test)) /\ smoke.verdict = "none"
  BY DEF StackTyped, Running
<1>2. CASE smoke.at = Len(StepsOf(smoke.test))
  <2>1. Ends("passed") /\ sincePass' = IF smoke.test = "pipeline" THEN 0 ELSE sincePass
    BY <1>2 DEF StepDone
  <2> QED
    BY <1>1, <1>2, <2>1, AfterEnds DEF Verdicts
<1>3. CASE smoke.at # Len(StepsOf(smoke.test))
  <2>1. /\ smoke' = [smoke EXCEPT !.at = smoke.at + 1, !.left = Attempts]
        /\ UNCHANGED sincePass
    BY <1>3 DEF StepDone
  <2>2. Len(StepsOf(smoke.test)) \in Nat
    BY AtStep DEF StepsOf, Running, Tests
  <2>3. smoke.at + 1 \in 1 .. Len(StepsOf(smoke.test))
    BY <1>1, <1>3, <2>2
  <2>4. smoke.at + 1 \in Nat /\ Attempts \in Nat
    BY <1>1, LocalStackAssumption
  <2> QED
    BY <1>1, <2>1, <2>3, <2>4, TestNumbers
<1> QED
  BY <1>2, <1>3

\* A test is judged by an answered query only: it passes on an answer that
\* satisfies its last step, which the panels are not, and fails on one that
\* does not satisfy its step.
LEMMA JudgedByAnswer ==
  ASSUME StackTyped, StackNext, NEW test \in Tests, NEW verdict \in {"passed", "unsatisfied"},
         Concludes(test, verdict)
  PROVE  /\ smoke.test = test /\ smoke.test # "none" /\ Answered
         /\ verdict = "passed" /\ Step # "panels" => Satisfied(Step, test)
         /\ verdict = "unsatisfied" => ~Satisfied(Step, test)
<1>1. /\ smoke.test = test /\ smoke.verdict = "none" /\ smoke'.verdict = verdict
      /\ smoke.test # "none" /\ smoke' # smoke /\ smoke'.verdict # "none"
      /\ smoke'.verdict \notin {"error", "broken"}
  BY DEF Concludes, Tests
<1>2. ~Errs
  BY <1>1, AfterTryAgain DEF Errs, Verdicts
<1>3. ~Breaks
  BY <1>1, AfterEnds DEF Breaks, Verdicts
<1>4. ~Dismiss
  BY <1>1 DEF Dismiss, NoSmoke
<1>5. ~ \E t \in Tests : Begin(t)
  BY <1>1 DEF Begin
<1>6. Answered
  BY <1>1, <1>2, <1>3, <1>4, <1>5 DEF StackNext, Up, UpSim, Serve, UpAwait, UpIngestor, UpAborts,
     Down, ContainerRestarts, Read, Store, Tick
<1>7. CASE Satisfied(Step, smoke.test)
  <2>1. Running /\ StepDone
    BY <1>6, <1>7 DEF Answered
  <2>2. smoke'.verdict = "passed"
    BY <1>1, <2>1, AfterStepDone
  <2> QED
    BY <1>1, <1>6, <1>7, <2>2
<1>8. CASE ~Satisfied(Step, smoke.test) /\ TryAgain("unsatisfied")
  <2>1. smoke'.verdict = "unsatisfied"
    BY <1>1, <1>8, AfterTryAgain DEF Verdicts
  <2> QED
    BY <1>1, <1>6, <1>8, <2>1
<1>9. CASE Step = "panels" /\ StepDone
  <2>1. smoke'.verdict = "passed"
    BY <1>1, <1>6, <1>9, AfterStepDone DEF Answered
  <2> QED
    BY <1>1, <1>6, <1>9, <2>1
<1> QED
  BY <1>6, <1>7, <1>8, <1>9 DEF Answered

LEMMA StackInvInit == StackInit => StackInv
<1> SUFFICES ASSUME StackInit
             PROVE  StackInv
  OBVIOUS
<1>1. Window \in Nat \ {0} /\ DashWindow \in Nat
  BY LocalStackAssumption
<1>2. StackTyped
  <2>1. Gone \in Nat
    BY <1>1 DEF Gone
  <2>2. age \in [Scenarios -> [Scenarios -> Nat]]
    BY <2>1 DEF StackInit
  <2>3. smoke \in [test : Tests \union {"none"}, at : Nat, left : Nat, verdict : Verdicts]
          /\ smoke.test = "none"
    BY DEF StackInit, NoSmoke, Verdicts
  <2>4. up \in [stage : {"idle", "sim", "await", "ingestor"}, wanted : Scenarios]
    BY DEF StackInit, Scenarios
  <2> QED
    BY <2>1, <2>2, <2>3, <2>4 DEF StackInit, StackTyped, ScenarioOrNone
<1>3. sincePass + Window > DashWindow
  BY <1>1 DEF StackInit, Gone
<1>4. PassedRows
  BY <1>1, <1>2, <1>3 DEF PassedRows, StackTyped
<1> QED
  BY <1>2, <1>4 DEF StackInv

\* The switches and the containers leave the rows and the tests alone.
LEMMA ContainerStep ==
  ASSUME StackInv,
         \/ \E scenario \in Scenarios : Up(scenario)
         \/ UpSim \/ Serve \/ UpAwait \/ UpIngestor \/ UpAborts \/ ContainerRestarts \/ Read
  PROVE  StackInv'
<1>1. UNCHANGED <<age, smoke, sincePass>>
  BY DEF Up, UpSim, Serve, UpAwait, UpIngestor, UpAborts, ContainerRestarts, Read
<1>2. PassedRows'
  BY <1>1 DEF StackInv, PassedRows
<1>3. StackTyped
  BY DEF StackInv
<1>4. StackTyped'
  <2>1. ASSUME NEW scenario \in Scenarios, Up(scenario)
        PROVE  StackTyped'
    BY <1>3, <2>1 DEF StackTyped, Up, ScenarioOrNone
  <2>2. CASE UpSim
    <3>1. up.wanted \in ScenarioOrNone /\ up.wanted # "none"
      BY <1>3 DEF StackTyped, ScenarioOrNone, Scenarios
    <3> QED
      BY <1>3, <2>2, <3>1 DEF StackTyped, UpSim
  <2>3. CASE Serve
    BY <1>3, <2>3 DEF StackTyped, Serve
  <2>4. CASE UpAwait
    BY <1>3, <2>4 DEF StackTyped, UpAwait
  <2>5. CASE UpIngestor
    <3>1. up.wanted \in ScenarioOrNone /\ up.wanted # "none" /\ "none" \in ScenarioOrNone
      BY <1>3 DEF StackTyped, ScenarioOrNone, Scenarios
    <3> QED
      BY <1>3, <2>5, <3>1 DEF StackTyped, UpIngestor
  <2>6. CASE UpAborts
    BY <1>3, <2>6 DEF StackTyped, UpAborts
  <2>7. CASE ContainerRestarts
    BY <1>3, <2>7 DEF StackTyped, ContainerRestarts
  <2>8. CASE Read
    BY <1>3, <2>8 DEF StackTyped, Read
  <2> QED
    BY <2>1, <2>2, <2>3, <2>4, <2>5, <2>6, <2>7, <2>8
<1> QED
  BY <1>2, <1>4 DEF StackInv

\* A down may take the rows, and then it takes the memory of the test too.
LEMMA DownStep ==
  ASSUME StackInv, Down
  PROVE  StackInv'
<1>1. StackTyped /\ "none" \in ScenarioOrNone /\ Window \in Nat \ {0} /\ DashWindow \in Nat
  BY LocalStackAssumption DEF StackInv, ScenarioOrNone
<1>2. /\ sim' = "none" /\ serving' = FALSE /\ ingestor' = "none" /\ batch' = "none"
      /\ UNCHANGED <<ups, up, smoke>>
  BY DEF Down
<1>3. CASE UNCHANGED <<age, sincePass>>
  <2>1. StackTyped'
    BY <1>1, <1>2, <1>3 DEF StackTyped
  <2> QED
    BY <1>3, <2>1 DEF StackInv, PassedRows
<1>4. CASE age' = NoRows /\ sincePass' = Gone
  <2>1. Gone \in Nat /\ Gone + Window > DashWindow /\ NoRows \in [Scenarios -> [Scenarios -> Nat]]
    BY <1>1 DEF Gone, NoRows
  <2>2. StackTyped'
    BY <1>1, <1>2, <1>4, <2>1 DEF StackTyped
  <2>3. ~(Gone + Window <= DashWindow)
    BY <1>1, <2>1
  <2> QED
    BY <1>4, <2>2, <2>3 DEF StackInv, PassedRows
<1> QED
  BY <1>3, <1>4 DEF Down

\* A stored batch is younger than any before it.
LEMMA StoreStep ==
  ASSUME StackInv, Store
  PROVE  StackInv'
<1>1. /\ StackTyped /\ PassedRows /\ "none" \in ScenarioOrNone /\ Window \in Nat
      /\ ingestor \in Scenarios /\ batch \in Scenarios
      /\ age \in [Scenarios -> [Scenarios -> Nat]] /\ sincePass \in Nat
  BY LocalStackAssumption DEF StackInv, StackTyped, ScenarioOrNone, Store
<1>2. /\ batch' = "none" /\ UNCHANGED <<ups, up, sim, serving, ingestor, smoke, sincePass>>
      /\ \/ age' = [age EXCEPT ![ingestor][batch] = 0]
         \/ UNCHANGED age
  BY DEF Store
<1>3. age' \in [Scenarios -> [Scenarios -> Nat]]
  BY <1>1, <1>2
<1>4. \A l, s \in Scenarios : age'[l][s] = age[l][s] \/ age'[l][s] = 0
  BY <1>1, <1>2
<1>5. StackTyped'
  BY <1>1, <1>2, <1>3 DEF StackTyped
<1>6. ASSUME sincePass + Window <= DashWindow
      PROVE  \E l, s \in Scenarios : age'[l][s] <= sincePass + Window
  <2>1. PICK l \in Scenarios, s \in Scenarios : age[l][s] <= sincePass + Window
    BY <1>1, <1>6 DEF PassedRows
  <2>2. 0 <= sincePass + Window
    BY <1>1
  <2> QED
    BY <1>4, <2>1, <2>2
<1> QED
  BY <1>2, <1>5, <1>6 DEF StackInv, PassedRows

\* Rows and the memory of the test age together.
LEMMA AgeStep ==
  ASSUME StackInv, Tick
  PROVE  StackInv'
<1>1. /\ StackTyped /\ PassedRows /\ Window \in Nat \ {0} /\ DashWindow \in Nat
      /\ age \in [Scenarios -> [Scenarios -> Nat]] /\ sincePass \in Nat
  BY LocalStackAssumption DEF StackInv, StackTyped
<1>2. /\ age' = [label \in Scenarios |-> [s \in Scenarios |-> Older(age[label][s])]]
      /\ sincePass' = Older(sincePass) /\ UNCHANGED <<stackVars, smoke>>
  BY DEF Tick
<1>3. Gone \in Nat /\ Gone = DashWindow + 1
  BY <1>1 DEF Gone
<1>4. \A a \in Nat : Older(a) \in Nat /\ Older(a) <= a + 1
  <2> TAKE a \in Nat
  <2>1. CASE a < Gone
    BY <2>1 DEF Older
  <2>2. CASE ~(a < Gone)
    BY <1>3, <2>2 DEF Older
  <2> QED
    BY <2>1, <2>2
<1>5. \A l, s \in Scenarios : age[l][s] \in Nat /\ age'[l][s] = Older(age[l][s])
  BY <1>1, <1>2
<1>6. age' \in [Scenarios -> [Scenarios -> Nat]] /\ sincePass' \in Nat
  BY <1>1, <1>2, <1>4
<1>7. StackTyped'
  BY <1>1, <1>2, <1>6 DEF StackTyped, stackVars
<1>8. ASSUME sincePass' + Window <= DashWindow
      PROVE  \E l, s \in Scenarios : age'[l][s] <= sincePass' + Window
  <2>1. sincePass' = sincePass + 1
    <3>1. sincePass' # Gone
      BY <1>1, <1>3, <1>8
    <3> QED
      BY <1>2, <3>1 DEF Older
  <2>2. PICK l \in Scenarios, s \in Scenarios : age[l][s] <= sincePass + Window
    BY <1>1, <1>8, <2>1 DEF PassedRows
  <2>3. age[l][s] \in Nat /\ age'[l][s] \in Nat /\ age'[l][s] <= age[l][s] + 1
    BY <1>4, <1>5
  <2>4. age'[l][s] <= sincePass' + Window
    BY <1>1, <2>1, <2>2, <2>3
  <2> QED
    BY <2>4
<1> QED
  BY <1>7, <1>8 DEF StackInv, PassedRows

\* The tests read; the pipeline test passes on a row of its window.
LEMMA TestStep ==
  ASSUME StackInv, Answered \/ Errs \/ Breaks \/ Dismiss \/ \E test \in Tests : Begin(test)
  PROVE  StackInv'
<1> DEFINE Typed == [test : Tests \union {"none"}, at : Nat, left : Nat, verdict : Verdicts]
<1>1. /\ StackTyped /\ PassedRows /\ UNCHANGED <<stackVars, age>>
      /\ Window \in Nat \ {0} /\ DashWindow \in Nat /\ Attempts \in Nat
  BY LocalStackAssumption DEF StackInv, Answered, Errs, Breaks, Dismiss, Begin
<1>2. ASSUME smoke' \in Typed,
             smoke'.test # "none" => smoke'.at \in 1 .. Len(StepsOf(smoke'.test)),
             sincePass' \in Nat
      PROVE  StackTyped'
  BY <1>1, <1>2 DEF StackTyped, stackVars
<1>3. UNCHANGED sincePass => PassedRows'
  BY <1>1 DEF PassedRows
<1>4. sincePass \in Nat /\ (smoke.test # "none" => smoke.at \in 1 .. Len(StepsOf(smoke.test)))
  BY <1>1 DEF StackTyped
<1>5. CASE Answered
  <2>1. Running /\ smoke.test # "none"
    BY <1>5 DEF Answered, Running
  <2>2. CASE StepDone /\ (Step = "rows" => Satisfied(Step, smoke.test))
    <3>1. StepDone
      BY <2>2
    <3>2. /\ smoke' \in Typed /\ smoke'.test = smoke.test
          /\ smoke'.at \in 1 .. Len(StepsOf(smoke.test))
      BY <1>1, <2>1, <3>1, AfterStepDone
    <3>3. \/ UNCHANGED sincePass
          \/ /\ smoke.at = Len(StepsOf(smoke.test)) /\ smoke.test = "pipeline"
             /\ sincePass' = 0
      BY <1>1, <2>1, <3>1, AfterStepDone
    <3>4. CASE UNCHANGED sincePass
      BY <1>2, <1>3, <1>4, <3>2, <3>4 DEF StackInv
    <3>5. CASE /\ smoke.at = Len(StepsOf(smoke.test)) /\ smoke.test = "pipeline"
               /\ sincePass' = 0
      <4>1. Step = "rows"
        BY <1>1, <2>1, <3>5, AtStep DEF Step
      <4>2. Stored(Scenarios, Window) # {}
        BY <2>2, <4>1 DEF Satisfied, RowsWindow
      <4>3. PICK l \in Scenarios, s \in Scenarios : age[l][s] <= Window
        BY <4>2 DEF Stored
      <4>4. age'[l][s] <= sincePass' + Window
        BY <1>1, <3>5, <4>3
      <4>5. PassedRows'
        BY <4>4 DEF PassedRows
      <4> QED
        BY <1>2, <3>2, <3>5, <4>5 DEF StackInv
    <3> QED
      BY <3>3, <3>4, <3>5
  <2>3. CASE TryAgain("unsatisfied") /\ UNCHANGED sincePass
    <3>1. TryAgain("unsatisfied") /\ UNCHANGED sincePass
      BY <2>3
    <3>2. smoke' \in Typed /\ smoke'.test = smoke.test /\ smoke'.at = smoke.at
      BY <1>1, <3>1, AfterTryAgain DEF Verdicts
    <3> QED
      BY <1>2, <1>3, <1>4, <3>1, <3>2 DEF StackInv
  <2> QED
    BY <1>5, <2>2, <2>3 DEF Answered
<1>6. CASE Errs
  <2>1. TryAgain("error") /\ UNCHANGED sincePass
    BY <1>6 DEF Errs
  <2>2. smoke' \in Typed /\ smoke'.test = smoke.test /\ smoke'.at = smoke.at
    BY <1>1, <2>1, AfterTryAgain DEF Verdicts
  <2> QED
    BY <1>2, <1>3, <1>4, <2>1, <2>2 DEF StackInv
<1>7. CASE Breaks
  <2>1. Ends("broken") /\ UNCHANGED sincePass
    BY <1>7 DEF Breaks
  <2>2. smoke' \in Typed /\ smoke'.test = smoke.test /\ smoke'.at = smoke.at
    BY <1>1, <2>1, AfterEnds DEF Verdicts
  <2> QED
    BY <1>2, <1>3, <1>4, <2>1, <2>2 DEF StackInv
<1>8. CASE Dismiss
  <2>1. smoke' = NoSmoke /\ UNCHANGED sincePass
    BY <1>8 DEF Dismiss
  <2>2. smoke' \in Typed /\ smoke'.test = "none"
    BY <2>1 DEF NoSmoke, Verdicts
  <2> QED
    BY <1>2, <1>3, <1>4, <2>1, <2>2 DEF StackInv
<1>9. ASSUME NEW test \in Tests, Begin(test)
      PROVE  StackInv'
  <2>1. /\ smoke' = [test |-> test, at |-> 1, left |-> Attempts, verdict |-> "none"]
        /\ UNCHANGED sincePass
    BY <1>9 DEF Begin
  <2>2. smoke' \in Typed /\ smoke'.test = test /\ smoke'.at = 1
    BY <1>1, <2>1 DEF Verdicts
  <2>3. 1 \in 1 .. Len(StepsOf(test))
    BY DEF StepsOf, Tests
  <2> QED
    BY <1>2, <1>3, <1>4, <2>1, <2>2, <2>3 DEF StackInv
<1> QED
  BY <1>5, <1>6, <1>7, <1>8, <1>9

LEMMA StackInvStep == StackInv /\ [StackNext]_localVars => StackInv'
<1> SUFFICES ASSUME StackInv, [StackNext]_localVars
             PROVE  StackInv'
  OBVIOUS
<1>1. CASE UNCHANGED localVars
  <2>1. UNCHANGED <<ups, up, sim, serving, ingestor, batch, age, smoke, sincePass>>
    BY <1>1 DEF localVars, stackVars
  <2>2. StackTyped' /\ PassedRows'
    BY <2>1 DEF StackInv, StackTyped, PassedRows
  <2> QED
    BY <2>2 DEF StackInv
<1> QED
  BY <1>1, ContainerStep, DownStep, StoreStep, AgeStep, TestStep DEF StackNext

LEMMA StackInvariance == StackSpec => []StackInv
  BY StackInvInit, StackInvStep, PTL DEF StackSpec

-----------------------------------------------------------------------------
(* The verdicts.                                                           *)

\* The rows a test's query finds, by detector.
LEMMA ObservedBy ==
  ASSUME NEW test
  PROVE  /\ Observed(test) \subseteq {"voltage-envelope", "attack-flag-forwarder"}
         /\ "voltage-envelope" \in Observed(test)
              <=> \E label \in Labels(test) : Recent(label, "naive-bad-value")
         /\ "attack-flag-forwarder" \in Observed(test)
              <=> \E label \in Labels(test), s \in Scenarios :
                    Recent(label, s) /\ IsAttack(label)
<1>1. ASSUME NEW d
      PROVE  d \in Observed(test)
               <=> \E label \in Labels(test), s \in Scenarios :
                     Recent(label, s) /\ d \in DetectorsOf(<<label, s>>)
  <2>1. d \in Observed(test)
          <=> \E b \in Labels(test) \X Scenarios :
                age[b[1]][b[2]] <= Window /\ d \in DetectorsOf(b)
    BY DEF Observed, Stored
  <2>2. ASSUME d \in Observed(test)
        PROVE  \E label \in Labels(test), s \in Scenarios :
                 Recent(label, s) /\ d \in DetectorsOf(<<label, s>>)
    <3>1. PICK b \in Labels(test) \X Scenarios :
            age[b[1]][b[2]] <= Window /\ d \in DetectorsOf(b)
      BY <2>1, <2>2
    <3>2. b[1] \in Labels(test) /\ b[2] \in Scenarios /\ b = <<b[1], b[2]>>
      OBVIOUS
    <3>3. Recent(b[1], b[2]) /\ d \in DetectorsOf(<<b[1], b[2]>>)
      BY <3>1, <3>2 DEF Recent
    <3> QED
      BY <3>2, <3>3
  <2>3. ASSUME NEW label \in Labels(test), NEW s \in Scenarios,
               Recent(label, s), d \in DetectorsOf(<<label, s>>)
        PROVE  d \in Observed(test)
    <3>1. <<label, s>> \in Labels(test) \X Scenarios
      OBVIOUS
    <3>2. age[<<label, s>>[1]][<<label, s>>[2]] <= Window
      BY <2>3 DEF Recent
    <3> QED
      BY <2>1, <2>3, <3>1, <3>2
  <2> QED
    BY <2>2, <2>3
<1>2. ASSUME NEW label, NEW s
      PROVE  /\ DetectorsOf(<<label, s>>) \subseteq {"voltage-envelope", "attack-flag-forwarder"}
             /\ "voltage-envelope" \in DetectorsOf(<<label, s>>) <=> s = "naive-bad-value"
             /\ "attack-flag-forwarder" \in DetectorsOf(<<label, s>>) <=> IsAttack(label)
  BY DEF DetectorsOf, Detectors
<1>3. "naive-bad-value" \in Scenarios
  BY DEF Scenarios
<1>4. Observed(test) \subseteq {"voltage-envelope", "attack-flag-forwarder"}
  BY <1>1, <1>2, Zenon
<1>5. "voltage-envelope" \in Observed(test)
        <=> \E label \in Labels(test) : Recent(label, "naive-bad-value")
  <2>1. ASSUME "voltage-envelope" \in Observed(test)
        PROVE  \E label \in Labels(test) : Recent(label, "naive-bad-value")
    <3>1. PICK label \in Labels(test), s \in Scenarios :
            Recent(label, s) /\ "voltage-envelope" \in DetectorsOf(<<label, s>>)
      BY <1>1, <2>1
    <3>2. s = "naive-bad-value"
      BY <1>2, <3>1
    <3> QED
      BY <3>1, <3>2
  <2>2. ASSUME NEW label \in Labels(test), Recent(label, "naive-bad-value")
        PROVE  "voltage-envelope" \in Observed(test)
    <3>1. "voltage-envelope" \in DetectorsOf(<<label, "naive-bad-value">>)
      BY <1>2
    <3> QED
      BY <1>1, <1>3, <2>2, <3>1
  <2> QED
    BY <2>1, <2>2
<1>6. "attack-flag-forwarder" \in Observed(test)
        <=> \E label \in Labels(test), s \in Scenarios : Recent(label, s) /\ IsAttack(label)
  <2>1. \A label, s : "attack-flag-forwarder" \in DetectorsOf(<<label, s>>) <=> IsAttack(label)
    BY <1>2
  <2>2. "attack-flag-forwarder" \in Observed(test)
          <=> \E label \in Labels(test), s \in Scenarios :
                Recent(label, s) /\ "attack-flag-forwarder" \in DetectorsOf(<<label, s>>)
    BY <1>1
  <2> QED
    BY <2>1, <2>2
<1> QED
  BY <1>4, <1>5, <1>6

LEMMA DetectionSatisfied ==
  ASSUME NEW test
  PROVE  Satisfied("detections", test)
           <=> Observed(test) # {} /\ Observed(test) = Expected(test)
  BY DEF Satisfied

LEMMA NaiveSmoke == Satisfied("detections", "naive-smoke") <=> NaiveStored
<1>1. Labels("naive-smoke") = {"naive-bad-value"}
  BY DEF Labels
<1>2. Expected("naive-smoke") = {"voltage-envelope", "attack-flag-forwarder"}
  BY DEF Expected
<1>3. "naive-bad-value" \in Scenarios /\ IsAttack("naive-bad-value")
  BY DEF Scenarios, IsAttack
<1>4. "voltage-envelope" \in Observed("naive-smoke") <=> NaiveStored
  BY <1>1, <1>3, ObservedBy DEF NaiveStored
<1>5. NaiveStored => "attack-flag-forwarder" \in Observed("naive-smoke")
  BY <1>1, <1>3, ObservedBy DEF NaiveStored
<1>6. Observed("naive-smoke") \subseteq {"voltage-envelope", "attack-flag-forwarder"}
  BY ObservedBy
<1> QED
  BY <1>2, <1>4, <1>5, <1>6, DetectionSatisfied

LEMMA StealthySmoke == Satisfied("detections", "stealthy-smoke") <=> StealthyStored
<1>1. Labels("stealthy-smoke") = {"stealthy-fdia"}
  BY DEF Labels
<1>2. Expected("stealthy-smoke") = {"attack-flag-forwarder"}
  BY DEF Expected
<1>3. "naive-bad-value" \in Scenarios /\ IsAttack("stealthy-fdia")
  BY DEF Scenarios, IsAttack
<1>4. "voltage-envelope" \in Observed("stealthy-smoke")
        <=> Recent("stealthy-fdia", "naive-bad-value")
  BY <1>1, <1>3, ObservedBy
<1>5. "attack-flag-forwarder" \in Observed("stealthy-smoke")
        <=> \E s \in Scenarios : Recent("stealthy-fdia", s)
  BY <1>1, <1>3, ObservedBy
<1>6. Observed("stealthy-smoke") \subseteq {"voltage-envelope", "attack-flag-forwarder"}
  BY ObservedBy
<1> QED
  BY <1>2, <1>4, <1>5, <1>6, DetectionSatisfied DEF StealthyStored

LEMMA AttackSmoke == AttackStored => Satisfied("detections", "attack-smoke")
<1>1. Labels("attack-smoke") = Scenarios
  BY DEF Labels
<1>2. Expected("attack-smoke") = Observed("attack-smoke")
  BY DEF Expected
<1>3. AttackStored => Observed("attack-smoke") # {}
  BY <1>1, ObservedBy DEF AttackStored
<1> QED
  BY <1>2, <1>3, DetectionSatisfied

(* The verdict of a detection test says which batches of the window there
   were, whatever the switches of the last minutes mixed and left behind
   (detection_smoke.py _query and main, local-stack.sh). *)
THEOREM VerdictTells == StackSpec => DetectionVerdictTells
<1> DEFINE Tells == /\ Concludes("naive-smoke", "passed") => NaiveStored
                    /\ Concludes("naive-smoke", "unsatisfied") => ~NaiveStored
                    /\ Concludes("stealthy-smoke", "passed") => StealthyStored
                    /\ Concludes("stealthy-smoke", "unsatisfied") => ~StealthyStored
                    /\ Concludes("attack-smoke", "unsatisfied") => ~AttackStored
<1>1. StackInv /\ [StackNext]_localVars => [Tells]_localVars
  <2> SUFFICES ASSUME StackInv, StackNext
               PROVE  Tells
    OBVIOUS
  <2>1. ASSUME NEW test \in {"naive-smoke", "stealthy-smoke", "attack-smoke"},
               NEW verdict \in {"passed", "unsatisfied"}, Concludes(test, verdict)
        PROVE  /\ verdict = "passed" => Satisfied("detections", test)
               /\ verdict = "unsatisfied" => ~Satisfied("detections", test)
    <3>1. StackTyped /\ test \in Tests
      BY DEF StackInv, Tests
    <3>2. /\ smoke.test = test /\ smoke.test # "none"
          /\ verdict = "passed" /\ Step # "panels" => Satisfied(Step, test)
          /\ verdict = "unsatisfied" => ~Satisfied(Step, test)
      BY <2>1, <3>1, JudgedByAnswer
    <3>3. Step = "detections"
      BY <3>1, <3>2, AtStep
    <3> QED
      BY <3>2, <3>3
  <2> QED
    BY <2>1, NaiveSmoke, StealthySmoke, AttackSmoke
<1> QED
  BY <1>1, StackInvariance, PTL DEF StackSpec, DetectionVerdictTells

(* The dashboard test, run after the pipeline test has passed and no later
   than their windows differ, does not fail for want of rows
   (grafana_dashboard_smoke.py _validate_influx, local_pipeline_smoke.py). *)
THEOREM DashboardFollows == StackSpec => DashboardFollowsPipeline
<1> DEFINE Follows == Concludes("dashboard", "unsatisfied") => sincePass + Window > DashWindow
<1>1. StackInv /\ [StackNext]_localVars => [Follows]_localVars
  <2> SUFFICES ASSUME StackInv, StackNext, Concludes("dashboard", "unsatisfied")
               PROVE  sincePass + Window > DashWindow
    OBVIOUS
  <2>1. StackTyped /\ "dashboard" \in Tests
    BY DEF StackInv, Tests
  <2>2. smoke.test = "dashboard" /\ ~Satisfied(Step, "dashboard")
    BY <2>1, JudgedByAnswer
  <2>3. Step \notin {"detections", "rows"}
    BY <2>1, <2>2, AtStep
  <2>4. Stored(Scenarios, DashWindow) = {}
    BY <2>2, <2>3 DEF Satisfied, RowsWindow
  <2>5. \A l, s \in Scenarios : ~(age[l][s] <= DashWindow)
    <3> TAKE l \in Scenarios, s \in Scenarios
    <3>1. <<l, s>> \in Scenarios \X Scenarios
      OBVIOUS
    <3>2. <<l, s>> \notin Stored(Scenarios, DashWindow)
      BY <2>4
    <3> QED
      BY <3>1, <3>2 DEF Stored
  <2>6. /\ sincePass \in Nat /\ Window \in Nat /\ DashWindow \in Nat
        /\ \A l, s \in Scenarios : age[l][s] \in Nat
    BY <2>1, LocalStackAssumption DEF StackTyped
  <2>7. ~(sincePass + Window <= DashWindow)
    <3> SUFFICES ASSUME sincePass + Window <= DashWindow
                 PROVE  FALSE
      OBVIOUS
    <3>1. PICK l \in Scenarios, s \in Scenarios : age[l][s] <= sincePass + Window
      BY DEF StackInv, PassedRows
    <3>2. age[l][s] <= DashWindow
      BY <2>6, <3>1
    <3> QED
      BY <2>5, <3>2
  <2> QED
    BY <2>6, <2>7
<1> QED
  BY <1>1, StackInvariance, PTL DEF StackSpec, DashboardFollowsPipeline
=============================================================================
