-------------------------- MODULE ScenarioRollout --------------------------
(***************************************************************************)
(* Switching the scenario of the EKS lab (scripts/dev/eks-lab.sh).  The    *)
(* simulator produces a scenario's data, the ingestor's own environment    *)
(* names it: two Deployments, changed one after the other, each replaced   *)
(* pod by pod while the ingestors keep reading through the Service.  What  *)
(* a batch is labelled, what it holds and what the detectors make of it    *)
(* can come apart.                                                         *)
(*                                                                         *)
(* The Deployment controller, the kubelet and the Service's routing are    *)
(* external: rolling updates of one replica with the default surge of one  *)
(* pod and no unavailable one.  An operator may switch at any time; calm   *)
(* says that no more switches, time-outs, failures or restarts follow.     *)
(***************************************************************************)
EXTENDS Feeder, Detection

CONSTANTS
    ScenariosUsed,  \* the scenarios the operator switches between
    NumRanges,      \* reads per cycle; the first one holds the voltages
    MaxIngestors,   \* bound: ingestor pods at one time, terminating ones included
    MaxSwitches     \* bound: calls of set_scenario

ASSUME RolloutAssumption ==
  /\ "baseline-modbus" \in ScenariosUsed
  /\ ScenariosUsed \subseteq Scenarios
  /\ NumRanges \in Nat \ {0}
  /\ MaxIngestors \in Nat \ {0}
  /\ MaxSwitches \in Nat

VARIABLES
    switches,        \* calls of set_scenario so far
    stage,           \* of set_scenario: "idle", "simSet", "waitSim", "waitIngestor"
    simWanted,       \* its argument: GRIDGUARD_SCENARIO of the simulator's Deployment
    ingestorWanted,  \* GRIDGUARD_SCENARIO and _ATTACK_FLAG of the ingestor's
    sims,            \* sims[s]: the simulator pod of scenario s that is not terminating
    lingering,       \* scenarios of terminating simulators still routed to
    ingestors,       \* the ingestor pods
    calm

rolloutVars == <<switches, stage, simWanted, ingestorWanted>>
vars == <<rolloutVars, sims, lingering, ingestors, calm>>

Slots == 1 .. MaxIngestors

NoPod == [phase |-> "none", label |-> "baseline-modbus", stamped |-> FALSE,
          from |-> << >>, outside |-> {}]

\* A pod that has just been created for the label.
FreshPod(label) == [NoPod EXCEPT !.phase = "running", !.label = label]

Init ==
  /\ switches = 0
  /\ stage = "idle"
  /\ simWanted = "baseline-modbus"
  /\ ingestorWanted = "baseline-modbus"
  /\ sims = [s \in ScenariosUsed |-> IF s = "baseline-modbus" THEN "ready" ELSE "none"]
  /\ lingering = {}
  /\ ingestors = [i \in Slots |-> IF i = 1 THEN FreshPod("baseline-modbus") ELSE NoPod]
  /\ calm = FALSE

-----------------------------------------------------------------------------
(* set_scenario                                                            *)

\* kubectl set env deployment/power-sim
SetSim(s) ==
  /\ ~calm
  /\ switches < MaxSwitches
  /\ stage = "idle"
  /\ switches' = switches + 1
  /\ stage' = "simSet"
  /\ simWanted' = s
  /\ UNCHANGED <<ingestorWanted, sims, lingering, ingestors, calm>>

\* Mutant of SetIngestor: the command names another Deployment.
SetIngestorMissed ==
  /\ stage = "simSet"
  /\ stage' = "waitSim"
  /\ UNCHANGED <<switches, simWanted, ingestorWanted, sims, lingering, ingestors, calm>>

\* kubectl set env deployment/modbus-ingestor
SetIngestor ==
  /\ stage = "simSet"
  /\ stage' = "waitSim"
  /\ ingestorWanted' = simWanted
  /\ UNCHANGED <<switches, simWanted, sims, lingering, ingestors, calm>>

\* kubectl rollout status: the wanted pod is ready, and it is the only one
\* that is not terminating.
SimRolledOut ==
  \A s \in ScenariosUsed : sims[s] = IF s = simWanted THEN "ready" ELSE "none"

Live(i) == ingestors[i].phase \in {"running", "ready"}

IngestorRolledOut ==
  /\ \E i \in Slots : Live(i)
  /\ \A i \in Slots :
       Live(i) => ingestors[i].phase = "ready" /\ ingestors[i].label = ingestorWanted

AwaitRollouts ==
  /\ \/ stage = "waitSim" /\ SimRolledOut /\ stage' = "waitIngestor"
     \/ stage = "waitIngestor" /\ IngestorRolledOut /\ stage' = "idle"
  /\ UNCHANGED <<switches, simWanted, ingestorWanted, sims, lingering, ingestors, calm>>

\* set -e: a kubectl command that fails or times out ends the script.
ScriptAborts ==
  /\ ~calm
  /\ stage # "idle"
  /\ stage' = "idle"
  /\ UNCHANGED <<switches, simWanted, ingestorWanted, sims, lingering, ingestors, calm>>

-----------------------------------------------------------------------------
(* The simulators' Deployment and the Service in front of it               *)

CreateSim ==
  /\ sims[simWanted] = "none"
  /\ Cardinality({s \in ScenariosUsed : sims[s] # "none"}) < 2
  /\ sims' = [sims EXCEPT ![simWanted] = "starting"]
  /\ UNCHANGED <<rolloutVars, lingering, ingestors, calm>>

\* The readiness probe, power_sim healthcheck, gets a TCP connection.
SimReady(s) ==
  /\ sims[s] = "starting"
  /\ sims' = [sims EXCEPT ![s] = "ready"]
  /\ UNCHANGED <<rolloutVars, lingering, ingestors, calm>>

SimRestarts(s) ==
  /\ ~calm
  /\ sims[s] = "ready"
  /\ sims' = [sims EXCEPT ![s] = "starting"]
  /\ UNCHANGED <<rolloutVars, lingering, ingestors, calm>>

\* A pod of another scenario goes if one is left and available, or if two are
\* there and it is not available itself; a wanted one that is starting is
\* waited for.
RetireSim(s) ==
  /\ s # simWanted
  /\ sims[s] # "none"
  /\ sims[simWanted] # "starting"
  /\ \E t \in ScenariosUsed \ {s} :
       sims[t] = "ready" \/ (sims[t] = "starting" /\ sims[s] = "starting")
  /\ sims' = [sims EXCEPT ![s] = "none"]
  /\ lingering' = IF sims[s] = "ready" THEN lingering \union {s} ELSE lingering
  /\ UNCHANGED <<rolloutVars, ingestors, calm>>

\* The routes to a terminating pod are gone, or the pod is.
SimUnrouted(s) ==
  /\ s \in lingering
  /\ lingering' = lingering \ {s}
  /\ UNCHANGED <<rolloutVars, sims, ingestors, calm>>

Routed == {s \in ScenariosUsed : sims[s] = "ready"} \union lingering

-----------------------------------------------------------------------------
(* The ingestors' Deployment                                               *)

CreateIngestor ==
  /\ ~ \E i \in Slots : Live(i) /\ ingestors[i].label = ingestorWanted
  /\ Cardinality({i \in Slots : Live(i)}) < 2
  /\ \E i \in Slots :
       /\ ingestors[i].phase = "none"
       /\ \A j \in 1 .. i - 1 : ingestors[j].phase # "none"
       /\ ingestors' = [ingestors EXCEPT ![i] = FreshPod(ingestorWanted)]
  /\ UNCHANGED <<rolloutVars, sims, lingering, calm>>

\* The readiness probe, the ingestor's healthcheck, finds a stamp that is
\* young enough: the pod has stored a batch.
IngestorReady(i) ==
  /\ ingestors[i].phase = "running"
  /\ ingestors[i].stamped
  /\ ingestors' = [ingestors EXCEPT ![i].phase = "ready"]
  /\ UNCHANGED <<rolloutVars, sims, lingering, calm>>

\* The stamp has become too old, or the container restarts: the file, and
\* with it the stamp, belongs to the pod.
IngestorUnready(i) ==
  /\ ~calm
  /\ Live(i)
  /\ \/ ingestors' = [ingestors EXCEPT ![i].phase = "running", ![i].stamped = FALSE]
     \/ ingestors' = [ingestors EXCEPT ![i].phase = "running", ![i].from = << >>,
                                       ![i].outside = {}]
  /\ UNCHANGED <<rolloutVars, sims, lingering, calm>>

\* As RetireSim.
RetireIngestor(i) ==
  /\ Live(i)
  /\ ingestors[i].label # ingestorWanted
  /\ ~ \E j \in Slots :
         ingestors[j].phase = "running" /\ ingestors[j].label = ingestorWanted
  /\ \E j \in Slots \ {i} :
       \/ ingestors[j].phase = "ready"
       \/ ingestors[j].phase = "running" /\ ingestors[i].phase = "running"
  /\ ingestors' = [ingestors EXCEPT ![i].phase = "stopping"]
  /\ UNCHANGED <<rolloutVars, sims, lingering, calm>>

\* run_loop returns after its last cycle, or the grace period ends first.
IngestorExits(i) ==
  /\ ingestors[i].phase = "stopping"
  /\ ingestors' = [ingestors EXCEPT ![i] = NoPod]
  /\ UNCHANGED <<rolloutVars, sims, lingering, calm>>

-----------------------------------------------------------------------------
(* The ingestors' cycles                                                   *)

BatchReady(i) == Len(ingestors[i].from) = NumRanges

\* The phases whose voltage, decoded, is outside the envelope: what one read
\* of the three voltage registers from a simulator of the scenario may give.
OutsideAt(scenario, hour) ==
  {outside \in SUBSET Phases :
     \A phase \in Phases : \E v \in ReceivedVoltages(scenario, hour, phase) :
       OutsideEnvelope(v) <=> phase \in outside}

VoltageReads == [s \in Scenarios |-> UNION {OutsideAt(s, hour) : hour \in Hour}]

\* A read on a connection of its own, served by any routed simulator.  A pod
\* that was told to stop begins no cycle.
ReadRange(i) ==
  /\ ~BatchReady(i)
  /\ Live(i) \/ (ingestors[i].phase = "stopping" /\ ingestors[i].from # << >>)
  /\ \E s \in Routed :
       \E outside \in IF ingestors[i].from = << >> THEN VoltageReads[s]
                                                   ELSE {ingestors[i].outside} :
         ingestors' = [ingestors EXCEPT ![i].from = Append(ingestors[i].from, s),
                                        ![i].outside = outside]
  /\ UNCHANGED <<rolloutVars, sims, lingering, calm>>

CycleOver(i, stamped) ==
  ingestors' = [ingestors EXCEPT ![i].from = << >>, ![i].outside = {}, ![i].stamped = stamped]

\* InfluxDB accepts the batch and the status file is stamped.
StoreBatch(i) ==
  /\ BatchReady(i)
  /\ CycleOver(i, TRUE)
  /\ UNCHANGED <<rolloutVars, sims, lingering, calm>>

CycleFails(i) ==
  /\ ~calm
  /\ ingestors[i].from # << >>
  /\ CycleOver(i, ingestors[i].stamped)
  /\ UNCHANGED <<rolloutVars, sims, lingering, calm>>

CalmDown ==
  /\ ~calm
  /\ calm' = TRUE
  /\ UNCHANGED <<rolloutVars, sims, lingering, ingestors>>

Next ==
  \/ \E s \in ScenariosUsed :
       SetSim(s) \/ SimReady(s) \/ SimRestarts(s) \/ RetireSim(s) \/ SimUnrouted(s)
  \/ SetIngestor \/ AwaitRollouts \/ ScriptAborts
  \/ CreateSim \/ CreateIngestor
  \/ \E i \in Slots :
       \/ IngestorReady(i) \/ IngestorUnready(i) \/ RetireIngestor(i) \/ IngestorExits(i)
       \/ ReadRange(i) \/ StoreBatch(i) \/ CycleFails(i)

\* Never calm: what is safe then is safe with fewer steps as well.
Spec == Init /\ [][Next]_vars

SimStep ==
  CreateSim \/ \E s \in ScenariosUsed : SimReady(s) \/ RetireSim(s) \/ SimUnrouted(s)

IngestorStep ==
  CreateIngestor \/ \E i \in Slots : IngestorReady(i) \/ RetireIngestor(i) \/ IngestorExits(i)

\* The script runs, each Deployment is worked on as long as there is something
\* to do for it, and every pod runs.
FairSpec ==
  /\ Init /\ [][Next \/ CalmDown]_vars
  /\ WF_vars(SetIngestor \/ AwaitRollouts)
  /\ WF_vars(SimStep)
  /\ WF_vars(IngestorStep)
  /\ \A i \in Slots : WF_vars(ReadRange(i) \/ StoreBatch(i))

-----------------------------------------------------------------------------
\* The flag comes with the label, as set_scenario's second argument.
Reported(i) ==
  Detectors(ingestors[i].outside, IF IsAttack(ingestors[i].label) THEN 1 ELSE 0)

(* The envelope detector reports a batch exactly when its voltages came from
   a simulator of the naive scenario: at every hour of the day, whichever
   way a value was rounded on its way through the registers, whatever the
   batch is labelled, and however a rollout mixed its reads. *)
EnvelopeTellsNaive ==
  \A i \in Slots : BatchReady(i) =>
    ("voltage-envelope" \in Reported(i) <=> ingestors[i].from[1] = "naive-bad-value")

(* A batch of the flag forwarder's is a batch of attack data, and the other
   way round.  docs/02-architecture.md of the forwarder: "Preserves scenario
   ground truth".  The flag is the ingestor's own, so a batch read across a
   rollout has the one and not the other. *)
ForwarderTellsTruth ==
  \A i \in Slots : BatchReady(i) =>
    ("attack-flag-forwarder" \in Reported(i) <=>
       \E k \in DOMAIN ingestors[i].from : IsAttack(ingestors[i].from[k]))

Honest(i) == \A k \in DOMAIN ingestors[i].from : ingestors[i].from[k] = ingestors[i].label

\* The last set_scenario did not fail between its two set env commands.
BothSet == simWanted = ingestorWanted \/ stage = "simSet"

(* Once the operator and the failures have come to rest, batches keep being
   produced and every one of them is labelled with the scenario of all its
   data: however a switch was interrupted, restarted or overtaken by the
   next one, no pod of an earlier scenario stays behind to read or to be
   read.  Not so when the last set_scenario failed between its two set env
   commands.  (eks-lab.sh set_scenario) *)
SettlesHonest ==
  <>(calm /\ BothSet) =>
    /\ <>[](\A i \in Slots : BatchReady(i) => Honest(i))
    /\ []<>(\E i \in Slots : BatchReady(i))
=============================================================================
