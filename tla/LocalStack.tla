----------------------------- MODULE LocalStack -----------------------------
(***************************************************************************)
(* The local live stack and its smoke tests (scripts/dev/local-stack.sh,   *)
(* scripts/smoke).  An `up' replaces the simulator and, once that one is   *)
(* healthy, the ingestor that names its scenario; the ingestor in between  *)
(* goes on reading.  A smoke test polls InfluxDB and Grafana a bounded     *)
(* number of times and judges what it finds by age and by label alone.     *)
(*                                                                         *)
(* Compose, InfluxDB and Grafana are external: a query is answered,        *)
(* refused with an error the test retries on, or broken off with one it    *)
(* does not catch.  Time is counted in ticks that are long against a cycle *)
(* of the ingestor: a stored batch has age 0.                              *)
(***************************************************************************)
EXTENDS Feeder, Detection

CONSTANTS
    Window,      \* range(start: -10m) of both polling tests, in ticks
    DashWindow,  \* range(start: -15m) of the dashboard test
    Attempts,    \* bound: attempts of a retried step (45, 30 and 20 in the code)
    MaxUps       \* bound: calls of naive-up, stealthy-up and live-up

ASSUME LocalStackAssumption ==
  /\ Window \in Nat \ {0}
  /\ DashWindow \in Nat /\ DashWindow >= Window
  /\ Attempts \in Nat \ {0}
  /\ MaxUps \in Nat \ {0}

VARIABLES
    ups,         \* calls of an up so far
    up,          \* of the up: the stage, "idle", "sim", "await" or "ingestor",
                 \* and the scenario wanted
    sim,         \* the simulator's scenario, "none" if there is no container
    serving,     \* whether the simulator listens
    ingestor,    \* the ingestor's label, "none" if there is no container
    batch,       \* the scenario whose data it has read and not stored, or "none"
    age,         \* age[label][s]: the age of the youngest batch of that label
                 \* with data of scenario s; Gone if there is none
    smoke,       \* the running test, its step and attempts left, or its verdict
    sincePass    \* the time since a pipeline test passed, Gone if it is long or
                 \* the volumes were removed in between

stackVars == <<ups, up, sim, serving, ingestor, batch>>
localVars == <<stackVars, age, smoke, sincePass>>

Gone == DashWindow + 1

Tests == {"pipeline", "dashboard", "attack-smoke", "naive-smoke", "stealthy-smoke"}

\* The steps of a test, in order.
StepsOf(test) ==
  CASE test = "pipeline" -> <<"influx", "grafana", "rows">>
    [] test = "dashboard" ->
         <<"influx", "count", "fields", "sources", "tags", "grafana", "panels", "alerts">>
    [] OTHER -> <<"detections">>

\* The steps that are called through a retry loop.
Retried == {"influx", "grafana", "rows", "detections"}

NoSmoke == [test |-> "none", at |-> 1, left |-> 0, verdict |-> "none"]

StackInit ==
  /\ ups = 0
  /\ up = [stage |-> "idle", wanted |-> "baseline-modbus"]
  /\ sim = "none"
  /\ serving = FALSE
  /\ ingestor = "none"
  /\ batch = "none"
  /\ age = [label \in Scenarios |-> [s \in Scenarios |-> Gone]]
  /\ smoke = NoSmoke
  /\ sincePass = Gone

-----------------------------------------------------------------------------
(* local-stack.sh and docker compose                                       *)

\* live-up, naive-up, stealthy-up
Up(scenario) ==
  /\ up.stage = "idle"
  /\ ups < MaxUps
  /\ ups' = ups + 1
  /\ up' = [stage |-> "sim", wanted |-> scenario]
  /\ UNCHANGED <<sim, serving, ingestor, batch, age, smoke, sincePass>>

\* The attack scenarios recreate every container, live-up those whose
\* environment has changed.
Recreates(running) == up.wanted # "baseline-modbus" \/ running # up.wanted

UpSim ==
  /\ up.stage = "sim"
  /\ up' = [up EXCEPT !.stage = "await"]
  /\ IF Recreates(sim)
       THEN sim' = up.wanted /\ serving' = FALSE
       ELSE UNCHANGED <<sim, serving>>
  /\ UNCHANGED <<ups, ingestor, batch, age, smoke, sincePass>>

\* The simulator begins to listen; its healthcheck will find it.
Serve ==
  /\ sim # "none"
  /\ ~serving
  /\ serving' = TRUE
  /\ UNCHANGED <<ups, up, sim, ingestor, batch, age, smoke, sincePass>>

\* depends_on: power-sim is healthy.
UpAwait ==
  /\ up.stage = "await"
  /\ serving
  /\ up' = [up EXCEPT !.stage = "ingestor"]
  /\ UNCHANGED <<ups, sim, serving, ingestor, batch, age, smoke, sincePass>>

\* The old ingestor's last cycle is stored before, or is lost.
UpIngestor ==
  /\ up.stage = "ingestor"
  /\ up' = [up EXCEPT !.stage = "idle"]
  /\ IF Recreates(ingestor)
       THEN ingestor' = up.wanted /\ batch' = "none"
       ELSE UNCHANGED <<ingestor, batch>>
  /\ UNCHANGED <<ups, sim, serving, age, smoke, sincePass>>

\* The operator interrupts it, or the simulator does not become healthy.
UpAborts ==
  /\ up.stage # "idle"
  /\ up' = [up EXCEPT !.stage = "idle"]
  /\ UNCHANGED <<ups, sim, serving, ingestor, batch, age, smoke, sincePass>>

NoRows == [label \in Scenarios |-> [s \in Scenarios |-> Gone]]

\* down keeps the volumes, reset removes them.
Down ==
  /\ up.stage = "idle"
  /\ sim # "none" \/ ingestor # "none"
  /\ sim' = "none"
  /\ serving' = FALSE
  /\ ingestor' = "none"
  /\ batch' = "none"
  /\ \/ UNCHANGED <<age, sincePass>>
     \/ age' = NoRows /\ sincePass' = Gone
  /\ UNCHANGED <<ups, up, smoke>>

\* A container that ends is started again, with the environment it had.
ContainerRestarts ==
  /\ sim # "none"
  /\ serving
  /\ serving' = FALSE
  /\ UNCHANGED <<ups, up, sim, ingestor, batch, age, smoke, sincePass>>

-----------------------------------------------------------------------------
(* The ingestor's cycle (modelled in ModbusIngestor and ScenarioRollout)   *)

Read ==
  /\ ingestor # "none"
  /\ batch = "none"
  /\ serving
  /\ batch' = sim
  /\ UNCHANGED <<ups, up, sim, serving, ingestor, age, smoke, sincePass>>

Store ==
  /\ batch # "none"
  /\ batch' = "none"
  /\ \/ age' = [age EXCEPT ![ingestor][batch] = 0]
     \/ UNCHANGED age
  /\ UNCHANGED <<ups, up, sim, serving, ingestor, smoke, sincePass>>

Older(a) == IF a < Gone THEN a + 1 ELSE Gone

Tick ==
  /\ age' = [label \in Scenarios |-> [s \in Scenarios |-> Older(age[label][s])]]
  /\ sincePass' = Older(sincePass)
  /\ UNCHANGED <<stackVars, smoke>>

-----------------------------------------------------------------------------
(* What the tests find                                                     *)

Stored(labels, window) ==
  {b \in labels \X Scenarios : age[b[1]][b[2]] <= window}

\* Mutant of Labels: the query has no filter on the scenario.
AnyLabel(test) == Scenarios

\* GRIDGUARD_SMOKE_SCENARIO
Labels(test) ==
  CASE test = "naive-smoke" -> {"naive-bad-value"}
    [] test = "stealthy-smoke" -> {"stealthy-fdia"}
    [] OTHER -> Scenarios

\* The detection rows of a batch: the detectors that added one.  The naive
\* data, and no other, is outside the envelope (ScenarioRollout).
DetectorsOf(b) ==
  Detectors(IF b[2] = "naive-bad-value" THEN {"a"} ELSE {}, IF IsAttack(b[1]) THEN 1 ELSE 0)

\* _query of detection_smoke.py: the limit is per series, none is dropped.
Observed(test) == UNION {DetectorsOf(b) : b \in Stored(Labels(test), Window)}

\* GRIDGUARD_EXPECT_DETECTORS; whatever there is, if it is not set.
Expected(test) ==
  CASE test = "naive-smoke" -> {"voltage-envelope", "attack-flag-forwarder"}
    [] test = "stealthy-smoke" -> {"attack-flag-forwarder"}
    [] OTHER -> Observed(test)

\* Mutant of RowsWindow: both tests look back as far.
RowsWindowOfPipeline(step) == Window

\* How far a query for telemetry rows looks back.
RowsWindow(step) == IF step = "rows" THEN Window ELSE DashWindow

\* An answer satisfies its step: every batch has rows with each field and
\* tag, and for each panel of the dashboard.
Satisfied(step, test) ==
  IF step = "detections"
    THEN Observed(test) # {} /\ Observed(test) = Expected(test)
    ELSE step \in {"influx", "grafana", "alerts"}
           \/ Stored(Scenarios, RowsWindow(step)) # {}

-----------------------------------------------------------------------------
(* A smoke test                                                            *)

Begin(test) ==
  /\ smoke.test = "none"
  /\ smoke' = [test |-> test, at |-> 1, left |-> Attempts, verdict |-> "none"]
  /\ UNCHANGED <<stackVars, age, sincePass>>

Running == smoke.test # "none" /\ smoke.verdict = "none"

Step == StepsOf(smoke.test)[smoke.at]

Ends(verdict) == smoke' = [smoke EXCEPT !.verdict = verdict]

\* An attempt that succeeds: the next step, or the test has passed.
StepDone ==
  IF smoke.at = Len(StepsOf(smoke.test))
    THEN /\ Ends("passed")
         /\ sincePass' = IF smoke.test = "pipeline" THEN 0 ELSE sincePass
    ELSE /\ smoke' = [smoke EXCEPT !.at = smoke.at + 1, !.left = Attempts]
         /\ UNCHANGED sincePass

\* Mutant of TryAgain: after a caught error the test starts over.
TryAgainFromStart(reason) ==
  IF Step \in Retried /\ smoke.left > 1
    THEN smoke' = [smoke EXCEPT !.at = 1, !.left = IF smoke.at = 1 THEN smoke.left - 1
                                                                  ELSE Attempts]
    ELSE Ends(reason)

\* The loop sleeps and goes round, or ends without a result.
TryAgain(reason) ==
  IF Step \in Retried /\ smoke.left > 1
    THEN smoke' = [smoke EXCEPT !.left = smoke.left - 1]
    ELSE Ends(reason)

\* The query is answered: not before the first up nor after a down, which
\* take InfluxDB and Grafana with the simulator.  Grafana may make a frame of
\* no rows, which is all a panel needs.
Answered ==
  /\ Running
  /\ sim # "none"
  /\ \/ Satisfied(Step, smoke.test) /\ StepDone
     \/ ~Satisfied(Step, smoke.test) /\ Step = "panels" /\ StepDone
     \/ ~Satisfied(Step, smoke.test) /\ TryAgain("unsatisfied") /\ UNCHANGED sincePass
  /\ UNCHANGED <<stackVars, age>>

\* The service is down, slow, or answers with an error: URLError and its like.
Errs ==
  /\ Running
  /\ TryAgain("error")
  /\ UNCHANGED <<stackVars, age, sincePass>>

\* A panel's query fails, dashboard or alert rules are not as they must be, a
\* body is cut off or is no text: no loop catches that.
Breaks ==
  /\ Running
  /\ Ends("broken")
  /\ UNCHANGED <<stackVars, age, sincePass>>

\* The verdict was read; a test may also be interrupted.
Dismiss ==
  /\ smoke.test # "none"
  /\ smoke' = NoSmoke
  /\ UNCHANGED <<stackVars, age, sincePass>>

StackNext ==
  \/ \E scenario \in Scenarios : Up(scenario)
  \/ UpSim \/ Serve \/ UpAwait \/ UpIngestor \/ UpAborts \/ Down \/ ContainerRestarts
  \/ Read \/ Store \/ Tick
  \/ \E test \in Tests : Begin(test)
  \/ Answered \/ Errs \/ Breaks \/ Dismiss

StackSpec == StackInit /\ [][StackNext]_localVars

\* The test runs; every query has a time-out.
FairStackSpec == StackSpec /\ WF_localVars(Answered \/ Errs \/ Breaks)

-----------------------------------------------------------------------------
Concludes(test, verdict) ==
  /\ smoke.test = test /\ smoke.verdict = "none"
  /\ smoke'.test = test /\ smoke'.verdict = verdict

Recent(label, s) == age[label][s] <= Window

\* Batches of the window, by the data in them and by their label.
NaiveStored == Recent("naive-bad-value", "naive-bad-value")
StealthyStored ==
  /\ \E s \in Scenarios : Recent("stealthy-fdia", s)
  /\ ~Recent("stealthy-fdia", "naive-bad-value")
AttackStored ==
  \E label, s \in Scenarios :
    Recent(label, s) /\ (IsAttack(label) \/ s = "naive-bad-value")

(* What the verdict of a detection test that had its last query answered says
   of the batches of the window, whatever the switches of the last minutes
   mixed and left behind, under this label and the others: naive-smoke passes
   if and only if a batch of naive data under the naive label was stored;
   stealthy-smoke if and only if one under the stealthy label was and none of
   those held naive data, as one does that is read from the next naive
   simulator before the stealthy ingestor is replaced; and attack-smoke fails
   only for want of attacks, by data or label.
   (detection_smoke.py _query and main, local-stack.sh) *)
DetectionVerdictTells ==
  [][/\ Concludes("naive-smoke", "passed") => NaiveStored
     /\ Concludes("naive-smoke", "unsatisfied") => ~NaiveStored
     /\ Concludes("stealthy-smoke", "passed") => StealthyStored
     /\ Concludes("stealthy-smoke", "unsatisfied") => ~StealthyStored
     /\ Concludes("attack-smoke", "unsatisfied") => ~AttackStored]_localVars

(* The dashboard test looks back further than the pipeline test: run after it
   as the README tells, and no later than the windows differ, it does not
   fail for want of rows, even if the ingestor has died since, or the whole
   stack was taken down and brought up again on its volumes.
   (grafana_dashboard_smoke.py _validate_influx, local_pipeline_smoke.py) *)
DashboardFollowsPipeline ==
  [][Concludes("dashboard", "unsatisfied") => sincePass + Window > DashWindow]_localVars

(* Every test comes to an end, whatever InfluxDB and Grafana answer and
   however often.  (_retry, the for loop of detection_smoke.py main) *)
TestsEnd == Running ~> ~Running
=============================================================================
