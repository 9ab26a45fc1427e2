# GridGuard in TLA+

GridGuard is a digital twin of a distribution feeder: a simulator serves
measurements over Modbus TCP, an ingestor reads them, stores them in InfluxDB
together with detections, and Grafana alerts on what is stored. This directory
holds TLA+ models of that telemetry path, TLC configurations that check them
and TLAPS proofs about them. Every definition is a translation of the code; paths below
are relative to the repository, with

- `PS` = `power-sim/src/power_sim`
- `MI` = `infra/services/modbus-ingestor/src/gridguard_modbus_ingestor`
- `FT` = `infra/services/fake-telemetry/src/gridguard_fake_telemetry`

`PROJECT.json` maps each definition to the lines it models and lists the runs,
the hazards and the theorems.

## 1. The system

| Part | State | Operations | Talks to |
| --- | --- | --- | --- |
| Simulator, telemetry state (`PS/server.py`) | `_last_step`, `_step`, `_registers` under a lock | constructor with a forced `refresh`; `refresh` on every FC3 read | called by the Modbus block, once for each read request |
| Simulator, feeder and scenarios (`PS/feeder.py`, `PS/attacks.py`) | none (pandapower's net is rewritten for each hour) | `simulate_timestep`, `apply_scenario` | called by `refresh` |
| Register contract (`PS/registers.py`, `MI/contract.py`, the register-map JSON) | a file mounted in both services; loaded once by the simulator, every cycle by the ingestor | encode / validate, group, decode | the only agreement between the two sides |
| Modbus client (`MI/clients.py`) | a transaction counter | one connection for each read | simulator |
| Ingestor loop (`MI/main.py`) | `should_stop`, the status file, the time a cycle started | `run_once`, the sleep, the signal handler | client, InfluxDB, the file |
| Healthcheck (`MI/main.py`) | none of its own: a process that reads the status file | read, compare the ages, exit | Kubernetes and Compose probes |
| Batches and detectors (`MI/pipeline.py`, `MI/detection.py`, `MI/influx.py`) | none | one timestamp, label and flag for each batch; envelope and flag detectors; one write for each batch | InfluxDB |
| Scenario switch (`scripts/dev/eks-lab.sh`) | the environments of two Deployments | `set_scenario`: two `set env`, two `rollout status` | Kubernetes |
| Local stack (`compose.yaml`, `scripts/dev/local-stack.sh`) | containers, volumes | up, down, reset and the scenario variants | Docker |
| Smoke tests (`scripts/smoke`) | the step and the attempts left | retry loops over queries; judge rows by age and label | InfluxDB, Grafana |
| Fake source (`FT/main.py`, `FT/generator.py`) | `shutdown_started`; a thread for each connection | `GET /measurements`, `GET /healthz`, the signal handler | fake ingestor, its healthcheck |
| Fake ingestor (`FT/main.py`, `FT/influx.py`) | as the Modbus ingestor's | fetch, convert, write; loop, healthcheck | fake source, InfluxDB |
| Configuration (`config.py` of both ingestors, `PS/server.py`) | the environment | `from_env`, again in each healthcheck | the loops, the healthchecks |
| Alert rules (`infra/local/grafana/provisioning/alerting`) | pending and firing states kept by Grafana | three rules over the stored series | InfluxDB |
| Segmentation (network policies, security groups, Compose networks) | declarations | none | all |
| Infrastructure and CI (`infra/terraform`, `infra/cloudformation`, `.github`, `scripts/ci`, `scripts/aws`) | declarations and one-shot scripts | none in the running system | AWS, GitHub |

### What is hard in it, and what makes each part correct

- **Nothing in the simulator runs by itself.** Time passes for it only when
  somebody reads. Correct means: never old registers, never ahead of the
  clock, no hour skipped, also when the simulation of an hour raises in the
  middle of `refresh`.
- **A cycle is not atomic.** The map has several address ranges and each is a
  connection of its own, so the simulator may advance, restart, or be advanced by
  another client in between. Correct means: a bound on how far apart the hours
  of one batch are, on how old its points are when they get their timestamp, and
  batches in the order of the replay.
- **The service's health is a file.** It is truncated, then written; it
  survives the process in a pod and not in Compose; the healthcheck is a
  concurrent process; InfluxDB may have stored a batch whose answer was lost. Correct
  means: a stamp is backed by a delivery, an old stamp by a run of
  failures, and no failure leaves the service stuck.
- **Stopping is asked for, not done.** The signal handler sets a flag that is
  looked at between cycles.
- **The label is not in the data.** The scenario is set separately for the
  simulator and for the ingestor, and the two roll out independently. Correct
  means: the envelope detector goes by the data alone, and label and data agree
  again once a switch is over, however it was interrupted.
- **The contract is used twice, by different code.** Correct means: what is
  decoded is what was encoded, at every border of the 16-bit word, and the
  grouping of addresses neither misses one nor reads one that means nothing.
- **A read trusts nobody.** The answer may come in pieces, late, cut short, as an
  exception or with another read's header. Correct means: the words returned
  are this request's, a good answer is taken, and no peer can hold the cycle.
- **Having nothing to store is no failure.** The fake ingestor's cycle may find an
  empty snapshot; it neither writes nor stamps, and logs nothing. Correct
  means: such cycles never keep it healthy. Its stamp, and the Modbus ingestor's, is wall-clock
  time, which may be stepped.
- **The source is stopped by a thread of its own.** `server.shutdown` waits for the loop the
  signal interrupted. Correct means: no signal is lost, before the loop is entered or
  as it is left, and no stalled client holds up the others.
- **Synthetic data must raise no alert,** which rests on a formula, since its
  clamp is wider than the envelope; and its points share one timestamp, so each needs tags of its own.
- **Alerts are windows, waits and policies that must fit together.** Correct means: an outlier
  alerts before it ages out, a silence alerts, a short gap does not, in spite of missed and failed evaluations.
- **A verdict is about rows, not about the stack.** The smoke tests look back ten and fifteen
  minutes, over ups and downs that mix old labels with new data.
- **A setting is text.** `nan` and `inf` are numbers to `float()`. Correct means: with what a service
  accepts its loop goes on, and its healthcheck passes only if it can work.

## 2. The modules

| Module | Models | Uses |
| --- | --- | --- |
| `RegisterContract` | both halves of the contract, as operators | |
| `RegisterPath` | one snapshot's way through both: encode, load, read range by range, decode | `RegisterContract` |
| `Feeder` | the 24 operating points and the scenarios, for the voltages the detectors judge | `RegisterContract` |
| `Detection` | which detectors report a batch | |
| `PowerSim` | the simulator's telemetry state | |
| `ModbusClient` | the Modbus TCP client: request, partial receives, checks of the answer | `RegisterContract` |
| `StatusBeacon` | what the status file promises (abstract) | |
| `ModbusIngestor` | the ingestor's loop, the status file, the healthcheck, crashes and restarts | `StatusBeacon` |
| `TelemetryPipeline` | simulator and ingestor composed | instances of `PowerSim` and `ModbusIngestor` |
| `ScenarioRollout` | a scenario switch with rolling updates, batches and detectors | `Feeder`, `Detection` |
| `FakeSource` | the HTTP source's threads, its shutdown, its clients | |
| `FakeSnapshot` | a snapshot point by point, and its lines | |
| `FakeIngestor` | the fake ingestor's loop, status file and healthcheck | `StatusBeacon` |
| `AlertRules` | the three Grafana rules over the ages of rows | |
| `LocalStack` | the local live stack, its switches and the smoke tests | `Feeder`, `Detection` |
| `Configuration` | the settings of four services and what follows from them | |
| `MCInputs` | what a service is given, for TLC | `RegisterPath`, `Configuration` |
| `MCSources` | the sources of telemetry, for TLC | `PowerSim`, `FakeSource`, `FakeSnapshot` |
| `MCModbusClient` | inputs for TLC | `ModbusClient` |
| `SourcesProofs` | theorems about `PowerSim`, `FakeSource`, `FakeSnapshot` | TLAPS |
| `InputsProofs` | theorems about `RegisterContract`, `RegisterPath`, `Configuration`, `MCInputs` | TLAPS |
| `TelemetryPipelineProofs`, `ModbusIngestorProofs`, `ModbusClientProofs`, `FakeIngestorProofs`, `AlertRulesProofs` | theorems about the module of that name | TLAPS |
| `ScenarioProofs` | theorems about `Feeder`, `ScenarioRollout`, `LocalStack` | TLAPS |

Operators whose comment says "Mutant of" are not used by any specification. Each is a
plausible mistake in the definition after it, kept to show that the
property it is listed with in `PROJECT.json` can fail.

### RegisterContract and RegisterPath

Values, scales and offsets are integers in one common decimal unit. Python's
`round((value - offset) / scale)` on floats is `Nearest`: the nearest integer,
or either neighbour when the quotient is a tie, for there the representation error
decides. `Encoded` is `encode_registers` with its range checks
(`InWordRange`) and `& 0xFFFF` (`Word`); `ValidMap` is
what `validate-map` accepts; `GroupAddress` of `RegisterPath` is one turn of `required_ranges`' loop,
which takes the addresses in ascending order and lets `ExtendRuns` lengthen the last run or
begin another; `ReadAllowed` is the client's check of a request.
`RegisterPath` starts with any map, valid or not, since only the ingestor
validates. Two registers with one address are accepted by both sides and the later
one wins; `StoredAsSimulated` assumes they do not exist.

### PowerSim

One action for each outcome of `refresh`: throttled, one more hour, or an
exception before the assignments (`ReadRaises`; `BadHours` are the hours whose power flow or encoding
fails). `refresh` holds its lock throughout and takes `now` at its start, so
it is one step. `registers` keeps the hour the words stand for. `bootedAt`,
`producedAt` and `reply` are history.

### ModbusIngestor and StatusBeacon

`pc` follows `run_loop` and `run_once` line by line: the map, one step for each
range, the write (accepted, then answered), the status file (truncated,
then written), the sleep. `CycleRaises` is any exception of `run_once`
at any of those points: an answer lost after the batch was stored is `CycleRaises`
at "answer", a disk error between truncation and writing is `CycleRaises` at
"record". `Signal` is `_stop`; it does not cut `time.sleep` short (Python resumes it).
`Crash` is the kill of the process, `Restart` the restart policy, with the
status file kept (a pod's `emptyDir`) or gone (a Compose `tmpfs`).
`ProbeReads` and `ProbeJudges` are the two moments of a healthcheck between
which everything else may happen; on an absent or empty file it exits with 1 and
leaves no trace, which is no step. `faulty` says whether the surroundings may
misbehave now. Times are ages and timers relative to now.

`StatusBeacon` is the abstract file: a stamp only on the strength of a
batch accepted in the same cycle, one stamp for each batch, empty in between. `Beacon`
is the refinement mapping: `backing` is "delivered" or "stamping" while the
cycle under way has had a batch accepted.

### ModbusClient

One action for each thing that can happen to `read_holding_registers`: the request is
refused, the connection fails, the request is sent, `recv` gives some bytes or
none, the header is checked, the PDU is parsed. The peer is external and its
answer is any header with any bytes behind it, fewer or more than the
header announces; every one is chosen when the request is sent, since the client sees
only what it receives. `remaining` is `_read_exact`'s. `_transaction_id` belongs to one client and so
to one cycle (`NewClient` is `build_client`), and a read that raised ends the cycle.
`receives` is history. `ReadRange` and `CycleRaises` of `ModbusIngestor` are a read that ends
in "values" and one that ends otherwise.

### TelemetryPipeline

Conjoins actions of the two instances: `ReadAnswered` is the ingestor's read and
the simulator's `refresh` in one step, `ReadFails` may or may not have advanced
the simulator (the answer was lost, or never computed), `OtherClientReads` is a smoke test or
a second pod. Each read is logged in `sample` with its hour, its step, the time it was simulated and
the process it came from. An action of `ModbusIngestor` that does not touch
reads or batches (healthcheck, signal, crash) is left out here, and its safety is
checked there. An answer computed by the simulator but accepted by
the ingestor a little later is covered: lateness only makes what is stored older within
the cycle's budget.

### ScenarioRollout

`set_scenario` is four steps, each of which may fail under `set -e`. The Deployment
controller, the kubelet and the Service are external and modelled by what the
manifests ask of them: one replica, the default rolling update (a surge of one
pod, no unavailable one: an old pod goes while another is available, or while neither is), readiness by the two healthchecks; terminating pods do not
count for `rollout status` but may be routed to for a while and may finish a
cycle. A batch remembers which scenario's simulator served each range and which
phases were outside the envelope, for any hour of the day (`VoltageReads` over
`Feeder`). Compose stops the old containers before it starts new ones and gives
both services one environment, so this module is about the EKS lab only; `LocalStack` is about Compose.

### FakeIngestor

`pc` follows `run_ingestor`: fetch, convert, write (accepted, then answered), the status file
(truncated, then written), the sleep. A snapshot is the set of the kinds of its points: with fields
(a line), without (skipped), broken (`KeyError`), so that "convert" has the code's three outcomes.
`idled` counts cycles since the last stamp that failed or found nothing. The wall clock is apart from the
monotonic one: `drift` is by how much it was stepped since the stamp (`StepClock`), and
`WallAge` is what `time.time() - last_success` comes to. It implements `StatusBeacon`, as `ModbusIngestor`
does, by the same mapping.

### FakeSource

The main thread from the socket through `signal.signal` and `serve_forever` to its exit, with the
standard library's loop modelled as far as shutting it down depends on it (external). `Signal` may come between any two of its
steps and starts the "source-shutdown" thread; `StopperAsks` and `StopperReturns` are `server.shutdown`.
Each connection is accepted into a daemon thread that ends with the process (`CutOff`). Of a client only its connection
is modelled: what it makes of a body that was cut is a matter of `json.loads` and not of the threads, and the cycle that fails over it is
`CycleRaises` of `FakeIngestor`.

### FakeSnapshot

`generate_snapshot`'s two loops, one turn a step. `Voltage` is the formula in units of 10^-9 pu, exact but for
the sines, which are any value in the range the code confines them to. `ToLines` keeps the series each
point writes to.

### AlertRules

State: the ages of the youngest row of each writer, of the youngest flag and of the youngest outlier, in
intervals of evaluation; each rule's state. `Evaluate` steps all rules, of which some may fail
(`execErrState`), `Skip` is an evaluation that Grafana misses. `Holds` is a rule's evaluator, `Outcome`
what comes of it: `max()` and `count()` of no rows give no row, so that the stale rule's count is never seen below 1 and the rule rests on
`noDataState`. The scheduler and
the state machine of a rule are Grafana's and external.

### LocalStack

`Up`, `UpSim`, `UpAwait`, `UpIngestor` are one `docker compose up` in the order `depends_on` gives it, which may be
interrupted anywhere; `Down` keeps or removes the volumes. A stored batch is known by its label, the
scenario of its data and its age. A smoke test is a list of steps (`StepsOf`); an answered query
satisfies its step or not (a panel without rows may pass all the same, since Grafana may answer it with an empty frame), an error is retried by the steps that go through `_retry` or
`main`'s loop and ends the others, and what no loop catches ends all (`Breaks`).
The detectors of a batch (`DetectorsOf`) go by the scenario of its data instead of by voltages; that these are the detectors of any voltages
such a simulator serves is a theorem (`DetectorsAsReceived`).

### Configuration

The text of a variable is its kind (absent, empty, a word, a number, `nan`, `inf`) and its number. `Accepted` is each
service's `from_env` out of the parsers; `Sleep` and `Patience` are `max` with its arguments in the
code's order, which decides whether a `nan` survives it. "infinite" stands for `inf` and for finite numbers too large for a clock.
That the ports, units, flags and hours that are accepted are those the messages ask for is not stated as a property: it would be
the parsers' conditions a second time.

## 3. The runs

`MCInputs` and `MCSources` check models that share no variable in one run: a behaviour is of one `part`, the
others stay in an initial state.

| Run | Checks | Shows | Bounds |
| --- | --- | --- | --- |
| `inputs` | `Types` of both parts; of `RegisterPath`: `StoredAsSimulated`, `ReadsExactlyTheMap`; of `Configuration`: `HealthyMeansUsable` | decoding undoes encoding to half a step; each mapped address is read once and no other, and only runs over 125 are refused; healthy means usable settings | all one- and two-register maps over 3 addresses, both types, scales 1, -3, 10, offsets 0 and 7, values around every border of the word; invalid maps; all triples over 6 addresses including the last two; runs of 125 and 126; both sides of each border of each setting, and each odd text |
| `configuration_sleep` | `LoopOutlivesItsSleep` (**violated**) | `nan` and `inf` end the loop | as before |
| `sources` | of `PowerSim`: `ServedIsFresh`, `NeverAheadOfClock`, `HoursInTurn`; of `FakeSource`: `StopNotLost`, `ShutdownEnds`, `NoneStarved`; of `FakeSnapshot`: `BaselineQuiet`, `NoPointLost` | no read pattern or failing hour breaks the replay; no signal is lost and each ends the source, a stalled client holds nobody up; no synthetic voltage alerts, no point overwrites another | interval 3, starts around midnight, one bad hour, 17 ticks: five intervals and two restarts; a fetcher, a prober and a stalled client; all buses and phases, both ends and a middle of load, sun and ripple |
| `ingestor` | `HealthyMeansDelivered`, `StaleMeansMisses`, `StopsInTime`, `BeaconSpec`, `Recovers` | the status file and the healthcheck are honest through every failure, and none wedges the service | interval 2, cycles of up to 3 (longer than an interval), floor 12 (six intervals), two ranges, ages to 17 |
| `modbus_client` | `OnlyItsAnswer`, `GoodAnswerTaken`, `WaitsBounded`, `ReadEnds` | a read returns this request's words or fails, and ends | one and two registers, every refused kind of request, all header fields right and wrong, lengths 0 to 8, bodies of up to seven bytes, transaction ids modulo 2 |
| `telemetry_pipeline` | `TypeOK`, `BatchSpread`, `TimestampHonest`, `StoredInOrder` | how far a batch is from a snapshot | three ranges, both intervals 2, cycles of up to 3, two simulator processes, 5 ticks, a bad hour after one step or never |
| `scenario_rollout` | `EnvelopeTellsNaive`, `SettlesHonest` | the envelope goes by the data, at all hours and through all mixes; interrupted and overlapping switches end with label and data in agreement | two scenarios, two ranges, two switches, two ingestor pods |
| `scenario_truth` | `ForwarderTellsTruth` (**violated**) | the flag forwarder does not go by the data, during a switch | as before, three scenarios |
| `fake_ingestor` | `HealthyMeansStored`, `StaleMeansIdle`, `BeaconSpec`, `Recovers` | as `ingestor`, with empty and broken snapshots and a stepped wall clock | interval 2, cycles of up to 3, floor 8, a clock stepped by one either way, ages to 14 |
| `local_stack` | `TestsEnd`, `DetectionVerdictTells`, `DashboardFollowsPipeline` | each test ends, and what its verdict says of the stored batches | three scenarios, two ups, windows of one and two ticks, two attempts |
| `alert_rules` | `OutlierAlerts`, `SilenceAlerts`, `NoFalseStale` | windows, waits and policies fit together | two writers; the deployed 5 min, 5 min, 2 min, 1 min and 2 min at 30 s |
| `alert_stream` | `MissingStreamAlerts` (**violated**) | one writer's silence is hidden by another's rows | as before |

Why the bounds suffice. In `ingestor` the ages are capped above everything the
properties compare them with (`CapsAssumption`, which TLC evaluates), so
the cap hides nothing; a cycle may be longer than an interval, so the sleep's
lower bound is reached, and the floor is larger than `4 * Interval`, as in the
deployment (20 s against 8 s). The proofs below cover the other constants. In `telemetry_pipeline`
three ranges are enough for a batch to be torn twice, and `BatchSpread` and
`TimestampHonest` are tight: with a bound smaller by one TLC refutes each; the deployed map has four
(0-2, 10-12, 20, 30-31). In `scenario_rollout` two switches give a switch that overtakes another
one, and two reads a batch that mixes two simulators. A third scenario takes the run past the time it may have; with it `EnvelopeTells` is proved,
and `SettlesHonest` was also checked at one range (394,008 states), for a third pod that is wanted while two earlier ones are up. In `local_stack` two ups give every ordered pair of
scenarios with whatever the first left behind, and a `down` in between; a third only adds rows under a third
label, which no filter sees, and takes the states past what can be explored. Windows of one and
two ticks let rows age out of one and not of the other; a tick is long against a cycle, so that
a batch is stored at age 0. In `alert_rules` the constants are the deployment's. In `fake_ingestor` the caps
are again above what the properties compare (`FakeCapsAssumption`). In `sources` the voltage is
affine in load, sun and ripple for each bus and phase, so that its extremes are at the ends that
are tried, the proof covers all values, and the simulator's hours
cross midnight and meet a bad hour. A connection that asks for something else (`Strays`) is served as a fetcher's is;
the proofs cover any number of every kind. A process that is gone forgets its variables (`Gone`). The clocks of
`PowerSim` and `TelemetryPipeline` stop at `MaxClock`, and `RegisterPath` ends; the runs of these say
`CHECK_DEADLOCK FALSE`. All others are checked for deadlock.

The violated runs are findings: of the code against a document, or against its own message.

- `docs/02-architecture.md` says that the attack-flag forwarder preserves scenario ground truth.
  The flag is the ingestor's own environment variable, and during a switch on the
  EKS lab batches carry one without the other.
- `MI/config.py` says of an interval or time-out that it must be greater than zero. `value <= 0` is false for
  `nan`, and `inf` is greater: both pass, and `time.sleep`, outside the loop's `try`, raises for either and ends the process.
- `docs/02-architecture.md` says that the stale alert fires when expected input is absent and detects a missing stream. The rule
  groups the rows of all sources before it counts them: with several ingestors up (`up`, `modbus-up` and `live-up` take nothing down) one may stay
  silent for good without an alert. `SilenceAlerts` is about the silence of all of them.

Two more statements that the code does not keep are not runs of their own:

- `docs/10-local-red-blue-lab.md` says that the simulator advances one hour every two seconds.
  It advances one hour for each read that finds the interval over (`ReadAdvances`) and never catches up.
- `local-stack.sh` says of `attack-smoke` that it requires detector output from the active scenario. It passes on any row
  of the last ten minutes; what a verdict does tell is `DetectionVerdictTells`.
## 4. Fairness

`ModbusIngestor!FairSpec`: the loop takes its next step (`run_loop` has no
waiting without a time-out: each socket and the HTTP request have one), time
passes, the restart policy restarts (`restart: unless-stopped` and the pod's
default `Always`), and a healthcheck that was started ends (the probes have time-outs).
No fairness is assumed of failures, signals or of `Weather`: `Recovers` assumes instead that
the surroundings stay well from some time on.

`ModbusClient!FairSpec`: the process runs, and `recv` returns, with bytes, without any
or by the socket's time-out (`settimeout`). That the peer sends anything is not assumed.

`ScenarioRollout!FairSpec`: the script's next command runs; each Deployment is worked on while there is
something to do for it (pods are created, become ready, retire and exit, in any order); and a pod's cycle goes on. A time-out of
`rollout status`, a failing read, a restart and another switch are
possible until `calm`, which only `FairSpec` has, and never forced. `SettlesHonest` excludes
one case, which the code does not repair: a script that fails between its two
`set env` commands.

`FakeIngestor!FairSpec`: as `ModbusIngestor`'s (`urlopen` has a time-out in both requests).

`FakeSource!SourceFairness`: the threads of the process run, and the restart policy restarts it. Strong fairness
for each queued connection's acceptance is the order of the listen queue: the loop may turn without a
connection being taken only while there is none. Nothing is assumed of signals, clients or time-outs, so a stalled client may stay for ever.

`LocalStack!FairStackSpec`: the running test's query is answered, errs or breaks (each `urlopen` has a time-out, which is for one operation of the socket:
an InfluxDB or Grafana that trickled its answer for ever is assumed away).
The stack and the operator may do anything or nothing.

No safety property depends on fairness.

## 5. What is proved

Every safety invariant and every action property of a passing run is a theorem for every value of the constants that
satisfies the named assumptions. These say of most constants that they are numbers, and positive where the code or the
deployment makes them so. Those that say more:

- `CapsAssumption`, `FakeCapsAssumption`: the models' caps on ages lie above what is compared with them.
- `CasesAssumption`: the maps are sequences of registers with integer fields, the telemetry is integers.
- `RolloutAssumption`: the scenarios are the code's, and the baseline one, which the manifests deploy, is among them.
- `LocalStackAssumption`: the dashboard test looks back at least as far as the pipeline test.
- `ProfileRoundsOneWay`: at no hour is a simulated voltage a tie of its rounding. It is a statement about the profile's
  24 rows, without parameters, so that its evaluation by TLC settles it.

The theorems by module, and along which argument:

- **`SourcesProofs`**
  - The simulator: `TypeCorrect`, `Freshness`, `BoundedRate`, `HoursReplayedInTurn`. `NeverAheadOfClock` is not inductive: it says
    nothing of `lastStep`, from which the next hour is counted. The invariant `SimInv` adds
    that, while the process serves, `_last_step` is the time `_registers` was produced at, the
    registers hold hour `startHour + step - 1`, and `step - 1` intervals fit
    between the boot and the last step. An hour is then paid for by the interval that
    ended it (`OneMoreHour`).
  - The fake source: `SourceTypes`, `ShutdownRequestKept`. A request is kept because the
    event is set only by a loop that was left (`SetWhenLeft`) and the thread ends with its process (`OwnThread`).
  - A snapshot: `SyntheticBaselineQuiet`, `ClampNeverBinds`, `SnapshotComplete`. For the first two the product of load and bus
    factor is bounded first (`LoadDrop`), the sum then by arithmetic (`VoltageBounds`). For the last, `Tally` says which
    points are there at each turn of the two loops, and that the five of a phase (`FivePoints`) were none of them before.
- **`InputsProofs`**
  - The codec alone: `WordRoundTrip` (two's complement) and `DecodeWithinHalfStep` (both signs of the scale, either rounding of a tie).
  - The path: `StoredIsSimulated` and `ReadsAreExact`, for any maps and telemetry. Their properties speak of the end, so the invariant
    `PathInv` follows the data: after encoding each address holds the word of a register with that address (`Carried`, which needs
    that rounding always has a result, `NearestExists`); while grouping, the addresses looked at are exactly those of the runs and all
    lie below the others (`Grouping`); while reading, each address is read or in exactly one pending run (`Reading`). `ExtendRunsCovers` is
    the turn of `required_ranges`' loop: the runs stay in ascending order, apart from each other, and cover one more address.
    `RunsCounted` has the runs' number from their being disjoint.
  - The configuration: `HealthyIsUsable`. `Judged` carries the verdict of `from_env` through the process's phases and knows that a
    file was stamped only under a time-out that lets a cycle succeed.
  - `InputTypes`, for the two parts run as one (`PartsOfInputs`: each behaviour of `MCInputs` is one of either part).
- **`TelemetryPipelineProofs`** - `ImplementsComponents`: each step of the composition is a step or a stutter of the simulator and of the ingestor,
  so that what is proved of either alone holds of it in the composition. `PipelineTypes`, `TimestampsHonest`, `BatchSpreadBounded`, `SeriesInOrder` rest on
  `PipeInv`: in a cycle one entry has been read for each range so far (`SampleCounted`); no entry, read or stored, is ahead of the process it came from
  (`NotAhead`); of the hours between two reads, and between each read and now, all but the first have waited for an interval since
  the cycle began (`SampleSound` with `Paid`, whoever caused them); and nothing stored is later than what this cycle has read (`StoredBefore`).
  `BatchSpread` follows by dividing the cycle's budget by the interval (`WholeIntervals`).
- **`ModbusIngestorProofs`** - `TypeCorrect` and four results.
  `HealthyIsHonest` rests on `Backed`: the delivery is never older than the stamp plus a
  cycle's budget, with the age inside the cycle bounded by the time since it started.
  `StopIsBounded` rests on `StopsSoon`, which says for each place in the loop how much of the
  budget is used. `PatientHealthcheck` rests on `StampYoung`, the age
  of a stamp cycle by cycle in whole rounds. `ImplementsBeacon` shows the initial state and every step map to
  the beacon's, under `TypeOK` and `Backed`, the latter to know that a batch accepted in this cycle
  is still recognised as such after time has passed.
- **`ModbusClientProofs`** - `ClientTypes`, `OnlyItsAnswerReturned`, `GoodAnswerNeverRefused`,
  `ReadWaitsBounded`. The properties speak of reads that are over; `Reading` adds what is known in
  the middle of one: the header that was checked is this request's, what was taken
  so far was there to take, and each receive was worth one byte (`receives + remaining`
  never grows). `ParsedWords` and `RefusedPdu` are then the two directions of the PDU's checks, and
  `WordsOfBytes` the big-endian words.
- **`FakeIngestorProofs`** - `FakeTypeCorrect`, `FakeHealthyIsHonest`, `FakeStopIsBounded`, `FakePatientHealthcheck`,
  `FakeImplementsBeacon`. The argument is `ModbusIngestorProofs`', with the probe's age corrected by its drift and with cycles
  that store nothing counted as the failed ones are: that an empty snapshot cannot renew the stamp is a step of `BackedStep`.
- **`AlertRulesProofs`** - `AlertTypes`, `OutliersAlert`, `SilencesAlert`, `StaleAlertsAreTrue`, for all windows and waits
  and any set of writers. The properties speak of the end of a wait; the invariant `IInv` says what a rule has come to after k evaluations in a row that saw
  the outlier or the silence (`VoltageSeen`, `SilenceSeen`), that a pending rule has not waited long enough (`PendingWaits`),
  and that the stale rule is pending for silence only (`PendingSilent`).
- **`ScenarioProofs`**
  - `EnvelopeSeparates`: at every hour and whichever way a value is rounded, a voltage is outside the envelope exactly if it is the naive
    scenario's phase a. Bounds of the profiles give bounds of the simulated voltage (`SimulatedBounds`), of the attacked one (`AttackedBounds`) and,
    half a register step apart, of the received one (`ReceivedNear`).
  - `EnvelopeTells`, for any number of pods, ranges and switches. `EnvelopeTellsNaive` speaks of batches that are complete; `RolloutInv`
    adds that a pod which has read anything remembers what its first read, that of the voltages, found (`PodHonest`), whatever is read after.
  - `DetectorsAsReceived`, `VerdictTells`, `DashboardFollows`, for any windows and number of ups and attempts. A verdict needs an answered query
    (`JudgedByAnswer`: errors, breaks and switches give none of these verdicts); what satisfies it is then compared with the rows (`NaiveSmoke`, `StealthySmoke`,
    `AttackSmoke`). `PassedRows` of `StackInv` is that the rows a passed pipeline test saw have aged no faster than the time since.

Only proved, and in no run's list: the type invariants of the modules that state one beside the runs (those of `ScenarioRollout` and `LocalStack`,
`RolloutTyped` and `StackTyped`, are in `ScenarioProofs`), `ClampIdle`, which the envelope of `BaselineQuiet` implies, the fake ingestor's `StopsInTime`,
whose argument is the other ingestor's, and the four theorems about operators and composition named above.
`PathInv`, `PipeInv`, `RolloutInv` and `StackInv` hold in TLC too, on the bounds of the modules' runs.

Only model-checked: liveness (`Recovers` of both ingestors, `SettlesHonest`, `ReadEnds`, `ShutdownEnds`, `NoneStarved`, `TestsEnd`), which is out of the
prover's reach, and the three statements of section 3 that the code does not keep, which TLC refutes.

## 6. Assumptions and what is left out

- One clock in `ModbusIngestor`, `TelemetryPipeline` and `ScenarioRollout`: the wall clock moves with the
  monotonic one. `FakeIngestor` has the same stamp and comparison and lets the wall clock be stepped; what it shows, an error by the length of the step, holds of
  the Modbus ingestor's healthcheck alike.
- `CycleBudget` bounds a whole cycle. The code's time-outs are for each connection
  and each receive, so in the deployment it is the number of ranges plus one times 5 s
  and more if answers trickle in: at most one time-out for each byte
  (`WaitsBounded`), connecting and sending apart.
- Wake-ups are not delayed: a sleep ends on the tick it is due.
- An exception in the Modbus block's action gives the client an error and nothing else.
- The telemetry holds every name of the simulator's contract.
- A write to InfluxDB is stored whole or not at all.
- `FakeSnapshot` leaves out the rounding of values to 10^-6, which cannot cross the envelope from inside it (0.95 and 1.05 are multiples),
  and floating-point error, which is smaller than the distance that is left; the floors of power and current.
- `FakeSource` does not count threads: at `pids_limit` a connection or the shutdown thread could not be started.
- `LocalStack`: Compose recreates a service whose environment changed; InfluxDB and Grafana go with the simulator in a `down`; another
  stack's rows (`up`, `modbus-up`) are not among those stored.

### Not modelled

- The power flow and the signals no detector judges (`PS/feeder.py`): numerical analysis by an external library, without state or control.
- `PS/detector.py`: classifies one value and is called by tests only. The fixture client: returns constants read from a file.
- The text of line protocol, JSON, CSV and log lines.
- `scripts/ci/validate-kubernetes.py`, `validate-image-evidence.py` and the workflows: each reads files once and prints what they
  miss; no state, no order, no interaction. A model would repeat their conditions and could not fail but with them.
- Dashboards, network policies, Terraform, CloudFormation: declarations without behaviour of their own.
- The probes' periods and thresholds: Compose does not restart for them, and in Kubernetes `Crash` and `Restart` at any time cover what they do.
- A register map edited under one of two running services: the code states nothing about that time.

## 7. What could be added

The live path, the fake path, their configuration, the alert rules, the switches of both environments and the smoke tests are
modelled, and their safety is proved. Worth adding next: the Modbus ingestor's healthcheck with a stepped clock as well;
`TelemetryPipeline` and `AlertRules` composed over one stored series.
