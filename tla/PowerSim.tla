------------------------------ MODULE PowerSim ------------------------------
(***************************************************************************)
(* The power simulator's telemetry state (power_sim/server.py).  Nothing   *)
(* in it runs by itself: a Modbus FC3 read calls refresh, which returns    *)
(* the current registers while the last step is younger than the interval, *)
(* and otherwise simulates exactly one more hour.  refresh runs under a    *)
(* lock, so it is one step here.                                           *)
(*                                                                         *)
(* The encoded registers are a function of the hour and the scenario they  *)
(* were simulated with (Feeder), so `registers' keeps that hour.           *)
(***************************************************************************)
EXTENDS Integers

CONSTANTS
    Interval,     \* GRIDGUARD_SIM_INTERVAL_SECONDS, in clock ticks
    StartHours,   \* the values of GRIDGUARD_SIM_START_HOUR considered
    BadHours,     \* hours whose power flow or encoding raises under the map
    MaxClock      \* bound: the clock stops here

ASSUME PowerSimAssumption ==
  /\ Interval \in Nat \ {0}
  /\ StartHours \subseteq 0 .. 23
  /\ BadHours \subseteq 0 .. 23
  /\ MaxClock \in Nat

VARIABLES
    clock,        \* time.monotonic()
    startHour,    \* config.start_hour
    process,      \* "down" or "serving"
    lastStep,     \* _last_step
    step,         \* _step
    registers,    \* _registers: the hour they hold
    \* For the properties only:
    bootedAt,     \* when the constructor ran
    producedAt,   \* when _registers was last assigned
    reply         \* the last answer: [kind, hour, age]

simVars == <<startHour, process, lastStep, step, registers, bootedAt, producedAt, reply>>
vars == <<clock, simVars>>

NoReply == [kind |-> "none", hour |-> 0, age |-> 0]

Init ==
  /\ clock = 0
  /\ startHour \in StartHours
  /\ process = "down"
  /\ lastStep = 0
  /\ step = 0
  /\ registers = 0
  /\ bootedAt = 0
  /\ producedAt = 0
  /\ reply = NoReply

-----------------------------------------------------------------------------
NextHour == (startHour + step) % 24

\* TelemetryState.__init__: a forced refresh.  When it raises the process
\* exits before it serves anything.
Boot ==
  /\ process = "down"
  /\ startHour \notin BadHours
  /\ process' = "serving"
  /\ registers' = startHour
  /\ lastStep' = clock
  /\ step' = 1
  /\ bootedAt' = clock
  /\ producedAt' = clock
  /\ reply' = NoReply
  /\ UNCHANGED <<clock, startHour>>

\* Mutant of Throttled: off by one.
ThrottledShort == clock - lastStep < Interval - 1

\* Mutant of Throttled: the comparison is the wrong way round.
ThrottledReversed == clock - lastStep > Interval

Throttled == clock - lastStep < Interval

\* refresh, when the last step is recent: the registers as they are.
ReadThrottled ==
  /\ process = "serving"
  /\ Throttled
  /\ reply' = [kind |-> "registers", hour |-> registers, age |-> clock - producedAt]
  /\ UNCHANGED <<clock, startHour, process, lastStep, step, registers, bootedAt, producedAt>>

\* refresh, when it is not: one more hour, however long the gap was.
ReadAdvances ==
  /\ process = "serving"
  /\ ~Throttled
  /\ NextHour \notin BadHours
  /\ registers' = NextHour
  /\ producedAt' = clock
  /\ lastStep' = clock
  /\ step' = step + 1
  /\ reply' = [kind |-> "registers", hour |-> NextHour, age |-> 0]
  /\ UNCHANGED <<clock, startHour, process, bootedAt>>

\* Mutant of ReadRaises: _last_step is assigned before the simulation.
ReadRaisesStamped ==
  /\ process = "serving"
  /\ ~Throttled
  /\ NextHour \in BadHours
  /\ reply' = [kind |-> "error", hour |-> NextHour, age |-> 0]
  /\ lastStep' = clock
  /\ UNCHANGED <<clock, startHour, process, step, registers, bootedAt, producedAt>>

\* Mutant of ReadRaises: _step is incremented before the simulation.
ReadRaisesSkipping ==
  /\ process = "serving"
  /\ ~Throttled
  /\ NextHour \in BadHours
  /\ reply' = [kind |-> "error", hour |-> NextHour, age |-> 0]
  /\ step' = step + 1
  /\ UNCHANGED <<clock, startHour, process, lastStep, registers, bootedAt, producedAt>>

\* simulate_timestep or encode_registers raises: the assignments after it
\* are not reached, the reader gets an error and no registers.
ReadRaises ==
  /\ process = "serving"
  /\ ~Throttled
  /\ NextHour \in BadHours
  /\ reply' = [kind |-> "error", hour |-> NextHour, age |-> 0]
  /\ UNCHANGED <<clock, startHour, process, lastStep, step, registers, bootedAt, producedAt>>

\* One FC3 request: update_registers' call of refresh.  Any other function
\* code leaves the state alone.
Read == ReadThrottled \/ ReadAdvances \/ ReadRaises

\* The container is stopped or killed; its state is gone.
Exit ==
  /\ process = "serving"
  /\ process' = "down"
  /\ reply' = NoReply
  /\ UNCHANGED <<clock, startHour, lastStep, step, registers, bootedAt, producedAt>>

Tick ==
  /\ clock < MaxClock
  /\ clock' = clock + 1
  /\ UNCHANGED simVars

Next == Boot \/ Read \/ Exit \/ Tick

Spec == Init /\ [][Next]_vars

-----------------------------------------------------------------------------
(* The state of TelemetryState has its type: the hour it holds or answers
   with is an hour of the day (refresh's modulus). *)
TypeOK ==
  /\ clock \in Nat
  /\ startHour \in StartHours
  /\ process \in {"down", "serving"}
  /\ lastStep \in Nat
  /\ step \in Nat
  /\ registers \in 0 .. 23
  /\ bootedAt \in Nat
  /\ producedAt \in Nat
  /\ reply \in [kind : {"none", "registers", "error"}, hour : 0 .. 23, age : Int]

(* Whatever the readers do, and whichever refreshes raised in between, the
   registers a reader is given were simulated less than one interval before
   (refresh: _last_step vouches for the age of _registers only because a
   refresh that raises moves neither). *)
ServedIsFresh == reply.kind = "registers" => reply.age < Interval

(* The replay never runs ahead of its clock: step hours need step - 1 whole
   intervals since the process booted, so no burst or number of readers can
   speed the profile up. *)
NeverAheadOfClock ==
  process = "serving" => (step - 1) * Interval <= clock - bootedAt

(* While a process lives the registers go from one hour to the next of the
   day: an hour that raised is retried, not skipped, and midnight wraps. *)
HoursInTurn ==
  [][process = "serving" /\ process' = "serving" /\ registers' # registers
       => registers' = (registers + 1) % 24]_vars
=============================================================================
