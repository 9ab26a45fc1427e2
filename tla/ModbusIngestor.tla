--------------------------- MODULE ModbusIngestor ---------------------------
(***************************************************************************)
(* The Modbus ingestor's loop (gridguard_modbus_ingestor/main.py): cycles  *)
(* of run_once, each ending in a sleep, the signal handler that asks it to *)
(* stop, the status file, the healthcheck process that judges the service  *)
(* by that file, and the container that dies and comes back.               *)
(*                                                                         *)
(* Time is counted in ticks and kept as ages and timers relative to now.   *)
(* An age that reaches AgeCap stays there.  What a batch holds is left to  *)
(* TelemetryPipeline.                                                      *)
(***************************************************************************)
EXTENDS Integers

CONSTANTS
    Interval,     \* interval_seconds
    MinSleep,     \* the 0.2 s a cycle sleeps at least
    StatusFloor,  \* the 20 s a status is good for at least
    NumRanges,    \* reads per cycle: what required_ranges returns has
    CycleBudget,  \* bound: the longest run_once takes, timeouts included
    ProbeBudget,  \* bound: the longest a healthcheck takes
    AgeCap,       \* bound: ages are counted up to here
    MissedCap     \* bound: missed cycles are counted up to here

ASSUME IngestorAssumption ==
  /\ Interval \in Nat \ {0}
  /\ MinSleep \in Nat \ {0}
  /\ StatusFloor \in Nat
  /\ NumRanges \in Nat \ {0}
  /\ CycleBudget \in Nat
  /\ ProbeBudget \in Nat
  /\ AgeCap \in Nat
  /\ MissedCap \in Nat

\* healthcheck's max_age_seconds
MaxAge == IF 4 * Interval >= StatusFloor THEN 4 * Interval ELSE StatusFloor

\* The longest time from the start of a cycle to the start of the next.
LongestRound ==
  IF Interval >= CycleBudget + MinSleep THEN Interval ELSE CycleBudget + MinSleep

\* The caps may not hide what the properties compare.
ASSUME CapsAssumption ==
  /\ AgeCap > MaxAge + CycleBudget + ProbeBudget
  /\ (MissedCap + 1) * LongestRound + CycleBudget + ProbeBudget > MaxAge

VARIABLES
    pc,          \* where run_loop is, or "dead" or "exited"
    stop,        \* should_stop
    reads,       \* ranges read in this cycle
    elapsed,     \* time.monotonic() - started, up to the sleep
    remaining,   \* what is left of the sleep
    status,      \* the status file: "absent", "empty" or "stamped"
    probe,       \* the healthcheck process
    faulty,      \* whether the surroundings may fail, kill or stop it now
    \* For the properties only:
    statusAge,   \* age of the stamp last taken for the file
    delivered,   \* age of the last batch InfluxDB accepted
    missed,      \* cycles that raised since the file was last stamped;
                 \* MissedCap when the process was gone since
    sinceStop    \* time since should_stop was set

loopVars == <<pc, stop, reads, elapsed, remaining>>
historyVars == <<delivered, missed, sinceStop>>
vars == <<loopVars, status, statusAge, probe, faulty, historyVars>>

\* run_once has been entered and has not returned or raised.
InCycle == pc \in {"load", "read", "write", "answer", "truncate", "record"}

\* The signal handlers are in place.
Running == InCycle \/ pc \in {"check", "finish", "sleep"}

IdleProbe == [pc |-> "idle", age |-> 0, wait |-> 0, missed |-> 0]

Init ==
  /\ pc = "boot"
  /\ stop = FALSE
  /\ reads = 0
  /\ elapsed = 0
  /\ remaining = 0
  /\ status = "absent"
  /\ probe = IdleProbe
  /\ faulty = TRUE
  /\ statusAge = AgeCap
  /\ delivered = AgeCap
  /\ missed = MissedCap
  /\ sinceStop = 0

-----------------------------------------------------------------------------
(* The loop                                                                *)

\* run_loop up to its while: configuration read, handlers installed.
Start ==
  /\ pc = "boot"
  /\ pc' = "check"
  /\ stop' = FALSE
  /\ sinceStop' = 0
  /\ UNCHANGED <<reads, elapsed, remaining, status, statusAge, probe, faulty, delivered, missed>>

\* Mutant of BeginCycle: while True.
BeginCycleUnasked ==
  /\ pc = "check"
  /\ pc' = "load"
  /\ reads' = 0
  /\ elapsed' = 0
  /\ UNCHANGED <<stop, remaining, status, statusAge, probe, faulty, historyVars>>

\* while not should_stop; started = time.monotonic()
BeginCycle ==
  /\ pc = "check"
  /\ ~stop
  /\ pc' = "load"
  /\ reads' = 0
  /\ elapsed' = 0
  /\ UNCHANGED <<stop, remaining, status, statusAge, probe, faulty, historyVars>>

\* The process is gone, and its variables with it.
Gone ==
  /\ stop' = FALSE
  /\ reads' = 0
  /\ elapsed' = 0
  /\ remaining' = 0
  /\ missed' = MissedCap
  /\ sinceStop' = 0

LeaveLoop ==
  /\ pc = "check"
  /\ stop
  /\ pc' = "exited"
  /\ Gone
  /\ UNCHANGED <<status, statusAge, probe, faulty, delivered>>

\* load_register_map and build_client succeed.
LoadMap ==
  /\ pc = "load"
  /\ pc' = "read"
  /\ UNCHANGED <<stop, reads, elapsed, remaining, status, statusAge, probe, faulty, historyVars>>

\* Mutant of ReadRange: an empty payload is not written but stamped all the same.
ReadRangeUnsent ==
  /\ pc = "read"
  /\ reads < NumRanges
  /\ reads' = reads + 1
  /\ pc' \in IF reads + 1 = NumRanges THEN {"write", "truncate"} ELSE {"read"}
  /\ UNCHANGED <<stop, elapsed, remaining, status, statusAge, probe, faulty, historyVars>>

\* One read_holding_registers; after the last one the points, the
\* detections and the payload are computed from what was read.
ReadRange ==
  /\ pc = "read"
  /\ reads < NumRanges
  /\ reads' = reads + 1
  /\ pc' = IF reads + 1 = NumRanges THEN "write" ELSE "read"
  /\ UNCHANGED <<stop, elapsed, remaining, status, statusAge, probe, faulty, historyVars>>

\* InfluxDB stores the whole batch, detections included.
WriteAccepted ==
  /\ pc = "write"
  /\ pc' = "answer"
  /\ delivered' = 0
  /\ UNCHANGED <<stop, reads, elapsed, remaining, status, statusAge, probe, faulty,
                 missed, sinceStop>>

\* write_line_protocol returns.
AnswerArrives ==
  /\ pc = "answer"
  /\ pc' = "truncate"
  /\ UNCHANGED <<stop, reads, elapsed, remaining, status, statusAge, probe, faulty, historyVars>>

\* write_text(str(time.time())): the stamp is taken, then the file is opened
\* for writing, which empties it.
TruncateStatus ==
  /\ pc = "truncate"
  /\ pc' = "record"
  /\ status' = "empty"
  /\ statusAge' = 0
  /\ UNCHANGED <<stop, reads, elapsed, remaining, probe, faulty, historyVars>>

\* Mutant of RecordStatus: what is written is never flushed.
RecordStatusUnflushed ==
  /\ pc = "record"
  /\ pc' = "finish"
  /\ missed' = 0
  /\ UNCHANGED <<stop, reads, elapsed, remaining, status, statusAge, probe, faulty,
                 delivered, sinceStop>>

\* The stamp reaches the file; run_once returns.
RecordStatus ==
  /\ pc = "record"
  /\ pc' = "finish"
  /\ status' = "stamped"
  /\ missed' = 0
  /\ UNCHANGED <<stop, reads, elapsed, remaining, statusAge, probe, faulty, delivered, sinceStop>>

\* Mutant of CycleRaises: the status is written in a finally clause.
CycleRaisesStamped ==
  /\ faulty
  /\ InCycle
  /\ pc' = "finish"
  /\ status' = "stamped"
  /\ statusAge' = 0
  /\ missed' = IF missed < MissedCap THEN missed + 1 ELSE missed
  /\ UNCHANGED <<stop, reads, elapsed, remaining, probe, faulty, delivered, sinceStop>>

\* Any exception of run_once, which run_loop logs: an unreadable map, a read
\* or a write that fails or times out, an answer lost after InfluxDB stored
\* the batch, a status file that cannot be opened or written.
CycleRaises ==
  /\ faulty
  /\ InCycle
  /\ pc' = "finish"
  /\ missed' = IF missed < MissedCap THEN missed + 1 ELSE missed
  /\ UNCHANGED <<stop, reads, elapsed, remaining, status, statusAge, probe, faulty,
                 delivered, sinceStop>>

\* Mutant of SleepTime: the time the cycle took is not subtracted.
SleepTimeUnadjusted == Interval

\* time.sleep(max(interval_seconds - elapsed, 0.2))
SleepTime ==
  IF Interval - elapsed >= MinSleep THEN Interval - elapsed ELSE MinSleep

FallAsleep ==
  /\ pc = "finish"
  /\ pc' = "sleep"
  /\ remaining' = SleepTime
  /\ elapsed' = 0
  /\ UNCHANGED <<stop, reads, status, statusAge, probe, faulty, historyVars>>

\* A signal does not cut the sleep short.
WakeUp ==
  /\ pc = "sleep"
  /\ remaining = 0
  /\ pc' = "check"
  /\ UNCHANGED <<stop, reads, elapsed, remaining, status, statusAge, probe, faulty, historyVars>>

LoopStep ==
  \/ Start \/ BeginCycle \/ LeaveLoop
  \/ LoadMap \/ ReadRange \/ WriteAccepted \/ AnswerArrives
  \/ TruncateStatus \/ RecordStatus
  \/ FallAsleep \/ WakeUp

-----------------------------------------------------------------------------
(* Signals, the container, the healthcheck, time                           *)

\* SIGTERM or SIGINT: _stop.
Signal ==
  /\ faulty
  /\ Running
  /\ ~stop
  /\ stop' = TRUE
  /\ sinceStop' = 0
  /\ UNCHANGED <<pc, reads, elapsed, remaining, status, statusAge, probe, faulty,
                 delivered, missed>>

\* SIGKILL, out of memory, node loss.
Crash ==
  /\ faulty
  /\ Running \/ pc = "boot"
  /\ pc' = "dead"
  /\ Gone
  /\ UNCHANGED <<status, statusAge, probe, faulty, delivered>>

\* The container is restarted.  A pod's /tmp (an emptyDir) still holds the
\* status file of the process before; a Compose tmpfs does not.
Restart ==
  /\ pc \in {"dead", "exited"}
  /\ pc' = "boot"
  /\ status' \in {status, "absent"}
  /\ UNCHANGED <<stop, reads, elapsed, remaining, statusAge, probe, faulty, historyVars>>

\* healthcheck reads the file: absent or empty ends it with 1.
ProbeReads ==
  /\ probe.pc = "idle"
  /\ status = "stamped"
  /\ probe' = [pc |-> "judge", age |-> statusAge, wait |-> 0, missed |-> missed]
  /\ UNCHANGED <<loopVars, status, statusAge, faulty, historyVars>>

\* time.time() - last_success <= max_age_seconds
ProbeJudges ==
  /\ probe.pc = "judge"
  /\ probe' = IdleProbe
  /\ UNCHANGED <<loopVars, status, statusAge, faulty, historyVars>>

Weather ==
  /\ faulty' = ~faulty
  /\ UNCHANGED <<loopVars, status, statusAge, probe, historyVars>>

Older(age) == IF age < AgeCap THEN age + 1 ELSE age

\* A tick passes: not while the loop has a step to take at once, not beyond
\* the budget of a cycle or of a probe, and not past the end of a sleep.
MayTick ==
  /\ pc # "check"
  /\ InCycle \/ pc = "finish" => elapsed < CycleBudget
  /\ pc = "sleep" => remaining > 0
  /\ probe.pc = "judge" => probe.wait < ProbeBudget

Tick ==
  /\ MayTick
  /\ elapsed' = IF InCycle \/ pc = "finish" THEN elapsed + 1 ELSE elapsed
  /\ remaining' = IF pc = "sleep" THEN remaining - 1 ELSE remaining
  /\ statusAge' = Older(statusAge)
  /\ delivered' = Older(delivered)
  /\ sinceStop' = IF Running /\ stop THEN Older(sinceStop) ELSE sinceStop
  /\ probe' = IF probe.pc = "judge"
              THEN [probe EXCEPT !.age = Older(probe.age), !.wait = probe.wait + 1]
              ELSE probe
  /\ UNCHANGED <<pc, stop, reads, status, faulty, missed>>

Next ==
  \/ LoopStep \/ CycleRaises
  \/ Signal \/ Crash \/ Restart
  \/ ProbeReads \/ ProbeJudges
  \/ Weather \/ Tick

Spec == Init /\ [][Next]_vars

\* The process and its clock run, restart policies restart it, and a
\* healthcheck that was started ends.
FairSpec ==
  /\ Spec
  /\ WF_vars(LoopStep)
  /\ WF_vars(Tick)
  /\ WF_vars(Restart)
  /\ WF_vars(ProbeJudges)

-----------------------------------------------------------------------------
Age == 0 .. AgeCap

(* The loop's state has its type: it sleeps for no negative time and a cycle
   makes no more reads than the map has ranges (run_loop, run_once). *)
TypeOK ==
  /\ pc \in {"boot", "check", "load", "read", "write", "answer", "truncate", "record",
             "finish", "sleep", "exited", "dead"}
  /\ stop \in BOOLEAN
  /\ reads \in 0 .. NumRanges
  /\ elapsed \in 0 .. CycleBudget
  /\ remaining \in Nat
  /\ status \in {"absent", "empty", "stamped"}
  /\ probe \in [pc : {"idle", "judge"}, age : Age, wait : 0 .. ProbeBudget,
                missed : 0 .. MissedCap]
  /\ faulty \in BOOLEAN
  /\ statusAge \in Age
  /\ delivered \in Age
  /\ missed \in 0 .. MissedCap
  /\ sinceStop \in Age

\* What the healthcheck that is judging now will exit with.
JudgedHealthy == probe.pc = "judge" /\ probe.age <= MaxAge
JudgedStale == probe.pc = "judge" /\ probe.age > MaxAge

(* A healthcheck passes only if InfluxDB accepted a batch at most max_age
   plus one cycle before: not on the strength of a cycle that failed, nor of
   a file an earlier container left behind.  (run_once writes the file after
   the write returned; healthcheck compares ages.) *)
HealthyMeansDelivered == JudgedHealthy => delivered <= MaxAge + CycleBudget

(* A healthcheck finds the stamp too old only if enough cycles in a row have
   failed to account for its age: one round for the cycle that stamped the
   file and one for each that failed since, the cycle that is under way and
   the probe's own duration.  With cycles that end within an interval of 2 s
   that is 8 failures or more, with cycles that time out after 5 s only 2.
   (run_loop: max(interval - elapsed, 0.2), against healthcheck:
   max(4 * interval, 20).) *)
StaleMeansMisses ==
  JudgedStale => (probe.missed + 1) * LongestRound + CycleBudget + ProbeBudget > MaxAge

LongestSleep == IF Interval >= MinSleep THEN Interval ELSE MinSleep

(* Once asked to stop the process is gone within the rest of one cycle and
   one sleep, however often it is asked and whatever fails meanwhile
   (run_loop's while and sleep, _stop). *)
StopsInTime ==
  Running /\ stop => sinceStop <= CycleBudget + LongestSleep

(* When the surroundings stay well from some time on, the status stays young
   from some time on and is never left unstamped for good: no failure,
   signal or crash, at whatever point it struck, wedges the service. *)
Recovers ==
  <>[](~faulty) => <>[](statusAge <= MaxAge) /\ []<>(status = "stamped")

\* InfluxDB accepted a batch in the cycle that is under way.
DeliveredNow == pc \in {"answer", "truncate", "record"} /\ delivered <= elapsed

\* The status file implements the beacon.
Beacon ==
  INSTANCE StatusBeacon WITH
    file <- status,
    backing <- IF ~DeliveredNow THEN "none"
               ELSE IF pc = "record" THEN "stamping" ELSE "delivered"

(* Every stamp is backed by a batch of its own cycle (StatusBeacon), through
   lost answers, crashes between the two and kept or lost files. *)
BeaconSpec == Beacon!Spec
=============================================================================
