---------------------------- MODULE FakeIngestor ----------------------------
(***************************************************************************)
(* The fake-telemetry ingestor (gridguard_fake_telemetry/main.py,          *)
(* run_ingestor): cycles that fetch a snapshot from the HTTP source and    *)
(* store it, its status file and the healthcheck that judges it by the     *)
(* wall clock.  Unlike the Modbus ingestor a cycle may find nothing to     *)
(* store; such a cycle neither fails nor stamps the file.                  *)
(*                                                                         *)
(* Time is counted in ticks of the monotonic clock, as ages and timers     *)
(* relative to now.  The wall clock, from which the stamp is taken, may be *)
(* stepped: `drift' is by how much since the stamp was taken.              *)
(***************************************************************************)
EXTENDS Integers

CONSTANTS
    Interval,     \* interval_seconds
    MinSleep,     \* the 0.2 s a cycle sleeps at least
    StatusFloor,  \* the 20 s a status is good for at least
    CycleBudget,  \* bound: the longest a cycle works, timeouts included
    ProbeBudget,  \* bound: the longest a healthcheck takes
    MaxDrift,     \* bound: the clock is stepped by no more than this between two stamps
    AgeCap,       \* bound: ages are counted up to here
    IdleCap       \* bound: cycles without a stamp are counted up to here

ASSUME FakeIngestorAssumption ==
  /\ Interval \in Nat \ {0}
  /\ MinSleep \in Nat \ {0}
  /\ StatusFloor \in Nat
  /\ CycleBudget \in Nat
  /\ ProbeBudget \in Nat
  /\ MaxDrift \in Nat
  /\ AgeCap \in Nat
  /\ IdleCap \in Nat

\* healthcheck_ingestor's max_age_seconds
MaxAge == IF 4 * Interval >= StatusFloor THEN 4 * Interval ELSE StatusFloor

\* The longest time from the start of a cycle to the start of the next.
LongestRound ==
  IF Interval >= CycleBudget + MinSleep THEN Interval ELSE CycleBudget + MinSleep

\* The caps may not hide what the properties compare.
ASSUME FakeCapsAssumption ==
  /\ AgeCap > MaxAge + CycleBudget + ProbeBudget + MaxDrift
  /\ (IdleCap + 1) * LongestRound + CycleBudget + ProbeBudget > MaxAge + MaxDrift

\* What points of a snapshot are to snapshot_to_line_protocol: one with
\* fields gives a line, one without is skipped, a broken one raises.
PointKinds == {"full", "bare", "broken"}

VARIABLES
    pc,         \* where run_ingestor is, or "dead" or "exited"
    stop,       \* should_stop
    points,     \* the kinds of points in the snapshot under way
    elapsed,    \* time.monotonic() - started, up to the sleep
    remaining,  \* what is left of the sleep
    status,     \* the status file: "absent", "empty" or "stamped"
    probe,      \* the healthcheck process
    faulty,     \* whether the surroundings may fail, kill or stop it now
    \* For the properties only:
    statusAge,  \* time since the stamp was taken
    drift,      \* by how much the wall clock was stepped since then
    delivered,  \* age of the last batch InfluxDB accepted
    idled,      \* cycles since the last stamp that failed or found nothing;
                \* IdleCap when the process was gone since
    sinceStop   \* time since should_stop was set

loopVars == <<pc, stop, points, elapsed, remaining>>
stampVars == <<status, statusAge, drift>>
historyVars == <<delivered, idled, sinceStop>>
vars == <<loopVars, stampVars, probe, faulty, historyVars>>

\* The try block of a cycle has been entered and not left.
InCycle == pc \in {"fetch", "convert", "write", "answer", "record"}

\* The signal handlers are in place.
Running == InCycle \/ pc \in {"check", "finish", "sleep"}

IdleProbe == [pc |-> "idle", age |-> 0, drift |-> 0, wait |-> 0, idled |-> 0]

Init ==
  /\ pc = "boot"
  /\ stop = FALSE
  /\ points = {}
  /\ elapsed = 0
  /\ remaining = 0
  /\ status = "absent"
  /\ probe = IdleProbe
  /\ faulty = TRUE
  /\ statusAge = AgeCap
  /\ drift = 0
  /\ delivered = AgeCap
  /\ idled = IdleCap
  /\ sinceStop = 0

-----------------------------------------------------------------------------
(* The loop                                                                *)

\* run_ingestor up to its while.
Start ==
  /\ pc = "boot"
  /\ pc' = "check"
  /\ stop' = FALSE
  /\ sinceStop' = 0
  /\ UNCHANGED <<points, elapsed, remaining, stampVars, probe, faulty, delivered, idled>>

\* while not should_stop; started = time.monotonic()
BeginCycle ==
  /\ pc = "check"
  /\ ~stop
  /\ pc' = "fetch"
  /\ elapsed' = 0
  /\ UNCHANGED <<stop, points, remaining, stampVars, probe, faulty, historyVars>>

\* The process is gone, and its variables with it.
Gone ==
  /\ stop' = FALSE
  /\ points' = {}
  /\ elapsed' = 0
  /\ remaining' = 0
  /\ idled' = IdleCap
  /\ sinceStop' = 0

LeaveLoop ==
  /\ pc = "check"
  /\ stop
  /\ pc' = "exited"
  /\ Gone
  /\ UNCHANGED <<stampVars, probe, faulty, delivered>>

\* fetch_snapshot returns: the answer was complete, no larger than
\* MAX_SNAPSHOT_BYTES and parsed.  An upstream in order has something to tell.
FetchAnswered ==
  /\ pc = "fetch"
  /\ pc' = "convert"
  /\ points' \in IF faulty THEN SUBSET PointKinds ELSE {{"full"}}
  /\ UNCHANGED <<stop, elapsed, remaining, stampVars, probe, faulty, historyVars>>

OneMoreIdle == idled' = IF idled < IdleCap THEN idled + 1 ELSE idled

\* Mutant of ConvertToNothing: the status is written whether or not there
\* was a line to write.
ConvertToNothingStamped ==
  /\ pc = "convert"
  /\ points \intersect {"full", "broken"} = {}
  /\ pc' = "finish"
  /\ points' = {}
  /\ status' = "stamped"
  /\ statusAge' = 0
  /\ drift' = 0
  /\ OneMoreIdle
  /\ UNCHANGED <<stop, elapsed, remaining, probe, faulty, delivered, sinceStop>>

\* snapshot_to_line_protocol returns an empty string: nothing is written.
ConvertToNothing ==
  /\ pc = "convert"
  /\ points \intersect {"full", "broken"} = {}
  /\ pc' = "finish"
  /\ points' = {}
  /\ OneMoreIdle
  /\ UNCHANGED <<stop, elapsed, remaining, stampVars, probe, faulty, delivered, sinceStop>>

\* snapshot_to_line_protocol returns the lines of the points with fields.
ConvertToLines ==
  /\ pc = "convert"
  /\ "full" \in points
  /\ "broken" \notin points
  /\ pc' = "write"
  /\ points' = {}
  /\ UNCHANGED <<stop, elapsed, remaining, stampVars, probe, faulty, historyVars>>

\* A point without a measurement or a time stamp: KeyError.
ConvertRaises ==
  /\ pc = "convert"
  /\ "broken" \in points
  /\ pc' = "finish"
  /\ points' = {}
  /\ OneMoreIdle
  /\ UNCHANGED <<stop, elapsed, remaining, stampVars, probe, faulty, delivered, sinceStop>>

\* InfluxDB stores the lines.
WriteAccepted ==
  /\ pc = "write"
  /\ pc' = "answer"
  /\ delivered' = 0
  /\ UNCHANGED <<stop, points, elapsed, remaining, stampVars, probe, faulty, idled, sinceStop>>

\* write_line_protocol returns; write_text(str(time.time())): the stamp is
\* taken and the file is emptied.
TruncateStatus ==
  /\ pc = "answer"
  /\ pc' = "record"
  /\ status' = "empty"
  /\ statusAge' = 0
  /\ drift' = 0
  /\ UNCHANGED <<stop, points, elapsed, remaining, probe, faulty, historyVars>>

\* Mutant of RecordStatus: the text stays in the buffer of an unclosed file.
RecordStatusUnflushed ==
  /\ pc = "record"
  /\ pc' = "finish"
  /\ idled' = 0
  /\ UNCHANGED <<stop, points, elapsed, remaining, stampVars, probe, faulty,
                 delivered, sinceStop>>

\* The stamp reaches the file.
RecordStatus ==
  /\ pc = "record"
  /\ pc' = "finish"
  /\ status' = "stamped"
  /\ idled' = 0
  /\ UNCHANGED <<stop, points, elapsed, remaining, statusAge, drift, probe, faulty,
                 delivered, sinceStop>>

\* Any other exception, logged by the except clause: a source that is gone
\* or too slow, an answer cut short (what is left of it does not parse) or
\* over the limit, a write refused or unanswered, a file that cannot be written.
CycleRaises ==
  /\ faulty
  /\ InCycle
  /\ pc' = "finish"
  /\ points' = {}
  /\ OneMoreIdle
  /\ UNCHANGED <<stop, elapsed, remaining, stampVars, probe, faulty, delivered, sinceStop>>

\* Mutant of SleepTime: the interval is slept in full after the work.
SleepTimeUnadjusted == Interval

\* time.sleep(max(config.interval_seconds - elapsed, 0.2))
SleepTime ==
  IF Interval - elapsed >= MinSleep THEN Interval - elapsed ELSE MinSleep

FallAsleep ==
  /\ pc = "finish"
  /\ pc' = "sleep"
  /\ remaining' = SleepTime
  /\ elapsed' = 0
  /\ UNCHANGED <<stop, points, stampVars, probe, faulty, historyVars>>

WakeUp ==
  /\ pc = "sleep"
  /\ remaining = 0
  /\ pc' = "check"
  /\ UNCHANGED <<stop, points, elapsed, remaining, stampVars, probe, faulty, historyVars>>

LoopStep ==
  \/ Start \/ BeginCycle \/ LeaveLoop
  \/ FetchAnswered \/ ConvertToNothing \/ ConvertToLines \/ ConvertRaises
  \/ WriteAccepted \/ TruncateStatus \/ RecordStatus
  \/ FallAsleep \/ WakeUp

-----------------------------------------------------------------------------
(* Signals, the container, the healthcheck, the clocks                     *)

\* SIGTERM or SIGINT: _stop.
Signal ==
  /\ faulty
  /\ Running
  /\ ~stop
  /\ stop' = TRUE
  /\ sinceStop' = 0
  /\ UNCHANGED <<pc, points, elapsed, remaining, stampVars, probe, faulty, delivered, idled>>

Crash ==
  /\ faulty
  /\ Running \/ pc = "boot"
  /\ pc' = "dead"
  /\ Gone
  /\ UNCHANGED <<stampVars, probe, faulty, delivered>>

\* The container is restarted, with its tmpfs as it was or new.
Restart ==
  /\ pc \in {"dead", "exited"}
  /\ pc' = "boot"
  /\ points' = {}
  /\ status' \in {status, "absent"}
  /\ UNCHANGED <<stop, elapsed, remaining, statusAge, drift, probe, faulty, historyVars>>

\* healthcheck_ingestor reads the file: absent, unreadable or empty ends it
\* with a status that is not 0.
ProbeReads ==
  /\ probe.pc = "idle"
  /\ status = "stamped"
  /\ probe' = [pc |-> "judge", age |-> statusAge, drift |-> drift, wait |-> 0, idled |-> idled]
  /\ UNCHANGED <<loopVars, stampVars, faulty, historyVars>>

\* What time.time() - last_success comes to.
WallAge == probe.age + probe.drift

\* Mutant of Fresh: twice the age.
FreshTwice == WallAge <= 2 * MaxAge

\* time.time() - last_success <= max_age_seconds
Fresh == WallAge <= MaxAge

ProbeJudges ==
  /\ probe.pc = "judge"
  /\ probe' = IdleProbe
  /\ UNCHANGED <<loopVars, stampVars, faulty, historyVars>>

Weather ==
  /\ faulty' = ~faulty
  /\ UNCHANGED <<loopVars, stampVars, probe, historyVars>>

\* The wall clock is stepped, by NTP or by hand, forwards or back.
StepClock ==
  /\ faulty
  /\ \E by \in {-1, 1} :
       /\ drift + by \in -MaxDrift .. MaxDrift
       /\ drift' = drift + by
       /\ IF probe.pc = "judge"
          THEN /\ probe.drift + by \in -MaxDrift .. MaxDrift
               /\ probe' = [probe EXCEPT !.drift = @ + by]
          ELSE UNCHANGED probe
  /\ UNCHANGED <<loopVars, status, statusAge, faulty, historyVars>>

Older(age) == IF age < AgeCap THEN age + 1 ELSE age

MayTick ==
  /\ pc # "check"
  /\ InCycle \/ pc = "finish" => elapsed < CycleBudget
  /\ pc = "sleep" => remaining > 0
  /\ probe.pc = "judge" => probe.wait < ProbeBudget

Tick ==
  /\ MayTick
  /\ elapsed' = IF InCycle \/ pc = "finish" THEN elapsed + 1 ELSE elapsed
  /\ remaining' = IF pc = "sleep" THEN remaining - 1 ELSE remaining
  /\ statusAge' = Older(statusAge)
  /\ delivered' = Older(delivered)
  /\ sinceStop' = IF Running /\ stop THEN Older(sinceStop) ELSE sinceStop
  /\ probe' = IF probe.pc = "judge"
              THEN [probe EXCEPT !.age = Older(probe.age), !.wait = probe.wait + 1]
              ELSE probe
  /\ UNCHANGED <<pc, stop, points, status, drift, faulty, idled>>

Next ==
  \/ LoopStep \/ CycleRaises
  \/ Signal \/ Crash \/ Restart
  \/ ProbeReads \/ ProbeJudges
  \/ Weather \/ StepClock \/ Tick

Spec == Init /\ [][Next]_vars

\* The process and its clock run, the restart policy restarts it, and a
\* healthcheck that was started ends.
FairSpec ==
  /\ Spec
  /\ WF_vars(LoopStep)
  /\ WF_vars(Tick)
  /\ WF_vars(Restart)
  /\ WF_vars(ProbeJudges)

-----------------------------------------------------------------------------
Age == 0 .. AgeCap

(* The loop's state has its type (run_ingestor). *)
TypeOK ==
  /\ pc \in {"boot", "check", "fetch", "convert", "write", "answer", "record",
             "finish", "sleep", "exited", "dead"}
  /\ stop \in BOOLEAN
  /\ points \in SUBSET PointKinds
  /\ elapsed \in 0 .. CycleBudget
  /\ remaining \in Nat
  /\ status \in {"absent", "empty", "stamped"}
  /\ probe \in [pc : {"idle", "judge"}, age : Age, drift : -MaxDrift .. MaxDrift,
                wait : 0 .. ProbeBudget, idled : 0 .. IdleCap]
  /\ faulty \in BOOLEAN
  /\ statusAge \in Age
  /\ drift \in -MaxDrift .. MaxDrift
  /\ delivered \in Age
  /\ idled \in 0 .. IdleCap
  /\ sinceStop \in Age

\* What the healthcheck that is judging now will exit with.
JudgedHealthy == probe.pc = "judge" /\ Fresh
JudgedStale == probe.pc = "judge" /\ ~Fresh

(* A healthcheck passes only if InfluxDB accepted lines at most max_age plus
   one cycle before, and longer ago only by as much as the wall clock was set
   back meanwhile: an upstream that answers without points never keeps the
   ingestor healthy.  (run_ingestor writes the file inside `if line_protocol';
   healthcheck_ingestor compares wall-clock times.) *)
HealthyMeansStored ==
  JudgedHealthy => delivered + probe.drift <= MaxAge + CycleBudget

(* A healthcheck finds the stamp too old only if enough cycles in a row
   failed or found nothing to store to account for its age, a step of the
   wall clock apart.  (run_ingestor's sleep against healthcheck_ingestor's
   max_age_seconds.) *)
StaleMeansIdle ==
  JudgedStale =>
    (probe.idled + 1) * LongestRound + CycleBudget + ProbeBudget + probe.drift > MaxAge

LongestSleep == IF Interval >= MinSleep THEN Interval ELSE MinSleep

(* Once asked to stop the process is gone within the rest of one cycle and
   one sleep, whatever it was doing (run_ingestor's while and sleep, _stop). *)
StopsInTime ==
  Running /\ stop => sinceStop <= CycleBudget + LongestSleep

(* When the surroundings stay well and the upstream has points from some time
   on, the status is stamped again and again and stays young. *)
Recovers ==
  <>[](~faulty) => <>[](statusAge <= MaxAge) /\ []<>(status = "stamped")

\* InfluxDB accepted a batch in the cycle that is under way.
StoredNow == pc \in {"answer", "record"} /\ delivered <= elapsed

\* This ingestor's status file implements the same beacon.
Beacon ==
  INSTANCE StatusBeacon WITH
    file <- status,
    backing <- IF ~StoredNow THEN "none"
               ELSE IF pc = "record" THEN "stamping" ELSE "delivered"

(* Every stamp is backed by lines stored in its own cycle (StatusBeacon). *)
BeaconSpec == Beacon!Spec
=============================================================================
