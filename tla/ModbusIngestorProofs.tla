------------------------ MODULE ModbusIngestorProofs ------------------------
(***************************************************************************)
(* What holds of the ingestor's loop, status file and healthcheck for      *)
(* every interval, sleep, floor, number of ranges and budget.              *)
(***************************************************************************)
EXTENDS ModbusIngestor, TLAPS

LEMMA MaxAgeFacts ==
  /\ MaxAge \in Nat
  /\ MaxAge >= 4 * Interval
  BY IngestorAssumption DEF MaxAge

LEMMA OlderFacts ==
  ASSUME NEW age \in Age
  PROVE  Older(age) \in Age /\ Older(age) <= age + 1 /\ Older(age) >= age
  BY IngestorAssumption DEF Age, Older

\* An age that is not older than another plus a constant stays so.
LEMMA OlderKeepsOrder ==
  ASSUME NEW a \in Age, NEW b \in Age, NEW d \in Nat, a <= b + d
  PROVE  Older(a) <= Older(b) + d
  BY IngestorAssumption DEF Age, Older

LEMMA AgeZero == 0 \in Age
  BY IngestorAssumption DEF Age

\* A process that is gone leaves well-typed variables.
LEMMA GoneTypes ==
  ASSUME Gone
  PROVE  /\ stop' \in BOOLEAN /\ reads' \in 0 .. NumRanges /\ elapsed' \in 0 .. CycleBudget
         /\ remaining' \in Nat /\ missed' \in 0 .. MissedCap /\ sinceStop' \in Age
<1>1. stop' \in BOOLEAN
  BY DEF Gone
<1>2. /\ reads' \in 0 .. NumRanges /\ elapsed' \in 0 .. CycleBudget
      /\ remaining' \in Nat /\ missed' \in 0 .. MissedCap
  BY IngestorAssumption DEF Gone
<1>3. sinceStop' \in Age
  BY AgeZero DEF Gone
<1> QED
  BY <1>1, <1>2, <1>3

LEMMA TypeStep == TypeOK /\ [Next]_vars => TypeOK'
<1> USE IngestorAssumption DEF TypeOK
<1> SUFFICES ASSUME TypeOK, [Next]_vars
             PROVE  TypeOK'
  OBVIOUS
<1>1. CASE Start
  BY <1>1, AgeZero DEF Start
<1>2. CASE BeginCycle
  BY <1>2 DEF BeginCycle, historyVars
<1>3. CASE LeaveLoop
  BY <1>3, GoneTypes DEF LeaveLoop
<1>4. CASE LoadMap
  BY <1>4 DEF LoadMap, historyVars
<1>5. CASE ReadRange
  BY <1>5 DEF ReadRange, historyVars
<1>6. CASE WriteAccepted
  BY <1>6, AgeZero DEF WriteAccepted
<1>7. CASE AnswerArrives
  BY <1>7 DEF AnswerArrives, historyVars
<1>8. CASE TruncateStatus
  BY <1>8, AgeZero DEF TruncateStatus, historyVars
<1>9. CASE RecordStatus
  BY <1>9 DEF RecordStatus
<1>10. CASE CycleRaises
  BY <1>10 DEF CycleRaises
<1>11. CASE FallAsleep
  <2>1. SleepTime \in Nat
    BY DEF SleepTime
  <2> QED
    BY <1>11, <2>1 DEF FallAsleep, historyVars
<1>12. CASE WakeUp
  BY <1>12 DEF WakeUp, historyVars
<1>13. CASE Signal
  BY <1>13, AgeZero DEF Signal
<1>14. CASE Crash
  BY <1>14, GoneTypes DEF Crash
<1>15. CASE Restart
  BY <1>15 DEF Restart, historyVars
<1>16. CASE ProbeReads
  BY <1>16 DEF ProbeReads, loopVars, historyVars
<1>17. CASE ProbeJudges
  BY <1>17, AgeZero DEF ProbeJudges, IdleProbe, loopVars, historyVars
<1>18. CASE Weather
  BY <1>18 DEF Weather, loopVars, historyVars
<1>19. CASE Tick
  <2>1. statusAge' \in Age /\ delivered' \in Age /\ sinceStop' \in Age
    BY <1>19, OlderFacts DEF Tick
  <2>2. CASE probe.pc = "judge"
    <3>1. Older(probe.age) \in Age
      BY OlderFacts
    <3>2. probe.wait + 1 \in 0 .. ProbeBudget
      BY <1>19, <2>2 DEF Tick, MayTick
    <3>3. probe' = [probe EXCEPT !.age = Older(probe.age), !.wait = probe.wait + 1]
      BY <1>19, <2>2 DEF Tick
    <3>4. probe' \in [pc : {"idle", "judge"}, age : Age, wait : 0 .. ProbeBudget,
                      missed : 0 .. MissedCap]
      BY <3>1, <3>2, <3>3
    <3> QED
      BY <1>19, <2>1, <3>4 DEF Tick, MayTick
  <2>3. CASE probe.pc # "judge"
    BY <1>19, <2>1, <2>3 DEF Tick, MayTick
  <2> QED
    BY <2>2, <2>3
<1>20. CASE UNCHANGED vars
  BY <1>20 DEF vars, loopVars, historyVars
<1> QED
  BY <1>1, <1>2, <1>3, <1>4, <1>5, <1>6, <1>7, <1>8, <1>9, <1>10, <1>11, <1>12, <1>13,
     <1>14, <1>15, <1>16, <1>17, <1>18, <1>19, <1>20
  DEF Next, LoopStep

LEMMA TypeInit == Init => TypeOK
<1> SUFFICES ASSUME Init
             PROVE  TypeOK
  OBVIOUS
<1>1. AgeCap \in Age /\ MissedCap \in 0 .. MissedCap
  BY IngestorAssumption DEF Age
<1>2. IdleProbe \in [pc : {"idle", "judge"}, age : Age, wait : 0 .. ProbeBudget,
                     missed : 0 .. MissedCap]
  BY IngestorAssumption, AgeZero DEF IdleProbe
<1>3. elapsed \in 0 .. CycleBudget /\ reads \in 0 .. NumRanges /\ remaining \in Nat
  BY IngestorAssumption DEF Init
<1> QED
  BY AgeZero, <1>1, <1>2, <1>3 DEF Init, TypeOK

(* The ingestor's state stays well typed: no timer runs out of its budget. *)
THEOREM TypeCorrect == Spec => []TypeOK
  BY TypeInit, TypeStep, PTL DEF Spec

-----------------------------------------------------------------------------
(* A batch was accepted before the stamp that stands for it was taken, in  *)
(* the same cycle, so at most the budget of a cycle earlier; and whoever   *)
(* has read the stamp has read that age.                                   *)
Backed ==
  /\ pc \in {"answer", "truncate", "record"} => delivered <= elapsed
  /\ delivered <= statusAge + CycleBudget
  /\ probe.pc = "judge" => delivered <= probe.age + CycleBudget

LEMMA BackedInit == Init => Backed
  BY IngestorAssumption DEF Init, Backed, IdleProbe

LEMMA BackedStep == TypeOK /\ Backed /\ [Next]_vars => Backed'
<1> USE IngestorAssumption DEF TypeOK, Backed
<1> SUFFICES ASSUME TypeOK, Backed, [Next]_vars
             PROVE  Backed'
  OBVIOUS
<1> DEFINE Untouched == UNCHANGED <<delivered, statusAge, probe>>
<1>1. CASE /\ Untouched
           /\ elapsed' = elapsed
           /\ pc' \in {"answer", "truncate", "record"} => pc \in {"answer", "truncate"}
  BY <1>1
<1>2. CASE Untouched /\ pc' \notin {"answer", "truncate", "record"}
  BY <1>2
<1>3. CASE WriteAccepted
  BY <1>3 DEF WriteAccepted, Age
<1>4. CASE TruncateStatus
  BY <1>4 DEF TruncateStatus, historyVars, Age
<1>5. CASE ProbeReads
  BY <1>5 DEF ProbeReads, loopVars, historyVars
<1>6. CASE ProbeJudges
  BY <1>6 DEF ProbeJudges, IdleProbe, loopVars, historyVars
<1>7. CASE Tick
  <2>1. delivered' <= statusAge' + CycleBudget
    BY <1>7, OlderKeepsOrder DEF Tick
  <2>2. probe'.pc = "judge" => delivered' <= probe'.age + CycleBudget
    <3>1. CASE probe.pc = "judge"
      <4>1. Older(delivered) <= Older(probe.age) + CycleBudget
        BY <3>1, OlderKeepsOrder
      <4>2. probe'.age = Older(probe.age)
        BY <1>7, <3>1 DEF Tick
      <4> QED
        BY <1>7, <4>1, <4>2 DEF Tick
    <3>2. CASE probe.pc # "judge"
      BY <1>7, <3>2 DEF Tick
    <3> QED
      BY <3>1, <3>2
  <2>3. pc \in {"answer", "truncate", "record"} => delivered' <= elapsed'
    BY <1>7, OlderFacts DEF Tick, InCycle, Age
  <2> QED
    BY <1>7, <2>1, <2>2, <2>3 DEF Tick
<1>8. CASE UNCHANGED vars
  BY <1>8 DEF vars, loopVars, historyVars
<1>9. CASE \/ Start \/ BeginCycle \/ LeaveLoop \/ LoadMap \/ ReadRange \/ RecordStatus
           \/ CycleRaises \/ FallAsleep \/ WakeUp \/ Crash \/ Restart
  BY <1>2, <1>9 DEF Start, BeginCycle, LeaveLoop, Gone, LoadMap, ReadRange, RecordStatus,
     CycleRaises, FallAsleep, WakeUp, Crash, Restart, historyVars
<1>10. CASE AnswerArrives \/ Signal \/ Weather
  BY <1>1, <1>10 DEF AnswerArrives, Signal, Weather, loopVars, historyVars
<1> QED
  BY <1>3, <1>4, <1>5, <1>6, <1>7, <1>8, <1>9, <1>10 DEF Next, LoopStep

(* A healthcheck passes only on a recent delivery (healthcheck, run_once). *)
THEOREM HealthyIsHonest == Spec => []HealthyMeansDelivered
<1>1. TypeOK /\ Backed => HealthyMeansDelivered
  BY MaxAgeFacts, IngestorAssumption
  DEF TypeOK, Backed, HealthyMeansDelivered, JudgedHealthy, Age
<1> QED
  BY <1>1, TypeInit, TypeStep, BackedInit, BackedStep, PTL DEF Spec

-----------------------------------------------------------------------------
(* What is left of the time a stopping process may still take: the rest of *)
(* its cycle and the sleep after it, or the rest of that sleep.            *)
StopsSoon ==
  /\ pc = "sleep" => remaining <= LongestSleep
  /\ stop /\ (InCycle \/ pc = "finish") => sinceStop <= elapsed
  /\ stop /\ pc = "sleep" => sinceStop + remaining <= CycleBudget + LongestSleep
  /\ stop /\ pc = "check" => sinceStop <= CycleBudget + LongestSleep

LEMMA SleepFacts ==
  TypeOK => SleepTime \in Nat /\ SleepTime <= LongestSleep /\ LongestSleep \in Nat
  BY IngestorAssumption DEF TypeOK, SleepTime, LongestSleep

LEMMA StopsSoonInit == Init => StopsSoon
  BY DEF Init, StopsSoon, InCycle

LEMMA StopsSoonStep == TypeOK /\ StopsSoon /\ [Next]_vars => StopsSoon'
<1> USE IngestorAssumption DEF StopsSoon
<1> SUFFICES ASSUME TypeOK, StopsSoon, [Next]_vars
             PROVE  StopsSoon'
  OBVIOUS
<1>0. LongestSleep \in Nat /\ SleepTime \in Nat /\ SleepTime <= LongestSleep
  BY SleepFacts
<1>1. /\ elapsed \in 0 .. CycleBudget
      /\ remaining \in Nat
      /\ sinceStop \in Age
      /\ stop \in BOOLEAN
  BY DEF TypeOK
<1>2. CASE UNCHANGED <<pc, stop, elapsed, remaining, sinceStop>>
  BY <1>2 DEF InCycle
<1>3. CASE Start
  BY <1>3 DEF Start, InCycle
<1>4. CASE BeginCycle
  BY <1>4 DEF BeginCycle, InCycle
<1>5. CASE LeaveLoop
  BY <1>5 DEF LeaveLoop, Gone, InCycle
<1>6. CASE \/ LoadMap \/ ReadRange \/ WriteAccepted \/ AnswerArrives \/ TruncateStatus
           \/ RecordStatus \/ CycleRaises
  <2>1. InCycle /\ pc' \notin {"sleep", "check"} /\ UNCHANGED <<stop, elapsed, sinceStop>>
    BY <1>6 DEF LoadMap, ReadRange, WriteAccepted, AnswerArrives, TruncateStatus,
       RecordStatus, CycleRaises, InCycle, historyVars
  <2> QED
    BY <2>1 DEF InCycle
<1>7. CASE FallAsleep
  BY <1>0, <1>1, <1>7 DEF FallAsleep, InCycle, historyVars, Age
<1>8. CASE WakeUp
  BY <1>0, <1>1, <1>8 DEF WakeUp, InCycle, historyVars, Age
<1>9. CASE Signal
  BY <1>0, <1>1, <1>9 DEF Signal, InCycle
<1>10. CASE Crash \/ Restart
  BY <1>10 DEF Crash, Gone, Restart, InCycle
<1>11. CASE Tick
  <2>1. sinceStop' \in Age /\ sinceStop' <= sinceStop + 1
    BY <1>1, <1>11, OlderFacts DEF Tick, Age
  <2>2. pc # "check" /\ UNCHANGED <<pc, stop>>
    BY <1>11 DEF Tick, MayTick
  <2>3. InCycle \/ pc = "finish" => elapsed' = elapsed + 1
    BY <1>11 DEF Tick
  <2>4. pc = "sleep" => remaining' = remaining - 1
    BY <1>11 DEF Tick
  <2> QED
    BY <1>0, <1>1, <2>1, <2>2, <2>3, <2>4 DEF InCycle, Age
<1>12. CASE ProbeReads \/ ProbeJudges \/ Weather \/ UNCHANGED vars
  BY <1>2, <1>12 DEF ProbeReads, ProbeJudges, Weather, vars, loopVars, historyVars
<1> QED
  BY <1>3, <1>4, <1>5, <1>6, <1>7, <1>8, <1>9, <1>10, <1>11, <1>12 DEF Next, LoopStep

(* A process told to stop has gone before a cycle and a sleep are over     *)
(* (run_loop's while and time.sleep).                                      *)
THEOREM StopIsBounded == Spec => []StopsInTime
<1>1. TypeOK /\ StopsSoon => StopsInTime
  <2> SUFFICES ASSUME TypeOK, StopsSoon, Running, stop
               PROVE  sinceStop <= CycleBudget + LongestSleep
    BY DEF StopsInTime
  <2>1. /\ elapsed \in 0 .. CycleBudget
        /\ remaining \in Nat
        /\ sinceStop \in Nat
    BY IngestorAssumption DEF TypeOK, Age
  <2> QED
    BY <2>1, SleepFacts, IngestorAssumption DEF StopsSoon, Running
<1> QED
  BY <1>1, TypeInit, TypeStep, StopsSoonInit, StopsSoonStep, PTL DEF Spec

-----------------------------------------------------------------------------
\* n rounds of the loop, each as long as it can be; kept folded in the proofs.
Rounds(n) == n * LongestRound

LEMMA RoundsFacts ==
  ASSUME NEW n \in Nat
  PROVE  Rounds(n) \in Nat /\ Rounds(n + 1) = Rounds(n) + LongestRound
<1>1. LongestRound \in Nat
  BY IngestorAssumption DEF LongestRound
<1> QED
  BY <1>1 DEF Rounds

(* How old a stamp can be, cycle by cycle: one round for the cycle that    *)
(* stamped the file and one for each that has failed since, and in the     *)
(* middle of a cycle what has passed of it.  Nothing is said once the      *)
(* process was gone in between, which missed = MissedCap stands for.       *)
StampYoung ==
  /\ pc \in {"boot", "dead", "exited"} => missed = MissedCap
  /\ pc = "record" => statusAge <= elapsed
  /\ missed < MissedCap =>
       /\ InCycle => statusAge <= Rounds(missed + 1) + elapsed
       /\ pc = "finish" => statusAge <= Rounds(missed) + elapsed
       /\ pc = "sleep" => statusAge + remaining <= Rounds(missed + 1)
       /\ pc = "check" => statusAge <= Rounds(missed + 1)
  /\ probe.pc = "judge" /\ probe.missed < MissedCap =>
       probe.age <= Rounds(probe.missed + 1) + CycleBudget + probe.wait

LEMMA StampYoungInit == Init => StampYoung
  BY IngestorAssumption DEF Init, StampYoung, IdleProbe, InCycle

\* A cycle and the sleep after it do not outlast a round.
LEMMA RoundEnds == TypeOK => elapsed + SleepTime <= LongestRound
  BY IngestorAssumption DEF TypeOK, SleepTime, LongestRound

LEMMA StampYoungStep == TypeOK /\ StampYoung /\ [Next]_vars => StampYoung'
<1> USE IngestorAssumption DEF StampYoung
<1> SUFFICES ASSUME TypeOK, StampYoung, [Next]_vars
             PROVE  StampYoung'
  OBVIOUS
<1>0. /\ elapsed \in 0 .. CycleBudget
      /\ remaining \in Nat
      /\ statusAge \in Nat
      /\ missed \in 0 .. MissedCap
      /\ Rounds(missed) \in Nat
      /\ Rounds(missed + 1) = Rounds(missed) + LongestRound
      /\ SleepTime \in Nat /\ elapsed + SleepTime <= LongestRound
      /\ LongestRound \in Nat
  <2>1. elapsed \in 0 .. CycleBudget /\ remaining \in Nat /\ statusAge \in Nat
    BY DEF TypeOK, Age
  <2>2. missed \in 0 .. MissedCap /\ missed \in Nat
    BY DEF TypeOK
  <2>3. Rounds(missed) \in Nat /\ Rounds(missed + 1) = Rounds(missed) + LongestRound
    BY <2>2, RoundsFacts
  <2>4. SleepTime \in Nat /\ LongestRound \in Nat
    BY <2>1 DEF SleepTime, LongestRound
  <2> QED
    BY <2>1, <2>2, <2>3, <2>4, RoundEnds
<1> DEFINE SameProbe == probe' = probe
<1>1. CASE SameProbe /\ UNCHANGED <<pc, elapsed, remaining, statusAge, missed>>
  BY <1>1 DEF InCycle
<1>2. CASE Start
  BY <1>0, <1>2 DEF Start, InCycle
<1>3. CASE BeginCycle
  BY <1>0, <1>3 DEF BeginCycle, InCycle, historyVars
<1>4. CASE LeaveLoop
  BY <1>0, <1>4 DEF LeaveLoop, Gone, InCycle
<1>5. CASE LoadMap \/ ReadRange \/ WriteAccepted \/ AnswerArrives
  <2>1. /\ InCycle
        /\ pc' \in {"read", "write", "answer", "truncate"}
        /\ UNCHANGED <<elapsed, statusAge, missed, probe>>
    BY <1>5 DEF LoadMap, ReadRange, WriteAccepted, AnswerArrives, InCycle, historyVars
  <2> QED
    BY <2>1 DEF InCycle
<1>6. CASE TruncateStatus
  BY <1>0, <1>6 DEF TruncateStatus, InCycle, historyVars
<1>7. CASE RecordStatus
  <2>1. Rounds(0) \in Nat
    BY RoundsFacts
  <2> QED
    BY <1>0, <1>7, <2>1 DEF RecordStatus, InCycle
<1>8. CASE CycleRaises
  <2>1. pc' = "finish" /\ InCycle /\ UNCHANGED <<elapsed, statusAge, probe>>
    BY <1>8 DEF CycleRaises
  <2>2. missed' < MissedCap => missed' = missed + 1 /\ missed < MissedCap
    BY <1>0, <1>8 DEF CycleRaises
  <2> QED
    BY <2>1, <2>2 DEF InCycle
<1>9. CASE FallAsleep
  BY <1>0, <1>9 DEF FallAsleep, InCycle, historyVars
<1>10. CASE WakeUp
  BY <1>0, <1>10 DEF WakeUp, InCycle, historyVars
<1>11. CASE Crash \/ Restart
  BY <1>0, <1>11 DEF Crash, Gone, Restart, InCycle, historyVars
<1>12. CASE ProbeReads
  <2>1. /\ probe'.age = statusAge /\ probe'.wait = 0 /\ probe'.missed = missed
        /\ UNCHANGED <<pc, elapsed, remaining, statusAge, missed>>
    BY <1>12 DEF ProbeReads, loopVars, historyVars
  <2>2. missed < MissedCap => statusAge <= Rounds(missed + 1) + CycleBudget
    BY <1>0 DEF InCycle, TypeOK
  <2> QED
    BY <1>0, <2>1, <2>2 DEF InCycle
<1>13. CASE ProbeJudges
  BY <1>0, <1>13 DEF ProbeJudges, IdleProbe, InCycle, loopVars, historyVars
<1>14. CASE Tick
  <2>1. /\ statusAge' \in Nat /\ statusAge' <= statusAge + 1
        /\ UNCHANGED <<pc, missed>>
        /\ pc # "check"
    BY <1>14, OlderFacts DEF Tick, MayTick, TypeOK, Age
  <2>2. /\ InCycle \/ pc = "finish" => elapsed' = elapsed + 1
        /\ pc = "sleep" => remaining' = remaining - 1
    BY <1>14 DEF Tick
  <2>3. probe'.pc = "judge" /\ probe'.missed < MissedCap =>
          probe'.age <= Rounds(probe'.missed + 1) + CycleBudget + probe'.wait
    <3>1. CASE probe.pc = "judge"
      <4>1. probe' = [probe EXCEPT !.age = Older(probe.age), !.wait = probe.wait + 1]
        BY <1>14, <3>1 DEF Tick
      <4>2. /\ probe'.age = Older(probe.age) /\ probe'.wait = probe.wait + 1
            /\ probe'.missed = probe.missed
        BY <4>1 DEF TypeOK
      <4>3. /\ probe.age \in Age /\ probe.wait \in Nat /\ probe.missed \in Nat
        BY DEF TypeOK
      <4>4. Older(probe.age) \in Nat /\ Older(probe.age) <= probe.age + 1
        BY <4>3, OlderFacts DEF Age
      <4>5. Rounds(probe.missed + 1) \in Nat
        BY <4>3, RoundsFacts
      <4> QED
        BY <3>1, <4>2, <4>3, <4>4, <4>5 DEF Age
    <3>2. CASE probe.pc # "judge"
      BY <1>14, <3>2 DEF Tick
    <3> QED
      BY <3>1, <3>2
  <2> QED
    BY <1>0, <2>1, <2>2, <2>3 DEF InCycle
<1>15. CASE Signal \/ Weather \/ UNCHANGED vars
  BY <1>1, <1>15 DEF Signal, Weather, vars, loopVars, historyVars
<1> QED
  BY <1>2, <1>3, <1>4, <1>5, <1>6, <1>7, <1>8, <1>9, <1>10, <1>11, <1>12, <1>13, <1>14,
     <1>15 DEF Next, LoopStep

(* A stamp that is found too old is accounted for by the cycles that       *)
(* failed (healthcheck's max_age against run_loop's sleep).                *)
THEOREM PatientHealthcheck == Spec => []StaleMeansMisses
<1>1. TypeOK /\ StampYoung => StaleMeansMisses
  <2> SUFFICES ASSUME TypeOK, StampYoung, JudgedStale
               PROVE  (probe.missed + 1) * LongestRound + CycleBudget + ProbeBudget > MaxAge
    BY DEF StaleMeansMisses
  <2>1. /\ probe.age \in Nat /\ probe.wait \in 0 .. ProbeBudget
        /\ probe.missed \in 0 .. MissedCap
    BY IngestorAssumption DEF TypeOK, Age
  <2>2. CASE probe.missed = MissedCap
    BY <2>2, CapsAssumption
  <2>3. CASE probe.missed < MissedCap
    <3>1. probe.age <= Rounds(probe.missed + 1) + CycleBudget + probe.wait
      BY <2>3 DEF StampYoung, JudgedStale
    <3>2. Rounds(probe.missed + 1) \in Nat
      BY <2>1, RoundsFacts, IngestorAssumption
    <3>3. Rounds(probe.missed + 1) + CycleBudget + ProbeBudget > MaxAge
      BY <2>1, <3>1, <3>2, MaxAgeFacts, IngestorAssumption DEF JudgedStale
    <3> QED
      BY <3>3 DEF Rounds
  <2> QED
    BY <2>1, <2>2, <2>3, IngestorAssumption
<1> QED
  BY <1>1, TypeInit, TypeStep, StampYoungInit, StampYoungStep, PTL DEF Spec

-----------------------------------------------------------------------------
(* The status file with its backing implements StatusBeacon.               *)

(* Whatever fails and whenever it restarts, the file is stamped on the     *)
(* strength of a batch of the same cycle only (run_once).                  *)
THEOREM ImplementsBeacon == Spec => BeaconSpec
<1>1. Init => Beacon!Init
  BY DEF Init, Beacon!Init, DeliveredNow
<1>2. TypeOK /\ Backed /\ [Next]_vars => [Beacon!Next]_(Beacon!beaconVars)
  <2> SUFFICES ASSUME TypeOK, Backed, [Next]_vars
               PROVE  Beacon!Next \/ UNCHANGED Beacon!beaconVars
    OBVIOUS
  <2> USE DEF Beacon!beaconVars, DeliveredNow
  <2>1. DeliveredNow <=> pc \in {"answer", "truncate", "record"}
    BY DEF Backed
  <2>2. CASE WriteAccepted
    BY <2>1, <2>2, IngestorAssumption DEF WriteAccepted, TypeOK, Beacon!Next, Beacon!Deliver
  <2>3. CASE TruncateStatus
    BY <2>1, <2>3 DEF TruncateStatus, historyVars, Beacon!Next, Beacon!Begin
  <2>4. CASE RecordStatus
    BY <2>1, <2>4 DEF RecordStatus, Beacon!Next, Beacon!Finish
  <2>5. CASE CycleRaises
    BY <2>5 DEF CycleRaises, Beacon!Next, Beacon!Abandon
  <2>6. CASE Crash
    BY <2>6 DEF Crash, Gone, Beacon!Next, Beacon!Abandon
  <2>7. CASE Restart
    BY <2>7 DEF Restart, Beacon!Next, Beacon!Forget
  <2>8. CASE AnswerArrives
    BY <2>8 DEF AnswerArrives, historyVars
  <2>9. CASE Start \/ BeginCycle \/ LeaveLoop \/ LoadMap \/ ReadRange \/ FallAsleep \/ WakeUp
    BY <2>9 DEF Start, BeginCycle, LeaveLoop, Gone, LoadMap, ReadRange, FallAsleep, WakeUp
  <2>10. CASE Signal \/ ProbeReads \/ ProbeJudges \/ Weather \/ UNCHANGED vars
    BY <2>10 DEF Signal, ProbeReads, ProbeJudges, Weather, vars, loopVars, historyVars
  <2>11. CASE Tick
    <3>1. pc' = pc /\ status' = status
      BY <2>11 DEF Tick
    <3>2. DeliveredNow' <=> pc' \in {"answer", "truncate", "record"}
      BY BackedStep DEF Backed
    <3> QED
      BY <2>1, <3>1, <3>2
  <2> QED
    BY <2>2, <2>3, <2>4, <2>5, <2>6, <2>7, <2>8, <2>9, <2>10, <2>11 DEF Next, LoopStep
<1> QED
  BY <1>1, <1>2, TypeInit, TypeStep, BackedInit, BackedStep, PTL
  DEF Spec, BeaconSpec, Beacon!Spec
=============================================================================
