---------------------- MODULE TelemetryPipelineProofs ----------------------
(***************************************************************************)
(* What holds of the batches the ingestor reads from a simulator that      *)
(* moves, for all intervals, budgets and numbers of ranges.                *)
(***************************************************************************)
EXTENDS TelemetryPipeline, TLAPS

USE PipelineAssumption

\* A step of the pipeline is a step of the simulator or none, and a step of
\* the ingestor or none.
LEMMA SimSteps == [Next]_vars => [Sim!Next]_(Sim!vars)
<1> SUFFICES ASSUME [Next]_vars
             PROVE  Sim!Next \/ UNCHANGED Sim!vars
  OBVIOUS
<1> USE DEF Sim!Next, Sim!vars, Sim!simVars, SimIdle, simulatorVars
<1>1. CASE BootSim
  BY <1>1 DEF BootSim
<1>2. CASE ExitSim
  BY <1>2 DEF ExitSim
<1>3. CASE OtherClientReads
  BY <1>3 DEF OtherClientReads
<1>4. CASE IngestorBegins
  BY <1>4 DEF IngestorBegins
<1>5. CASE ReadAnswered
  BY <1>5 DEF ReadAnswered
<1>6. CASE ReadFails
  BY <1>6 DEF ReadFails
<1>7. CASE BatchStored
  BY <1>7 DEF BatchStored
<1>8. CASE IngestorProceeds
  BY <1>8 DEF IngestorProceeds
<1>9. CASE Tick
  BY <1>9 DEF Tick
<1>10. CASE UNCHANGED vars
  BY <1>10 DEF vars
<1> QED
  BY <1>1, <1>2, <1>3, <1>4, <1>5, <1>6, <1>7, <1>8, <1>9, <1>10 DEF Next

LEMMA IngestorSteps == [Next]_vars => [Ing!Next]_(Ing!vars)
<1> SUFFICES ASSUME [Next]_vars
             PROVE  Ing!Next \/ UNCHANGED Ing!vars
  OBVIOUS
<1> USE DEF Ing!Next, Ing!LoopStep, Ing!vars, Ing!loopVars, Ing!historyVars, IngestorIdle,
            ingestorVars
<1>1. CASE BootSim
  BY <1>1 DEF BootSim
<1>2. CASE ExitSim
  BY <1>2 DEF ExitSim
<1>3. CASE OtherClientReads
  BY <1>3 DEF OtherClientReads
<1>4. CASE IngestorBegins
  BY <1>4 DEF IngestorBegins
<1>5. CASE ReadAnswered
  BY <1>5 DEF ReadAnswered
<1>6. CASE ReadFails
  BY <1>6 DEF ReadFails
<1>7. CASE BatchStored
  BY <1>7 DEF BatchStored
<1>8. CASE IngestorProceeds
  BY <1>8 DEF IngestorProceeds
<1>9. CASE Tick
  BY <1>9 DEF Tick
<1>10. CASE UNCHANGED vars
  BY <1>10 DEF vars
<1> QED
  BY <1>1, <1>2, <1>3, <1>4, <1>5, <1>6, <1>7, <1>8, <1>9, <1>10 DEF Next

(* The composition implements both of its components: whatever is proved of
   the simulator alone and of the ingestor alone holds when the one reads
   from the other and other clients do too. *)
THEOREM ImplementsComponents == Spec => Sim!Spec /\ Ing!Spec
<1>1. Init => Sim!Init /\ Ing!Init
  BY DEF Init
<1> QED
  BY <1>1, SimSteps, IngestorSteps, PTL DEF Spec, Sim!Spec, Ing!Spec

-----------------------------------------------------------------------------
(* What is known of the simulator, of the entries read in this cycle and   *)
(* of those stored before.                                                 *)

\* While the process serves, _last_step is the time the registers are from.
SimSound ==
  /\ lastStep <= clock
  /\ producedAt <= clock
  /\ process = "serving" => lastStep = producedAt /\ generation \in 1 .. MaxGenerations

\* The cycle has read an entry for each range so far.
Collecting == pc \in {"load", "read", "write"}

SampleCounted ==
  /\ Len(sample) <= NumRanges
  /\ Collecting => Len(sample) = reads
  /\ pc = "load" => reads = 0
  /\ pc = "read" => reads < NumRanges
  /\ pc = "write" => reads = NumRanges /\ sampleTime <= clock

\* No entry is ahead of the process that gave it.
NotAhead(entry) ==
  /\ entry.at <= clock
  /\ entry.generation <= generation
  /\ entry.generation = generation => entry.step <= step

\* Of the hours between two reads of a cycle each but the first has waited
\* for an interval since the cycle began.
Paid(from, to, at, start) ==
  to > from => (to - from - 1) * SimInterval <= at - start

Follows(entry, later, start) ==
  entry.generation = later.generation =>
    entry.step <= later.step /\ Paid(entry.step, later.step, later.at, start)

CycleStart == clock - elapsed

SampleSound ==
  Collecting =>
    \A i \in DOMAIN sample :
      /\ clock - sample[i].at < SimInterval + elapsed
      /\ sample[i].generation = generation =>
           Paid(sample[i].step, step, lastStep, CycleStart)
      /\ \A j \in i .. Len(sample) : Follows(sample[i], sample[j], CycleStart)

StoredBefore ==
  Collecting =>
    \A i \in DOMAIN stored, j \in DOMAIN sample :
      stored[i].generation = sample[j].generation => stored[i].step <= sample[j].step

PipeInv ==
  /\ TypeOK
  /\ SimSound
  /\ SampleCounted
  /\ \A i \in DOMAIN sample : NotAhead(sample[i])
  /\ \A i \in DOMAIN stored : NotAhead(stored[i])
  /\ SampleSound
  /\ StoredBefore

-----------------------------------------------------------------------------
(* Types.                                                                  *)

LEMMA HourOfDay ==
  ASSUME NEW n \in Nat
  PROVE  n % 24 \in 0 .. 23
  OBVIOUS

LEMMA AgeFacts ==
  /\ 0 \in Ing!Age
  /\ \A age \in Ing!Age : Ing!Older(age) \in Ing!Age
  BY DEF Ing!Age, Ing!Older

LEMMA SimTypeStep == Sim!TypeOK /\ [Sim!Next]_(Sim!vars) => Sim!TypeOK'
<1> USE DEF Sim!TypeOK
<1> SUFFICES ASSUME Sim!TypeOK, [Sim!Next]_(Sim!vars)
             PROVE  Sim!TypeOK'
  OBVIOUS
<1>1. Sim!NextHour \in 0 .. 23
  <2>1. startHour + step \in Nat
    OBVIOUS
  <2> QED
    BY <2>1, HourOfDay DEF Sim!NextHour
<1>2. CASE Sim!Boot
  BY <1>2 DEF Sim!Boot, Sim!NoReply
<1>3. CASE Sim!ReadThrottled
  BY <1>3 DEF Sim!ReadThrottled
<1>4. CASE Sim!ReadAdvances
  BY <1>1, <1>4 DEF Sim!ReadAdvances
<1>5. CASE Sim!ReadRaises
  BY <1>1, <1>5 DEF Sim!ReadRaises
<1>6. CASE Sim!Exit
  BY <1>6 DEF Sim!Exit, Sim!NoReply
<1>7. CASE Sim!Tick
  BY <1>7 DEF Sim!Tick, Sim!simVars
<1>8. CASE UNCHANGED Sim!vars
  BY <1>8 DEF Sim!vars, Sim!simVars
<1> QED
  BY <1>2, <1>3, <1>4, <1>5, <1>6, <1>7, <1>8 DEF Sim!Next, Sim!Read

\* The steps of the loop that the pipeline takes.
LEMMA LoopTypeStep ==
  ASSUME Ing!TypeOK,
         \/ Ing!Start \/ Ing!BeginCycle \/ Ing!LoadMap \/ Ing!ReadRange \/ Ing!CycleRaises
         \/ Ing!WriteAccepted \/ Ing!AnswerArrives \/ Ing!TruncateStatus \/ Ing!RecordStatus
         \/ Ing!FallAsleep \/ Ing!WakeUp
  PROVE  Ing!TypeOK'
<1> USE DEF Ing!TypeOK, Ing!historyVars
<1>1. CASE Ing!Start
  BY <1>1, AgeFacts DEF Ing!Start
<1>2. CASE Ing!BeginCycle
  BY <1>2 DEF Ing!BeginCycle
<1>3. CASE Ing!LoadMap
  BY <1>3 DEF Ing!LoadMap
<1>4. CASE Ing!ReadRange
  BY <1>4 DEF Ing!ReadRange
<1>5. CASE Ing!CycleRaises
  BY <1>5 DEF Ing!CycleRaises
<1>6. CASE Ing!WriteAccepted
  BY <1>6, AgeFacts DEF Ing!WriteAccepted
<1>7. CASE Ing!AnswerArrives
  BY <1>7 DEF Ing!AnswerArrives
<1>8. CASE Ing!TruncateStatus
  BY <1>8, AgeFacts DEF Ing!TruncateStatus
<1>9. CASE Ing!RecordStatus
  BY <1>9 DEF Ing!RecordStatus
<1>10. CASE Ing!FallAsleep
  <2>1. Ing!SleepTime \in Nat
    BY DEF Ing!SleepTime
  <2> QED
    BY <1>10, <2>1 DEF Ing!FallAsleep
<1>11. CASE Ing!WakeUp
  BY <1>11 DEF Ing!WakeUp
<1> QED
  BY <1>1, <1>2, <1>3, <1>4, <1>5, <1>6, <1>7, <1>8, <1>9, <1>10, <1>11

\* No healthcheck runs in the pipeline: one that did could not see a tick.
LEMMA TickTypeStep ==
  ASSUME Ing!TypeOK, Ing!Tick
  PROVE  Ing!TypeOK'
<1>1. statusAge' \in Ing!Age /\ delivered' \in Ing!Age /\ sinceStop' \in Ing!Age
  BY AgeFacts DEF Ing!TypeOK, Ing!Tick
<1>2. probe.pc # "judge"
  BY DEF Ing!TypeOK, Ing!Tick, Ing!MayTick
<1> QED
  BY <1>1, <1>2 DEF Ing!TypeOK, Ing!Tick, Ing!MayTick

LEMMA IngestorTypeStep == Ing!TypeOK /\ [Next]_vars => Ing!TypeOK'
<1> SUFFICES ASSUME Ing!TypeOK, [Next]_vars
             PROVE  Ing!TypeOK'
  OBVIOUS
<1>1. CASE UNCHANGED ingestorVars
  BY <1>1 DEF ingestorVars, Ing!TypeOK
<1>2. CASE Tick
  BY <1>2, TickTypeStep DEF Tick
<1>3. CASE IngestorBegins \/ ReadAnswered \/ ReadFails \/ BatchStored \/ IngestorProceeds
  BY <1>3, LoopTypeStep
  DEF IngestorBegins, ReadAnswered, ReadFails, BatchStored, IngestorProceeds
<1> QED
  BY <1>1, <1>2, <1>3
  DEF Next, vars, BootSim, ExitSim, OtherClientReads, IngestorIdle

-----------------------------------------------------------------------------
(* What a read does to the simulator.                                      *)

LEMMA ReadMoves ==
  ASSUME Sim!TypeOK, SimSound, Sim!Read
  PROVE  /\ clock' = clock /\ process' = process /\ process = "serving"
         /\ \/ step' = step /\ lastStep' = lastStep /\ producedAt' = producedAt
            \/ /\ step' = step + 1 /\ lastStep' = clock /\ producedAt' = clock
               /\ clock - lastStep >= SimInterval
         /\ reply'.kind = "registers" =>
              /\ lastStep' = producedAt'
              /\ clock - producedAt' < SimInterval
<1> USE DEF Sim!TypeOK, SimSound
<1>1. CASE Sim!ReadThrottled
  BY <1>1 DEF Sim!ReadThrottled, Sim!Throttled
<1>2. CASE Sim!ReadAdvances
  BY <1>2 DEF Sim!ReadAdvances, Sim!Throttled
<1>3. CASE Sim!ReadRaises
  BY <1>3 DEF Sim!ReadRaises
<1> QED
  BY <1>1, <1>2, <1>3 DEF Sim!Read

\* One more hour, an interval after the last: the hours stay paid for.
LEMMA OneMorePaid ==
  ASSUME NEW from \in Nat, NEW to \in Nat, NEW last \in Int, NEW start \in Int, NEW now \in Int,
         from <= to, to > from => (to - from - 1) * SimInterval <= last - start,
         now - last >= SimInterval, now >= start
  PROVE  (to + 1 - from - 1) * SimInterval <= now - start
<1>1. CASE to = from
  <2>1. (to + 1 - from - 1) * SimInterval = 0
    BY <1>1
  <2> QED
    BY <2>1
<1>2. CASE to > from
  <2>1. (to + 1 - from - 1) * SimInterval = (to - from - 1) * SimInterval + SimInterval
    OBVIOUS
  <2>2. (to - from - 1) * SimInterval \in Int
    OBVIOUS
  <2> QED
    BY <1>2, <2>1, <2>2
<1> QED
  BY <1>1, <1>2

\* Hours that are paid for stay so as the simulator moves within a cycle.
LEMMA PaidKept ==
  ASSUME Sim!TypeOK, Ing!TypeOK, SimSound, Sim!Read,
         NEW from \in Nat, from <= step, Paid(from, step, lastStep, CycleStart)
  PROVE  from <= step' /\ Paid(from, step', lastStep', CycleStart)
<1> USE ReadMoves DEF Paid, CycleStart, Sim!TypeOK, Ing!TypeOK
<1>1. CASE step' = step /\ lastStep' = lastStep
  BY <1>1
<1>2. CASE step' = step + 1 /\ lastStep' = clock /\ clock - lastStep >= SimInterval
  <2>1. (step + 1 - from - 1) * SimInterval <= clock - (clock - elapsed)
    BY <1>2, OneMorePaid DEF SimSound
  <2> QED
    BY <1>2, <2>1
<1> QED
  BY <1>1, <1>2

-----------------------------------------------------------------------------
(* Every step keeps the invariant.                                         *)

\* The entry that ReadAnswered appends.
LEMMA NewEntry ==
  ASSUME TypeOK, SimSound, ReadAnswered
  PROVE  [hour |-> reply'.hour, step |-> step', at |-> producedAt', generation |-> generation]
           \in Entry
<1>1. Sim!TypeOK'
  BY SimTypeStep DEF TypeOK, ReadAnswered, Sim!Next
<1>2. generation \in 1 .. MaxGenerations
  BY ReadMoves DEF TypeOK, ReadAnswered, SimSound
<1> QED
  BY <1>1, <1>2 DEF Entry, Sim!TypeOK

LEMMA TypeStep == PipeInv /\ [Next]_vars => TypeOK'
<1> SUFFICES ASSUME PipeInv, [Next]_vars
             PROVE  TypeOK'
  OBVIOUS
<1>1. Sim!TypeOK' /\ Ing!TypeOK'
  BY SimSteps, SimTypeStep, IngestorTypeStep DEF PipeInv, TypeOK
<1>2. generation' \in 0 .. MaxGenerations
  BY DEF PipeInv, TypeOK, Next, vars, BootSim, ExitSim, OtherClientReads, IngestorBegins,
         ReadAnswered, ReadFails, BatchStored, IngestorProceeds, Tick, dataVars
<1>3. /\ sample' \in Seq(Entry) /\ Len(sample') <= NumRanges
      /\ sampleTime' \in Nat /\ stored' \in Seq(Entry)
  <2> USE DEF PipeInv, TypeOK
  <2>1. CASE ReadAnswered
    <3>1. Len(sample) < NumRanges
      BY <2>1 DEF ReadAnswered, Ing!ReadRange, SampleCounted, Collecting
    <3> QED
      BY <2>1, <3>1, NewEntry DEF ReadAnswered, Sim!TypeOK
  <2>2. CASE IngestorBegins
    BY <2>2 DEF IngestorBegins
  <2>3. CASE BatchStored
    BY <2>3 DEF BatchStored
  <2>4. CASE UNCHANGED <<sample, sampleTime, stored>>
    BY <2>4
  <2> QED
    BY <2>1, <2>2, <2>3, <2>4
    DEF Next, vars, BootSim, ExitSim, OtherClientReads, ReadFails, IngestorProceeds, Tick, dataVars
<1> QED
  BY <1>1, <1>2, <1>3 DEF TypeOK

LEMMA SimSoundStep == PipeInv /\ [Next]_vars => SimSound'
<1> SUFFICES ASSUME PipeInv, [Next]_vars
             PROVE  SimSound'
  OBVIOUS
<1> USE DEF PipeInv, TypeOK, Sim!TypeOK, SimSound
<1>1. CASE BootSim
  BY <1>1 DEF BootSim, Sim!Boot
<1>2. CASE ExitSim
  BY <1>2 DEF ExitSim, Sim!Exit, dataVars
<1>3. CASE Sim!Read /\ generation' = generation
  BY <1>3, ReadMoves
<1>4. CASE SimIdle /\ generation' = generation
  BY <1>4 DEF SimIdle, simulatorVars
<1>5. CASE Tick
  BY <1>5 DEF Tick, Sim!Tick, Sim!simVars, dataVars
<1>6. CASE UNCHANGED vars
  BY <1>6 DEF vars, simulatorVars, dataVars
<1> QED
  BY <1>1, <1>2, <1>3, <1>4, <1>5, <1>6
  DEF Next, OtherClientReads, IngestorBegins, ReadAnswered, ReadFails, BatchStored,
      IngestorProceeds, dataVars

\* The types the steps below need.
LEMMA StateTypes ==
  ASSUME PipeInv
  PROVE  /\ clock \in Nat /\ step \in Nat /\ lastStep \in Nat /\ generation \in Nat
         /\ elapsed \in Nat /\ elapsed <= CycleBudget
         /\ sample \in Seq(Entry) /\ stored \in Seq(Entry)
BY DEF PipeInv, TypeOK, Sim!TypeOK, Ing!TypeOK

\* The steps that are not the ingestor's.
Others == BootSim \/ ExitSim \/ OtherClientReads \/ Tick \/ UNCHANGED vars

LEMMA OthersKeepBatch ==
  ASSUME PipeInv, Others
  PROVE  /\ UNCHANGED <<pc, reads, sample, sampleTime, stored>>
         /\ clock' \in Nat /\ clock' >= clock
         /\ elapsed' \in Nat
         /\ Collecting => CycleStart' = CycleStart
<1> USE StateTypes DEF dataVars, CycleStart
<1>1. CASE UNCHANGED <<clock, pc, reads, elapsed, sample, sampleTime, stored>>
  BY <1>1
<1>2. CASE Tick
  <2>1. elapsed' = IF Collecting \/ pc \in {"answer", "truncate", "record", "finish"}
                   THEN elapsed + 1 ELSE elapsed
    BY <1>2 DEF Tick, Ing!Tick, Ing!InCycle, Collecting
  <2>2. clock' = clock + 1
    BY <1>2 DEF Tick, Sim!Tick
  <2>3. UNCHANGED <<pc, reads, sample, sampleTime, stored>>
    BY <1>2 DEF Tick, Ing!Tick
  <2> QED
    BY <2>1, <2>2, <2>3 DEF Collecting
<1>3. CASE BootSim
  BY <1>1, <1>3 DEF BootSim, Sim!Boot, IngestorIdle, ingestorVars
<1>4. CASE ExitSim
  BY <1>1, <1>4 DEF ExitSim, Sim!Exit, IngestorIdle, ingestorVars
<1>5. CASE OtherClientReads
  <2>1. clock' = clock
    BY <1>5, ReadMoves DEF OtherClientReads, PipeInv, TypeOK
  <2> QED
    BY <1>1, <1>5, <2>1 DEF OtherClientReads, IngestorIdle, ingestorVars
<1>6. CASE UNCHANGED vars
  BY <1>1, <1>6 DEF vars, ingestorVars
<1> QED
  BY <1>2, <1>3, <1>4, <1>5, <1>6 DEF Others

LEMMA SampleCountedStep == PipeInv /\ [Next]_vars => SampleCounted'
<1> SUFFICES ASSUME PipeInv, [Next]_vars
             PROVE  SampleCounted'
  OBVIOUS
<1> USE DEF PipeInv, TypeOK, Ing!TypeOK, Sim!TypeOK, SampleCounted, Collecting
<1>1. CASE Others
  BY <1>1, OthersKeepBatch
<1>2. CASE IngestorBegins
  BY <1>2 DEF IngestorBegins, Ing!Start, Ing!BeginCycle, Ing!LoadMap
<1>3. CASE ReadAnswered
  <2>1. Len(sample') = Len(sample) + 1
    BY <1>3, NewEntry DEF ReadAnswered
  <2>2. clock' = clock
    BY <1>3, ReadMoves DEF ReadAnswered
  <2> QED
    BY <1>3, <2>1, <2>2 DEF ReadAnswered, Ing!ReadRange
<1>4. CASE ReadFails
  BY <1>4 DEF ReadFails, Ing!CycleRaises, dataVars
<1>5. CASE BatchStored
  BY <1>5 DEF BatchStored, Ing!WriteAccepted
<1>6. CASE IngestorProceeds
  BY <1>6
  DEF IngestorProceeds, Ing!AnswerArrives, Ing!TruncateStatus, Ing!RecordStatus,
      Ing!FallAsleep, Ing!WakeUp, Ing!CycleRaises, dataVars
<1> QED
  BY <1>1, <1>2, <1>3, <1>4, <1>5, <1>6 DEF Next, Others

\* Time and the processes go on, and a process through its hours.
LEMMA SimGoesOn ==
  ASSUME PipeInv, [Next]_vars
  PROVE  /\ clock' \in Nat /\ clock' >= clock
         /\ generation' \in Nat /\ generation' >= generation
         /\ step' \in Nat
         /\ (generation' = generation => step' >= step)
<1> USE DEF PipeInv, TypeOK, Sim!TypeOK
<1>1. CASE BootSim
  BY <1>1 DEF BootSim, Sim!Boot
<1>2. CASE ExitSim
  BY <1>2 DEF ExitSim, Sim!Exit, dataVars
<1>3. CASE Sim!Read /\ generation' = generation
  BY <1>3, ReadMoves
<1>4. CASE SimIdle /\ generation' = generation
  BY <1>4 DEF SimIdle, simulatorVars
<1>5. CASE Tick
  BY <1>5 DEF Tick, Sim!Tick, Sim!simVars, dataVars
<1>6. CASE UNCHANGED vars
  BY <1>6 DEF vars, simulatorVars, dataVars
<1> QED
  BY <1>1, <1>2, <1>3, <1>4, <1>5, <1>6
  DEF Next, OtherClientReads, IngestorBegins, ReadAnswered, ReadFails, BatchStored,
      IngestorProceeds, dataVars

LEMMA NotAheadKept ==
  ASSUME PipeInv, [Next]_vars, NEW entry \in Entry, NotAhead(entry)
  PROVE  /\ entry.at <= clock'
         /\ entry.generation <= generation'
         /\ entry.generation = generation' => entry.step <= step'
<1>1. entry.at \in Nat /\ entry.generation \in Nat /\ entry.step \in Nat
  BY DEF Entry
<1>2. /\ clock' \in Nat /\ clock' >= clock
      /\ generation' \in Nat /\ generation' >= generation
      /\ step' \in Nat
      /\ (generation' = generation => step' >= step)
  BY SimGoesOn
<1> QED
  BY <1>1, <1>2, StateTypes DEF NotAhead

LEMMA NotAheadStep ==
  PipeInv /\ [Next]_vars =>
    /\ (\A i \in DOMAIN sample : NotAhead(sample[i]))'
    /\ (\A i \in DOMAIN stored : NotAhead(stored[i]))'
<1> SUFFICES ASSUME PipeInv, [Next]_vars
             PROVE  /\ \A i \in DOMAIN sample' : NotAhead(sample[i])'
                    /\ \A i \in DOMAIN stored' : NotAhead(stored[i])'
  OBVIOUS
<1>1. /\ \A i \in DOMAIN sample : sample[i] \in Entry /\ NotAhead(sample[i])
      /\ \A i \in DOMAIN stored : stored[i] \in Entry /\ NotAhead(stored[i])
  BY DEF PipeInv, TypeOK
<1>2. CASE UNCHANGED <<sample, stored>>
  BY <1>1, <1>2, NotAheadKept DEF NotAhead
<1>3. CASE IngestorBegins
  BY <1>1, <1>3, NotAheadKept DEF IngestorBegins, NotAhead
<1>4. CASE BatchStored
  BY <1>1, <1>4, NotAheadKept DEF BatchStored, NotAhead
<1>5. CASE ReadAnswered
  <2> DEFINE new == [hour |-> reply'.hour, step |-> step', at |-> producedAt',
                     generation |-> generation]
  <2>1. sample' = Append(sample, new) /\ UNCHANGED <<stored, generation>>
    BY <1>5 DEF ReadAnswered
  <2>2. new.at <= clock' /\ new.generation <= generation' /\ new.step <= step'
    <3>1. producedAt' <= clock'
      BY SimSoundStep DEF SimSound
    <3> QED
      BY <2>1, <3>1, SimGoesOn, StateTypes
  <2>3. ASSUME NEW i \in DOMAIN sample'
        PROVE  NotAhead(sample[i])'
    <3>1. CASE i \in DOMAIN sample
      <4>1. sample'[i] = sample[i]
        BY <2>1, <3>1 DEF PipeInv, TypeOK
      <4> QED
        BY <1>1, <3>1, <4>1, NotAheadKept DEF NotAhead
    <3>2. CASE i = Len(sample) + 1
      <4>1. sample'[i] = new
        BY <2>1, <3>2 DEF PipeInv, TypeOK
      <4> QED
        BY <2>2, <4>1 DEF NotAhead
    <3> QED
      BY <2>1, <3>1, <3>2 DEF PipeInv, TypeOK
  <2> QED
    BY <1>1, <2>1, <2>3, NotAheadKept DEF NotAhead
<1> QED
  BY <1>2, <1>3, <1>4, <1>5
  DEF Next, vars, BootSim, ExitSim, OtherClientReads, ReadFails, IngestorProceeds, Tick, dataVars

\* The hours of a read are paid for while others move the simulator.
LEMMA PaidByOthers ==
  ASSUME PipeInv, Others, Collecting,
         NEW entry \in Entry, NotAhead(entry),
         entry.generation = generation => Paid(entry.step, step, lastStep, CycleStart)
  PROVE  entry.generation = generation' => Paid(entry.step, step', lastStep', CycleStart')
<1>1. CycleStart' = CycleStart
  BY OthersKeepBatch
<1>2. CASE UNCHANGED <<generation, step, lastStep>>
  BY <1>1, <1>2
<1>3. CASE BootSim
  <2>1. entry.generation \in Nat
    BY DEF Entry
  <2> QED
    BY <1>3, <2>1, StateTypes DEF BootSim, NotAhead
<1>4. CASE OtherClientReads
  <2>1. generation' = generation
    BY <1>4 DEF OtherClientReads, dataVars
  <2>2. Sim!TypeOK /\ Ing!TypeOK /\ SimSound /\ Sim!Read
    BY <1>4 DEF OtherClientReads, PipeInv, TypeOK
  <2>3. entry.step \in Nat /\ (entry.generation = generation => entry.step <= step)
    BY DEF NotAhead, Entry
  <2> QED
    BY <1>1, <2>1, <2>2, <2>3, PaidKept
<1>5. CASE ExitSim \/ Tick \/ UNCHANGED vars
  <2>1. UNCHANGED <<generation, step, lastStep>>
    BY <1>5
    DEF ExitSim, Sim!Exit, Tick, Sim!Tick, Sim!simVars, vars, simulatorVars, dataVars
  <2> QED
    BY <1>2, <2>1
<1> QED
  BY <1>3, <1>4, <1>5 DEF Others

\* No read of this cycle goes on after these.
LEMMA CycleEnds ==
  ASSUME ReadFails \/ BatchStored \/ IngestorProceeds
  PROVE  pc' \notin {"load", "read", "write"}
BY DEF ReadFails, BatchStored, IngestorProceeds, Ing!CycleRaises, Ing!WriteAccepted,
       Ing!AnswerArrives, Ing!TruncateStatus, Ing!RecordStatus, Ing!FallAsleep, Ing!WakeUp

\* What ReadAnswered changes, in terms of the entry it appends.
LEMMA ReadAppends ==
  ASSUME PipeInv, ReadAnswered,
         NEW new, new = [hour |-> reply'.hour, step |-> step', at |-> producedAt',
                         generation |-> generation]
  PROVE  /\ new \in Entry /\ new.step = step' /\ new.at = lastStep'
         /\ new.generation = generation
         /\ sample' = Append(sample, new)
         /\ Len(sample') = Len(sample) + 1
         /\ sample'[Len(sample) + 1] = new
         /\ \A i \in 1 .. Len(sample) : sample'[i] = sample[i]
         /\ UNCHANGED <<clock, elapsed, generation, stored>>
         /\ clock - new.at < SimInterval
         /\ pc = "read"
<1>1. /\ reply'.kind = "registers" /\ Sim!Read /\ Sim!TypeOK /\ SimSound /\ TypeOK
      /\ sample' = Append(sample, new) /\ UNCHANGED <<generation, stored>>
  BY DEF ReadAnswered, PipeInv, TypeOK
<1>2. clock' = clock /\ lastStep' = producedAt' /\ clock - producedAt' < SimInterval
  BY <1>1, ReadMoves
<1>3. new \in Entry
  BY <1>1, NewEntry
<1>4. pc = "read" /\ elapsed' = elapsed
  BY DEF ReadAnswered, Ing!ReadRange
<1>5. new.step = step' /\ new.at = producedAt' /\ new.generation = generation
  OBVIOUS
<1>6. /\ Len(sample') = Len(sample) + 1
      /\ sample'[Len(sample) + 1] = new
      /\ \A i \in 1 .. Len(sample) : sample'[i] = sample[i]
  BY <1>1, <1>3, StateTypes
<1> QED
  BY <1>1, <1>2, <1>3, <1>4, <1>5, <1>6

\* A tick of a cycle makes an entry older and the cycle longer.
LEMMA YoungStays ==
  ASSUME NEW at \in Nat, NEW now \in Nat, NEW spent \in Nat, NEW now2 \in Nat, NEW spent2 \in Nat,
         now - at < SimInterval + spent, now2 - spent2 = now - spent
  PROVE  now2 - at < SimInterval + spent2
OBVIOUS

\* What SampleSound says of one entry and those read after it.
EntrySound(i) ==
  /\ clock - sample[i].at < SimInterval + elapsed
  /\ sample[i].generation = generation => Paid(sample[i].step, step, lastStep, CycleStart)
  /\ \A j \in i .. Len(sample) : Follows(sample[i], sample[j], CycleStart)

LEMMA SampleSoundStep == PipeInv /\ [Next]_vars => SampleSound'
<1> SUFFICES ASSUME PipeInv, [Next]_vars, Collecting'
             PROVE  \A i \in DOMAIN sample' : EntrySound(i)'
  BY DEF SampleSound, EntrySound
<1>1. \A i \in DOMAIN sample :
        /\ sample[i] \in Entry /\ NotAhead(sample[i])
        /\ sample[i].at \in Nat /\ sample[i].step \in Nat
        /\ Collecting => EntrySound(i)
  <2>1. \A i \in DOMAIN sample : sample[i] \in Entry /\ NotAhead(sample[i])
    BY StateTypes DEF PipeInv
  <2>2. \A entry \in Entry : entry.at \in Nat /\ entry.step \in Nat
    BY DEF Entry
  <2>3. Collecting => \A i \in DOMAIN sample : EntrySound(i)
    BY DEF PipeInv, SampleSound, EntrySound
  <2> QED
    BY <2>1, <2>2, <2>3
<1>2. CASE Others
  <2>1. Collecting
    BY <1>2, OthersKeepBatch DEF Collecting
  <2>2. UNCHANGED <<sample, CycleStart>> /\ clock' \in Nat /\ elapsed' \in Nat
    BY <1>2, <2>1, OthersKeepBatch
  <2>3. ASSUME NEW i \in DOMAIN sample
        PROVE  EntrySound(i)'
    <3>1. clock' - sample[i].at < SimInterval + elapsed'
      <4>1. clock - sample[i].at < SimInterval + elapsed /\ sample[i].at \in Nat
        BY <1>1, <2>1 DEF EntrySound
      <4>2. clock' - elapsed' = clock - elapsed
        BY <2>2 DEF CycleStart
      <4>3. clock' \in Nat /\ elapsed' \in Nat /\ clock \in Nat /\ elapsed \in Nat
        BY <2>2, StateTypes
      <4> QED
        BY <4>1, <4>2, <4>3, YoungStays
    <3>2. sample[i].generation = generation' =>
            Paid(sample[i].step, step', lastStep', CycleStart')
      BY <1>1, <1>2, <2>1, PaidByOthers DEF EntrySound
    <3>3. \A j \in i .. Len(sample) : Follows(sample[i], sample[j], CycleStart)
      BY <1>1, <2>1 DEF EntrySound
    <3> QED
      BY <2>2, <3>1, <3>2, <3>3 DEF EntrySound
  <2> QED
    BY <2>2, <2>3
<1>3. CASE IngestorBegins
  BY <1>3 DEF IngestorBegins
<1>4. CASE ReadFails \/ BatchStored \/ IngestorProceeds
  BY <1>4, CycleEnds DEF Collecting
<1>5. CASE ReadAnswered
  <2> DEFINE new == [hour |-> reply'.hour, step |-> step', at |-> producedAt',
                     generation |-> generation]
             last == Len(sample) + 1
  <2>1. /\ new \in Entry /\ new.step = step' /\ new.at = lastStep'
        /\ new.generation = generation
        /\ Len(sample') = last
        /\ sample'[last] = new
        /\ \A i \in 1 .. Len(sample) : sample'[i] = sample[i]
        /\ sample' = Append(sample, new)
        /\ UNCHANGED <<clock, elapsed, generation, stored>>
        /\ clock - new.at < SimInterval
        /\ pc = "read"
    BY <1>5, ReadAppends
  <2> HIDE DEF new
  <2>2. new.at \in Nat /\ new.step \in Nat
    BY <2>1 DEF Entry
  <2>3. CycleStart' = CycleStart /\ Collecting
    BY <2>1 DEF CycleStart, Collecting
  <2>4. ASSUME NEW i, i = last
        PROVE  EntrySound(i)'
    <3>1. clock' - new.at < SimInterval + elapsed'
      BY <2>1, <2>2, StateTypes
    <3>2. Paid(new.step, step', lastStep', CycleStart')
      BY <2>1, <2>2 DEF Paid
    <3>3. \A j \in last .. Len(sample') : j = last
      BY <2>1, StateTypes
    <3>4. Follows(new, new, CycleStart')
      BY <2>2 DEF Follows, Paid
    <3>5. sample'[i] = new /\ \A j \in i .. Len(sample') : sample'[j] = new
      BY <2>1, <2>4, <3>3
    <3> QED
      BY <3>1, <3>2, <3>4, <3>5 DEF EntrySound
  <2>5. ASSUME NEW i \in 1 .. Len(sample)
        PROVE  EntrySound(i)'
    <3>1. i \in DOMAIN sample
      BY StateTypes
    <3>2. sample[i].generation = generation =>
            sample[i].step <= step' /\ Paid(sample[i].step, step', lastStep', CycleStart)
      <4>1. Sim!TypeOK /\ Ing!TypeOK /\ SimSound /\ Sim!Read
        BY <1>5 DEF ReadAnswered, PipeInv, TypeOK
      <4> QED
        BY <1>1, <2>3, <3>1, <4>1, PaidKept DEF EntrySound, NotAhead
    <3>3. Follows(sample[i], new, CycleStart)
      BY <2>1, <3>2 DEF Follows
    <3>4. \A j \in i .. last : Follows(sample'[i], sample'[j], CycleStart)
      <4>1. \A j \in i .. Len(sample) : Follows(sample[i], sample[j], CycleStart)
        BY <1>1, <2>3, <3>1 DEF EntrySound
      <4> SUFFICES ASSUME NEW j \in i .. last
                   PROVE  Follows(sample'[i], sample'[j], CycleStart)
        OBVIOUS
      <4>2. sample'[i] = sample[i]
        BY <2>1
      <4>3. CASE j = last
        BY <2>1, <3>3, <4>2, <4>3
      <4>4. CASE j # last
        <5>1. j \in i .. Len(sample) /\ j \in 1 .. Len(sample)
          BY <4>4, StateTypes
        <5> QED
          BY <2>1, <4>1, <4>2, <5>1
      <4> QED
        BY <4>3, <4>4
    <3>5. clock - sample[i].at < SimInterval + elapsed
      BY <1>1, <2>3, <3>1 DEF EntrySound
    <3> QED
      BY <2>1, <2>3, <3>2, <3>4, <3>5 DEF EntrySound
  <2>6. \A i \in DOMAIN sample' : i \in 1 .. Len(sample) \/ i = last
    BY <2>1, StateTypes
  <2> QED
    BY <2>4, <2>5, <2>6
<1> QED
  BY <1>2, <1>3, <1>4, <1>5 DEF Next, Others

LEMMA StoredBeforeStep == PipeInv /\ [Next]_vars => StoredBefore'
<1> SUFFICES ASSUME PipeInv, [Next]_vars, Collecting',
                    NEW i \in DOMAIN stored', NEW j \in DOMAIN sample',
                    stored'[i].generation = sample'[j].generation
             PROVE  stored'[i].step <= sample'[j].step
  BY DEF StoredBefore
<1>1. CASE Others
  BY <1>1, OthersKeepBatch DEF PipeInv, StoredBefore, Collecting
<1>2. CASE IngestorBegins
  BY <1>2 DEF IngestorBegins
<1>3. CASE ReadFails \/ BatchStored \/ IngestorProceeds
  BY <1>3, CycleEnds DEF Collecting
<1>4. CASE ReadAnswered
  <2> DEFINE new == [hour |-> reply'.hour, step |-> step', at |-> producedAt',
                     generation |-> generation]
             last == Len(sample) + 1
  <2>1. /\ new.step = step' /\ new.generation = generation
        /\ Len(sample') = last /\ sample'[last] = new
        /\ \A k \in 1 .. Len(sample) : sample'[k] = sample[k]
        /\ sample' = Append(sample, new) /\ new \in Entry
        /\ UNCHANGED stored
        /\ pc = "read"
    BY <1>4, ReadAppends
  <2> HIDE DEF new
  <2>2. j \in 1 .. Len(sample) \/ j = last
    BY <2>1, StateTypes
  <2>3. CASE j = last
    <3>1. /\ stored[i].step \in Nat
          /\ stored[i].generation = generation => stored[i].step <= step
      <4>1. \A entry \in Entry : entry.step \in Nat
        BY DEF Entry
      <4>2. i \in DOMAIN stored /\ stored[i] \in Entry
        BY <2>1, StateTypes
      <4> QED
        BY <4>1, <4>2 DEF PipeInv, NotAhead
    <3>2. step' >= step /\ step' \in Nat
      BY <1>4, SimGoesOn DEF ReadAnswered
    <3>3. stored'[i] = stored[i] /\ sample'[j] = new
      BY <2>1, <2>3
    <3> QED
      BY <2>1, <3>1, <3>2, <3>3, StateTypes
  <2>4. CASE j \in 1 .. Len(sample)
    <3>1. sample'[j] = sample[j] /\ stored'[i] = stored[i] /\ i \in DOMAIN stored
      BY <2>1, <2>4
    <3>2. j \in DOMAIN sample /\ Collecting
      BY <2>1, <2>4, StateTypes DEF Collecting
    <3> QED
      BY <3>1, <3>2 DEF PipeInv, StoredBefore
  <2> QED
    BY <2>2, <2>3, <2>4
<1> QED
  BY <1>1, <1>2, <1>3, <1>4 DEF Next, Others

LEMMA PipeInvInit == Init => PipeInv
<1> SUFFICES ASSUME Init
             PROVE  PipeInv
  OBVIOUS
<1>1. Sim!TypeOK
  BY DEF Init, Sim!Init, Sim!TypeOK, Sim!NoReply
<1>2. Ing!TypeOK
  <2>1. /\ 0 \in Ing!Age /\ AgeCap \in Ing!Age
        /\ 0 \in 0 .. MissedCap /\ MissedCap \in 0 .. MissedCap
        /\ 0 \in 0 .. 0 /\ 0 \in 0 .. NumRanges /\ 0 \in 0 .. CycleBudget
    BY DEF Ing!Age
  <2> QED
    BY <2>1 DEF Init, Ing!Init, Ing!TypeOK, Ing!IdleProbe
<1>3. TypeOK
  BY <1>1, <1>2 DEF Init, TypeOK
<1>4. SimSound
  BY DEF Init, Sim!Init, SimSound
<1>5. ~Collecting /\ sample = << >> /\ stored = << >>
  BY DEF Init, Ing!Init, Collecting
<1>6. SampleCounted
  BY <1>5 DEF SampleCounted, Collecting
<1> QED
  BY <1>3, <1>4, <1>5, <1>6 DEF PipeInv, SampleSound, StoredBefore

LEMMA PipeInvariance == Spec => []PipeInv
<1>1. PipeInv /\ [Next]_vars => PipeInv'
  BY TypeStep, SimSoundStep, SampleCountedStep, NotAheadStep, SampleSoundStep, StoredBeforeStep
  DEF PipeInv
<1> QED
  BY <1>1, PipeInvInit, PTL DEF Spec

-----------------------------------------------------------------------------
(* The composition keeps the types of both components, and a batch never
   holds more entries than the map has ranges (read_register_values). *)
THEOREM PipelineTypes == Spec => []TypeOK
<1>1. PipeInv => TypeOK
  BY DEF PipeInv
<1> QED
  BY <1>1, PipeInvariance, PTL

(* No point of a batch was simulated a simulation interval and a cycle before
   the batch's one timestamp, or earlier (telemetry_points). *)
THEOREM TimestampsHonest == Spec => []TimestampHonest
<1>1. PipeInv => TimestampHonest
  <2> SUFFICES ASSUME PipeInv, BatchReady, NEW i \in DOMAIN sample
               PROVE  sampleTime - sample[i].at < SimInterval + CycleBudget
    BY DEF TimestampHonest
  <2>1. clock - sample[i].at < SimInterval + elapsed
    BY DEF PipeInv, SampleSound, BatchReady, Collecting
  <2>2. sampleTime \in Nat /\ sampleTime <= clock
    BY DEF PipeInv, TypeOK, SampleCounted, BatchReady
  <2>3. \A entry \in Entry : entry.at \in Nat
    BY DEF Entry
  <2>4. sample[i].at \in Nat
    BY <2>3, StateTypes
  <2> QED
    BY <2>1, <2>2, <2>4, StateTypes
<1> QED
  BY <1>1, PipeInvariance, PTL

\* Whole intervals in a stretch of time.
LEMMA WholeIntervals ==
  ASSUME NEW k \in Nat, NEW time \in Nat, k * SimInterval <= time
  PROVE  k <= time \div SimInterval
<1> DEFINE quotient == time \div SimInterval
<1>1. quotient \in Nat
  OBVIOUS
<1>2. time < (quotient + 1) * SimInterval
  OBVIOUS
<1> HIDE DEF quotient
<1>3. ASSUME k >= quotient + 1
      PROVE  FALSE
  <2>1. k * SimInterval >= (quotient + 1) * SimInterval
    BY <1>1, <1>3
  <2> QED
    BY <1>1, <1>2, <2>1
<1> QED
  BY <1>1, <1>3 DEF quotient

(* In the order of the reads the hours of a batch never go back, and they go
   forward by the intervals that fit in a cycle and one at most, however many
   clients and reads there are (read_register_values against refresh). *)
THEOREM BatchSpreadBounded == Spec => []BatchSpread
<1>1. PipeInv => BatchSpread
  <2> SUFFICES ASSUME PipeInv, BatchReady, OfOneProcess(sample)
               PROVE  /\ \A i \in 1 .. NumRanges - 1 : sample[i].step <= sample[i + 1].step
                      /\ sample[NumRanges].step - sample[1].step <= MaxSpread
    BY DEF BatchSpread
  <2>1. Collecting /\ Len(sample) = NumRanges /\ DOMAIN sample = 1 .. NumRanges
    BY StateTypes DEF PipeInv, SampleCounted, BatchReady, Collecting
  <2>2. \A i, j \in 1 .. NumRanges :
          i <= j => /\ sample[i].step <= sample[j].step
                    /\ Paid(sample[i].step, sample[j].step, sample[j].at, CycleStart)
    <3> SUFFICES ASSUME NEW i \in 1 .. NumRanges, NEW j \in 1 .. NumRanges, i <= j
                 PROVE  /\ sample[i].step <= sample[j].step
                        /\ Paid(sample[i].step, sample[j].step, sample[j].at, CycleStart)
      OBVIOUS
    <3>1. Follows(sample[i], sample[j], CycleStart)
      BY <2>1 DEF PipeInv, SampleSound
    <3>2. sample[i].generation = sample[j].generation
      BY <2>1 DEF OfOneProcess
    <3> QED
      BY <3>1, <3>2 DEF Follows
  <2>3. \A i \in 1 .. NumRanges - 1 : sample[i].step <= sample[i + 1].step
    BY <2>2
  <2>4. sample[NumRanges].step - sample[1].step <= MaxSpread
    <3> DEFINE from == sample[1].step
               to == sample[NumRanges].step
               at == sample[NumRanges].at
    <3>1. from \in Nat /\ to \in Nat /\ at \in Nat /\ at <= clock
      <4>1. \A entry \in Entry : entry.step \in Nat /\ entry.at \in Nat
        BY DEF Entry
      <4>2. /\ sample[1] \in Entry /\ sample[NumRanges] \in Entry
            /\ sample[NumRanges].at <= clock
        BY <2>1, StateTypes DEF PipeInv, NotAhead
      <4> QED
        BY <4>1, <4>2
    <3>2. from <= to /\ Paid(from, to, at, CycleStart)
      BY <2>2
    <3> HIDE DEF from, to, at
    <3>3. CASE to > from
      <4>1. (to - from - 1) * SimInterval <= CycleBudget
        <5>1. (to - from - 1) * SimInterval <= at - (clock - elapsed)
          BY <3>2, <3>3 DEF Paid, CycleStart
        <5>2. (to - from - 1) * SimInterval \in Int
          BY <3>1
        <5> QED
          BY <3>1, <5>1, <5>2, StateTypes
      <4>2. to - from - 1 \in Nat
        BY <3>1, <3>3
      <4>3. to - from - 1 <= CycleBudget \div SimInterval
        BY <4>1, <4>2, WholeIntervals
      <4>4. CycleBudget \div SimInterval \in Nat
        OBVIOUS
      <4> QED
        BY <3>1, <4>3, <4>4 DEF MaxSpread, from, to
    <3>4. CASE to = from
      <4>1. CycleBudget \div SimInterval \in Nat
        OBVIOUS
      <4> QED
        BY <3>1, <3>4, <4>1 DEF MaxSpread, from, to
    <3> QED
      BY <3>1, <3>2, <3>3, <3>4
  <2> QED
    BY <2>3, <2>4
<1> QED
  BY <1>1, PipeInvariance, PTL

(* While one simulator process serves, no point of a batch is from an hour
   before one that InfluxDB already holds, whatever failed between the two
   batches (run_once against refresh). *)
THEOREM SeriesInOrder == Spec => []StoredInOrder
<1>1. PipeInv => StoredInOrder
  <2> SUFFICES ASSUME PipeInv, BatchReady, OfOneProcess(sample \o stored),
                      NEW i \in DOMAIN stored, NEW j \in DOMAIN sample
               PROVE  stored[i].step <= sample[j].step
    BY DEF StoredInOrder
  <2>1. /\ (sample \o stored)[j] = sample[j]
        /\ (sample \o stored)[Len(sample) + i] = stored[i]
        /\ j \in DOMAIN (sample \o stored)
        /\ Len(sample) + i \in DOMAIN (sample \o stored)
    BY StateTypes
  <2>2. stored[i].generation = sample[j].generation
    BY <2>1 DEF OfOneProcess
  <2> QED
    BY <2>2 DEF PipeInv, StoredBefore, BatchReady, Collecting
<1> QED
  BY <1>1, PipeInvariance, PTL
=============================================================================
