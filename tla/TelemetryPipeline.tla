------------------------- MODULE TelemetryPipeline -------------------------
(***************************************************************************)
(* The live path: the ingestor's cycle (ModbusIngestor) reads the          *)
(* simulator's registers (PowerSim) one range at a time, each read on a    *)
(* connection of its own, and sends what it has read to InfluxDB as one    *)
(* batch.  The simulator may advance between two reads of a cycle, other   *)
(* Modbus clients may make it advance, and it may restart.                 *)
(*                                                                         *)
(* The healthcheck and the ingestor's own restarts do not touch what is    *)
(* read or stored and are left to ModbusIngestor.                          *)
(***************************************************************************)
EXTENDS Integers, Sequences, SequencesExt

CONSTANTS
    SimInterval, StartHours, BadHours, MaxClock,
    IngestInterval, MinSleep, StatusFloor, NumRanges, CycleBudget, AgeCap, MissedCap,
    MaxGenerations  \* bound: simulator processes in one behaviour

ASSUME PipelineAssumption ==
  /\ SimInterval \in Nat \ {0}
  /\ StartHours \subseteq 0 .. 23
  /\ BadHours \subseteq 0 .. 23
  /\ MaxClock \in Nat
  /\ IngestInterval \in Nat \ {0}
  /\ MinSleep \in Nat \ {0}
  /\ StatusFloor \in Nat
  /\ NumRanges \in Nat \ {0}
  /\ CycleBudget \in Nat
  /\ AgeCap \in Nat
  /\ MissedCap \in Nat
  /\ MaxGenerations \in Nat

VARIABLES
    clock, startHour, process, lastStep, step, registers, bootedAt, producedAt, reply,
    pc, stop, reads, elapsed, remaining, status, probe, faulty,
    statusAge, delivered, missed, sinceStop,
    generation,  \* for the properties: which simulator process is serving
    sample,      \* what the cycle has read: one entry per range, in order
    sampleTime,  \* the batch's timestamp, taken after the last read
    stored       \* the last batch InfluxDB accepted

Sim == INSTANCE PowerSim WITH Interval <- SimInterval
Ing == INSTANCE ModbusIngestor WITH Interval <- IngestInterval, ProbeBudget <- 0

simulatorVars == <<startHour, process, lastStep, step, registers, bootedAt, producedAt, reply>>
ingestorVars == <<pc, stop, reads, elapsed, remaining, status, probe, faulty,
                  statusAge, delivered, missed, sinceStop>>
dataVars == <<generation, sample, sampleTime, stored>>
vars == <<clock, simulatorVars, ingestorVars, dataVars>>

SimIdle == UNCHANGED <<clock, simulatorVars>>
IngestorIdle == UNCHANGED ingestorVars

Init ==
  /\ Sim!Init
  /\ Ing!Init
  /\ generation = 0
  /\ sample = << >>
  /\ sampleTime = 0
  /\ stored = << >>

-----------------------------------------------------------------------------
BootSim ==
  /\ generation < MaxGenerations
  /\ Sim!Boot
  /\ generation' = generation + 1
  /\ IngestorIdle
  /\ UNCHANGED <<sample, sampleTime, stored>>

ExitSim ==
  /\ Sim!Exit
  /\ IngestorIdle
  /\ UNCHANGED dataVars

\* Another client of the Modbus server: a smoke test, a second ingestor pod.
OtherClientReads ==
  /\ Sim!Read
  /\ IngestorIdle
  /\ UNCHANGED dataVars

\* Mutant of IngestorBegins: the values outlive the cycle.
IngestorBeginsKeeping ==
  /\ Ing!Start \/ Ing!BeginCycle \/ Ing!LoadMap
  /\ SimIdle
  /\ UNCHANGED dataVars

\* run_once up to the first read: a fresh map, a fresh client, no values yet.
IngestorBegins ==
  /\ Ing!Start \/ Ing!BeginCycle \/ Ing!LoadMap
  /\ SimIdle
  /\ sample' = << >>
  /\ UNCHANGED <<generation, sampleTime, stored>>

\* read_holding_registers answers; the last answer is followed by
\* telemetry_points, which takes one timestamp for the whole batch.
ReadAnswered ==
  /\ Ing!ReadRange
  /\ Sim!Read
  /\ reply'.kind = "registers"
  /\ sample' = Append(sample, [hour |-> reply'.hour, step |-> step', at |-> producedAt',
                               generation |-> generation])
  /\ sampleTime' = IF pc' = "write" THEN clock ELSE sampleTime
  /\ UNCHANGED <<generation, stored>>

\* It raises: no connection, an error answer, a time-out.  The simulator may
\* have refreshed before the answer was lost.
ReadFails ==
  /\ pc = "read"
  /\ Ing!CycleRaises
  /\ Sim!Read \/ SimIdle
  /\ UNCHANGED dataVars

BatchStored ==
  /\ Ing!WriteAccepted
  /\ SimIdle
  /\ stored' = sample
  /\ UNCHANGED <<generation, sample, sampleTime>>

\* The rest of the cycle and of the loop, failures included.
IngestorProceeds ==
  /\ \/ Ing!AnswerArrives \/ Ing!TruncateStatus \/ Ing!RecordStatus
     \/ Ing!FallAsleep \/ Ing!WakeUp
     \/ pc # "read" /\ Ing!CycleRaises
  /\ SimIdle
  /\ UNCHANGED dataVars

Tick ==
  /\ Sim!Tick
  /\ Ing!Tick
  /\ UNCHANGED dataVars

Next ==
  \/ BootSim \/ ExitSim \/ OtherClientReads
  \/ IngestorBegins \/ ReadAnswered \/ ReadFails \/ BatchStored \/ IngestorProceeds
  \/ Tick

Spec == Init /\ [][Next]_vars

-----------------------------------------------------------------------------
Entry == [hour : 0 .. 23, step : Nat, at : Nat, generation : 1 .. MaxGenerations]

(* Both components keep their types when they are composed, and a batch has
   one entry for each range at most (read_register_values). *)
TypeOK ==
  /\ Sim!TypeOK
  /\ Ing!TypeOK
  /\ generation \in 0 .. MaxGenerations
  /\ sample \in Seq(Entry)
  /\ Len(sample) <= NumRanges
  /\ sampleTime \in Nat
  /\ stored \in Seq(Entry)

\* The whole batch has been read and not been sent off yet.
BatchReady == pc = "write"

OfOneProcess(entries) ==
  \A i, j \in DOMAIN entries : entries[i].generation = entries[j].generation

\* Hours the simulator can go through while one cycle reads.
MaxSpread == CycleBudget \div SimInterval + 1

(* A batch is not a snapshot: its ranges may come from different hours.  How
   far apart they can be is bounded by the duration of a cycle, not by the
   number of reads or of other clients: in the order of the reads the hours
   never go back and go forward by MaxSpread at most.  (read_register_values
   against refresh.) *)
BatchSpread ==
  (BatchReady /\ OfOneProcess(sample)) =>
    /\ \A i \in 1 .. NumRanges - 1 : sample[i].step <= sample[i + 1].step
    /\ sample[NumRanges].step - sample[1].step <= MaxSpread

(* The timestamp of a batch is honest to within a simulation interval and a
   cycle: no point was simulated earlier than that before it, though every
   point carries the time of the last read.  (telemetry_points) *)
TimestampHonest ==
  BatchReady =>
    \A i \in DOMAIN sample : sampleTime - sample[i].at < SimInterval + CycleBudget

(* The series InfluxDB holds never goes back in the replay while one
   simulator process serves it: no read of a batch is older than any read
   of the batch stored before, whichever cycles failed in between. *)
StoredInOrder ==
  (BatchReady /\ stored # << >> /\ OfOneProcess(sample \o stored)) =>
    \A i \in DOMAIN stored, j \in DOMAIN sample : stored[i].step <= sample[j].step
=============================================================================
