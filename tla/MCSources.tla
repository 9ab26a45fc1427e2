----------------------------- MODULE MCSources -----------------------------
(***************************************************************************)
(* The sources of telemetry for TLC: the power simulator's state, the fake *)
(* source's server and the fake source's snapshots.  They are three models *)
(* that share no variable, of which a behaviour is one.                    *)
(***************************************************************************)
EXTENDS PowerSim, FakeSource, FakeSnapshot

\* A day's end and an hour that cannot be encoded.
MCStartHours == {21, 22, 2}
MCBadHours == {2}

MCRipples == {-1500 * MicroPu, 0, 1500 * MicroPu}

VARIABLE part   \* "power_sim", "server" or "snapshot", for good

mcVars == <<part, vars, sourceVars, snapshotVars>>

\* A part that does not run stays in one of its initial states.
SimIdle == startHour = 2 /\ Init
SnapshotIdle == load = 480 /\ pv = 0 /\ SnapshotInit

MCInit ==
  \/ part = "power_sim" /\ Init /\ SourceInit /\ SnapshotIdle
  \/ part = "server" /\ SimIdle /\ SourceInit /\ SnapshotIdle
  \/ part = "snapshot" /\ SimIdle /\ SourceInit /\ SnapshotInit

MCNext ==
  \/ part = "power_sim" /\ Next /\ UNCHANGED <<part, sourceVars, snapshotVars>>
  \/ part = "server" /\ SourceNext /\ UNCHANGED <<part, vars, snapshotVars>>
  \/ part = "snapshot" /\ SnapshotNext /\ UNCHANGED <<part, vars, sourceVars>>

MCSpec ==
  /\ MCInit /\ [][MCNext]_mcVars
  /\ part = "server" => SourceFairness
=============================================================================
