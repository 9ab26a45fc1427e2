---------------------------- MODULE Configuration ----------------------------
(***************************************************************************)
(* The settings the services take from their environment (config.py of     *)
(* both ingestors, ServerConfig.from_env of the simulator), what they      *)
(* accept, and what a loop and a healthcheck make of what was accepted.    *)
(*                                                                         *)
(* The text of a variable is a kind and, if it is a number, its value.     *)
(* Python's float() reads "nan" and "inf" as numbers, its int() does not.  *)
(* "infinite" also stands for a finite number too large for a clock, such  *)
(* as 1e300: it is accepted, sleep and the sockets refuse it like inf.     *)
(* Settings that are any text (hosts, URLs, names) are left out.           *)
(***************************************************************************)
EXTENDS Integers

CONSTANTS
    Ports,      \* the numbers considered for a port,
    Units,      \* a unit id,
    Flags,      \* an attack flag,
    Hours,      \* a start hour,
    Seconds     \* an interval and a time-out

ASSUME ConfigurationAssumption ==
  /\ Ports \subseteq Int /\ Units \subseteq Int /\ Flags \subseteq Int
  /\ Hours \subseteq Int /\ Seconds \subseteq Int

Services == {"modbus_ingestor", "fake_source", "fake_ingestor", "power_sim"}

Odd(kind) == [kind |-> kind, value |-> 0]
Number(n) == [kind |-> "number", value |-> n]

\* What os.getenv may return, given the numbers to consider.
Texts(numbers) ==
  {Odd(k) : k \in {"absent", "empty", "word", "nan", "infinite"}}
    \union {Number(n) : n \in numbers}

Unset == [mode |-> "absent", scenario |-> "absent", port |-> Odd("absent"),
          unit |-> Odd("absent"), flag |-> Odd("absent"), hour |-> Odd("absent"),
          interval |-> Odd("absent"), timeout |-> Odd("absent")]

\* The variables each service reads.
Read(s) ==
  CASE s = "modbus_ingestor" -> {"mode", "unit", "port", "flag", "interval", "timeout"}
    [] s = "fake_source" -> {"port"}
    [] s = "fake_ingestor" -> {"interval", "timeout"}
    [] s = "power_sim" -> {"port", "unit", "hour", "interval", "scenario"}

\* What a variable may hold: the mode and the scenario by name.
SettingValues(k) ==
  CASE k = "mode" -> {"absent", "fixture", "tcp", "word"}
    [] k = "scenario" -> {"absent", "known", "word"}
    [] k = "port" -> Texts(Ports)
    [] k = "unit" -> Texts(Units)
    [] k = "flag" -> Texts(Flags)
    [] k = "hour" -> Texts(Hours)
    [] k \in {"interval", "timeout"} -> Texts(Seconds)

\* Environments that set what the service reads and nothing else.
Environments(s) ==
  LET Of(k) == IF k \in Read(s) THEN SettingValues(k) ELSE {Unset[k]}
  IN  [mode : Of("mode"), scenario : Of("scenario"), port : Of("port"), unit : Of("unit"),
       flag : Of("flag"), hour : Of("hour"), interval : Of("interval"),
       timeout : Of("timeout")]

VARIABLES
    service,
    env,       \* the environment of its container
    phase,        \* "boot", "refused" (ValueError), "cycle", "sleep", "ended"
               \* (by its sleep) or "stopped"
    stamped,   \* whether the status file was ever written
    probe      \* the last healthcheck: "none", "healthy", "unhealthy"

configVars == <<service, env, phase, stamped, probe>>

-----------------------------------------------------------------------------
(* The parsers: whether they return                                        *)

InRange(text, numbers) == text.kind = "number" /\ text.value \in numbers

\* _int, and int() in the simulator
IntAccepted(text) == text.kind \in {"absent", "number"}

\* _port, _get_port
PortAccepted(text) ==
  text.kind = "absent" \/ InRange(text, 1 .. 65535)

\* _optional_int followed by a check of its range
OptionalAccepted(text, values) ==
  text.kind \in {"absent", "empty"} \/ InRange(text, values)

\* _positive_float: value <= 0 holds neither of inf nor of nan.
PositiveAccepted(text) ==
  text.kind \in {"absent", "nan", "infinite"} \/ (text.kind = "number" /\ text.value > 0)

\* from_env of each service
Accepted(s, e) ==
  CASE s = "modbus_ingestor" ->
         /\ e.mode # "word"
         /\ OptionalAccepted(e.unit, 1 .. 247)
         /\ PortAccepted(e.port)
         /\ OptionalAccepted(e.flag, {0, 1})
         /\ PositiveAccepted(e.interval)
         /\ PositiveAccepted(e.timeout)
    [] s = "fake_source" -> PortAccepted(e.port)
    [] s = "fake_ingestor" -> PositiveAccepted(e.interval) /\ PositiveAccepted(e.timeout)
    [] s = "power_sim" ->
         /\ PortAccepted(e.port)
         /\ IntAccepted(e.unit) /\ (e.unit.kind = "number" => e.unit.value \in 1 .. 247)
         /\ IntAccepted(e.hour)
         /\ PositiveAccepted(e.interval)
         /\ e.scenario # "word"

-----------------------------------------------------------------------------
(* A service with what it accepted                                         *)

Ingestors == {"modbus_ingestor", "fake_ingestor"}

ConfigInit ==
  /\ service \in Services
  /\ env \in Environments(service)
  /\ phase = "boot"
  /\ stamped = FALSE
  /\ probe = "none"

\* from_env: a ValueError is not caught and ends the process.
Configure ==
  /\ phase = "boot"
  /\ phase' = IF Accepted(service, env) THEN "cycle" ELSE "refused"
  /\ UNCHANGED <<service, env, stamped, probe>>

\* The sockets take no time-out that is not finite.
CanSucceed == env.timeout.kind \notin {"nan", "infinite"}

\* A cycle of an ingestor's loop: it stamps the file or its exception is logged.
CycleDone ==
  /\ service \in Ingestors
  /\ phase = "cycle"
  /\ phase' = "sleep"
  /\ stamped' \in IF CanSucceed THEN {stamped, TRUE} ELSE {stamped}
  /\ UNCHANGED <<service, env, probe>>

\* time.sleep(max(interval - elapsed, 0.2)), outside the try: max keeps a
\* nan or an inf in its first place, and sleep raises for either.
Sleep ==
  /\ phase = "sleep"
  /\ phase' = IF env.interval.kind \in {"nan", "infinite"} THEN "ended" ELSE "cycle"
  /\ UNCHANGED <<service, env, stamped, probe>>

\* A signal, or the container's end.
Stop ==
  /\ phase \in {"cycle", "sleep"}
  /\ phase' = "stopped"
  /\ UNCHANGED <<service, env, stamped, probe>>

\* The container is restarted with the same environment.
Restart ==
  /\ phase \in {"refused", "ended", "stopped"}
  /\ phase' = "boot"
  /\ UNCHANGED <<service, env, stamped, probe>>

\* Mutant of Patience: max(20.0, interval * 4), which drops a nan.
PatienceDroppingNan == IF env.interval.kind = "infinite" THEN "ever" ELSE "while"

\* max(interval * 4, 20.0): how long a stamp is good for.
Patience ==
  CASE env.interval.kind = "nan" -> "never"
    [] env.interval.kind = "infinite" -> "ever"
    [] OTHER -> "while"

\* healthcheck and healthcheck_ingestor, which read the environment again.
Probe ==
  /\ service \in Ingestors
  /\ phase \notin {"refused", "ended", "stopped"}
  /\ probe' \in
       IF ~Accepted(service, env) \/ ~stamped \/ Patience = "never" THEN {"unhealthy"}
       ELSE IF Patience = "ever" THEN {"healthy"} ELSE {"healthy", "unhealthy"}
  /\ UNCHANGED <<service, env, phase, stamped>>

ConfigNext == Configure \/ CycleDone \/ Sleep \/ Stop \/ Restart \/ Probe

ConfigSpec == ConfigInit /\ [][ConfigNext]_configVars

-----------------------------------------------------------------------------
(* A service's state has its type; settings it does not read are unset. *)
ConfigTypeOK ==
  /\ service \in Services
  /\ env \in Environments(service)
  /\ phase \in {"boot", "refused", "cycle", "sleep", "ended", "stopped"}
  /\ stamped \in BOOLEAN
  /\ probe \in {"none", "healthy", "unhealthy"}

(* A healthcheck passes only for a configuration that can deliver: it never
   calls an ingestor healthy whose time-out fails every cycle or whose
   interval is no number.  (healthcheck's max_age_seconds, run_loop.) *)
HealthyMeansUsable ==
  probe = "healthy" => Accepted(service, env) /\ CanSucceed /\ env.interval.kind # "nan"

(* "must be greater than zero", says the error message of _positive_float:
   a loop that has begun sleeps between its cycles and goes on. *)
LoopOutlivesItsSleep == phase # "ended"
=============================================================================
