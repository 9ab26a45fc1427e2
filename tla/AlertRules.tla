----------------------------- MODULE AlertRules -----------------------------
(***************************************************************************)
(* The three alert rules Grafana evaluates over the stored telemetry       *)
(* (infra/local/grafana/provisioning/alerting/gridguard.yml): how far each *)
(* one looks back, how long its condition must last, and what it makes of  *)
(* no rows and of an error.                                                *)
(*                                                                         *)
(* Grafana's scheduler and its state machine of a rule are external, and   *)
(* InfluxDB is.  Time is counted in intervals of evaluation: a row of age  *)
(* k at an evaluation is between k - 1 and k intervals old.  The writers   *)
(* write when they like; what they write may be an interval late.          *)
(***************************************************************************)
EXTENDS Integers, FiniteSets

CONSTANTS
    Writers,      \* the ingestors that write telemetry rows
    FlagWindow,   \* range(start: ...) of the three rules, in intervals
    VoltageWindow,
    StaleWindow,
    VoltageFor,   \* "for" of the voltage rule and of the stale rule
    StaleFor

\* The stale rule sees a row that comes an interval late.
ASSUME AlertAssumption ==
  /\ {FlagWindow, VoltageWindow, StaleWindow, VoltageFor, StaleFor} \subseteq Nat \ {0}
  /\ StaleWindow >= 2

VARIABLES
    newest,   \* newest[w]: age of the youngest row of writer w
    flagged,  \* age of the youngest row with an attack flag
    outside,  \* age of the youngest voltage outside 0.95 to 1.05
    rule,     \* rule[r]: its state
    since,    \* since[r]: intervals since it became pending
    clean     \* evaluations without a miss or an error since the last one

rowVars == <<newest, flagged, outside>>
vars == <<rowVars, rule, since, clean>>

Rules == {"attack-flag-active", "voltage-out-of-range", "telemetry-stale"}

Larger(a, b) == IF a >= b THEN a ELSE b

\* Older than any window and any wait.
Gone == Larger(Larger(FlagWindow, VoltageWindow), StaleWindow + StaleFor + 2) + 1

Init ==
  /\ newest = [w \in Writers |-> Gone]
  /\ flagged = Gone
  /\ outside = Gone
  /\ rule = [r \in Rules |-> "Normal"]
  /\ since = [r \in Rules |-> 0]
  /\ clean = 0

-----------------------------------------------------------------------------
(* The rows                                                                *)

Younger(a, b) == IF a <= b THEN a ELSE b

\* The batch of a cycle: its rows carry the time it was read at.
Write(w, late, flag, outlier) ==
  LET a == IF late THEN 1 ELSE 0
  IN  /\ newest' = [newest EXCEPT ![w] = Younger(a, newest[w])]
      /\ flagged' = IF flag THEN Younger(a, flagged) ELSE flagged
      /\ outside' = IF outlier THEN Younger(a, outside) ELSE outside
      /\ UNCHANGED <<rule, since, clean>>

Older(a) == IF a < Gone THEN a + 1 ELSE Gone

RowsAge ==
  /\ newest' = [w \in Writers |-> Older(newest[w])]
  /\ flagged' = Older(flagged)
  /\ outside' = Older(outside)

-----------------------------------------------------------------------------
(* A rule's evaluation                                                     *)

\* group() puts the rows of all sources in one table.
AnyRow(window) == \E w \in Writers : newest'[w] <= window

\* Mutant of LooksBack: the voltage rule, no further than it has to wait.
LooksBackToWait(r) ==
  CASE r = "attack-flag-active" -> FlagWindow
    [] r = "voltage-out-of-range" -> VoltageFor
    [] r = "telemetry-stale" -> StaleWindow

\* range(start: ...)
LooksBack(r) ==
  CASE r = "attack-flag-active" -> FlagWindow
    [] r = "voltage-out-of-range" -> VoltageWindow
    [] r = "telemetry-stale" -> StaleWindow

\* The evaluators: a maximum above 0 (the number of voltages outside, the
\* flag), a count below 1.
Holds(r) ==
  CASE r = "attack-flag-active" -> flagged' <= LooksBack(r)
    [] r = "voltage-out-of-range" -> outside' <= LooksBack(r)
    [] r = "telemetry-stale" -> ~AnyRow(LooksBack(r))

\* max() and count() of no rows give no row to evaluate: that a count is below
\* 1 is never seen, and the stale rule rests on its noDataState.
Outcome(r) ==
  IF ~AnyRow(LooksBack(r)) THEN "none" ELSE IF Holds(r) THEN "true" ELSE "false"

\* Mutant of NoDataState: the voltage rule's for the stale rule.
NoDataStateShared(r) == IF r = "attack-flag-active" THEN "OK" ELSE "NoData"

\* noDataState
NoDataState(r) ==
  CASE r = "attack-flag-active" -> "OK"
    [] r = "voltage-out-of-range" -> "NoData"
    [] r = "telemetry-stale" -> "Alerting"

\* for
For(r) ==
  CASE r = "attack-flag-active" -> 0
    [] r = "voltage-out-of-range" -> VoltageFor
    [] r = "telemetry-stale" -> StaleFor

\* The result a rule is stepped with: no data stands for what it is told to.
Result(r) ==
  IF Outcome(r) # "none" THEN Outcome(r)
  ELSE CASE NoDataState(r) = "OK" -> "false"
         [] NoDataState(r) = "NoData" -> "NoData"
         [] NoDataState(r) = "Alerting" -> "true"

\* Mutant of FailedState: execErrState of an outage.
FailedStateAlerting(r) == "Alerting"

\* execErrState: Error, which ends a pending wait.
FailedState(r) == "Error"

\* How long a rule has been pending by now.
Waited(r) == IF rule[r] = "Pending" THEN since[r] + 1 ELSE 0

\* A rule whose condition holds alerts once it has been pending long enough.
RuleNext(r, failing) ==
  IF r \in failing THEN FailedState(r)
  ELSE IF Result(r) = "true"
    THEN IF rule[r] = "Alerting" \/ Waited(r) >= For(r) THEN "Alerting" ELSE "Pending"
  ELSE IF Result(r) = "NoData" THEN "NoData" ELSE "Normal"

LongEnough == Larger(VoltageFor, StaleFor) + 1

\* An evaluation of the group; the queries of some rules may fail.
Evaluate(failing) ==
  /\ RowsAge
  /\ rule' = [r \in Rules |-> RuleNext(r, failing)]
  /\ since' = [r \in Rules |-> IF rule'[r] = "Pending" THEN Waited(r) ELSE 0]
  /\ clean' = IF failing # {} THEN 0 ELSE Younger(clean + 1, LongEnough)

\* Grafana is down or behind and misses an evaluation; a wait goes on.
Skip ==
  /\ RowsAge
  /\ since' = [r \in Rules |-> IF rule[r] = "Pending" THEN Younger(since[r] + 1, For(r)) ELSE 0]
  /\ clean' = 0
  /\ UNCHANGED rule

Next ==
  \/ \E w \in Writers, late, flag, outlier \in BOOLEAN : Write(w, late, flag, outlier)
  \/ \E failing \in SUBSET Rules : Evaluate(failing)
  \/ Skip

Spec == Init /\ [][Next]_vars

-----------------------------------------------------------------------------
(* The rules' state has its type, and none waits longer than its "for" (the
   rules of gridguard.yml). *)
TypeOK ==
  /\ newest \in [Writers -> 0 .. Gone]
  /\ flagged \in 0 .. Gone /\ outside \in 0 .. Gone
  /\ rule \in [Rules -> {"Normal", "Pending", "Alerting", "NoData", "Error"}]
  /\ \A r \in Rules : since[r] \in 0 .. For(r)
  /\ clean \in 0 .. LongEnough

(* A single voltage outside the envelope alerts before it leaves the window:
   the wait of the rule fits between the evaluation that may first see a late
   row and the last that sees it, once the evaluations have not failed for
   that long.  (voltage-out-of-range: range, for and the group's interval) *)
OutlierAlerts ==
  clean > VoltageFor /\ outside \in VoltageFor + 2 .. VoltageWindow =>
    rule["voltage-out-of-range"] = "Alerting"

(* Without rows for the window and the wait and one evaluation more, the
   stale rule alerts.  (telemetry-stale: noDataState, for) *)
SilenceAlerts ==
  /\ clean > StaleFor
  /\ \A w \in Writers : newest[w] > StaleWindow + StaleFor
  => rule["telemetry-stale"] = "Alerting"

(* The stale rule "detects a missing stream" (docs/02-architecture.md): a
   writer whose rows were there and have been missing for the window and the
   wait raises it, whatever the other writers do.  (telemetry-stale: group()) *)
MissingStreamAlerts ==
  clean > StaleFor /\ (\E w \in Writers : newest[w] \in StaleWindow + StaleFor + 1 .. Gone - 1)
    => rule["telemetry-stale"] = "Alerting"

(* The stale rule never alerts while rows arrive, whatever fails; and if no
   evaluation was missed only after a silence of the window and the wait: a
   restart of an ingestor or of InfluxDB that is shorter never does.
   (telemetry-stale: range, for, execErrState) *)
NoFalseStale ==
  [][rule["telemetry-stale"] # "Alerting" /\ rule'["telemetry-stale"] = "Alerting" =>
       \A w \in Writers :
         newest'[w] > IF clean' > StaleFor THEN StaleWindow + StaleFor ELSE StaleWindow]_vars
=============================================================================
