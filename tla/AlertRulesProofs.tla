-------------------------- MODULE AlertRulesProofs --------------------------
(***************************************************************************)
(* What holds of the alert rules for any set of writers, any windows and   *)
(* any waits.                                                              *)
(***************************************************************************)
EXTENDS AlertRules, TLAPS

Attack == "attack-flag-active"
Voltage == "voltage-out-of-range"
Stale == "telemetry-stale"

LEMMA GoneFacts ==
  /\ Gone \in Nat
  /\ Gone > FlagWindow /\ Gone > VoltageWindow /\ Gone > StaleWindow + StaleFor + 2
  /\ LongEnough \in Nat /\ LongEnough > VoltageFor /\ LongEnough > StaleFor
  BY AlertAssumption DEF Gone, LongEnough, Larger

LEMMA OlderAge ==
  ASSUME NEW a \in 0 .. Gone
  PROVE  /\ Older(a) \in 0 .. Gone
         /\ Older(a) = IF a < Gone THEN a + 1 ELSE Gone
         /\ Older(a) > 0
  BY GoneFacts, AlertAssumption DEF Older

\* The waits and states a rule can have.
States == {"Normal", "Pending", "Alerting", "NoData", "Error"}

LEMMA ForNat == \A r \in Rules : For(r) \in Nat
  BY AlertAssumption DEF Rules, For

LEMMA RuleNextState ==
  ASSUME NEW r \in Rules, NEW failing \in SUBSET Rules
  PROVE  RuleNext(r, failing) \in States
  BY DEF RuleNext, Result, Outcome, NoDataState, FailedState, Rules, States

LEMMA TypeInit == Init => TypeOK
  BY GoneFacts, ForNat DEF Init, TypeOK

LEMMA TypeStep == TypeOK /\ [Next]_vars => TypeOK'
<1> SUFFICES ASSUME TypeOK, [Next]_vars
             PROVE  TypeOK'
  OBVIOUS
<1> USE DEF TypeOK
<1>1. CASE \E w \in Writers, late, flag, outlier \in BOOLEAN : Write(w, late, flag, outlier)
  <2>1. PICK w \in Writers, late, flag, outlier \in BOOLEAN : Write(w, late, flag, outlier)
    BY <1>1
  <2> DEFINE a == IF late THEN 1 ELSE 0
  <2>2. a \in 0 .. Gone
    BY GoneFacts, AlertAssumption
  <2>3. \A b \in 0 .. Gone : Younger(a, b) \in 0 .. Gone
    BY <2>2 DEF Younger
  <2> HIDE DEF a
  <2>4. newest' = [newest EXCEPT ![w] = Younger(a, newest[w])]
    BY <2>1 DEF Write, a
  <2>5. flagged' \in 0 .. Gone /\ outside' \in 0 .. Gone /\ UNCHANGED <<rule, since, clean>>
    BY <2>1, <2>3 DEF Write, a
  <2> QED
    BY <2>3, <2>4, <2>5
<1>2. CASE \E failing \in SUBSET Rules : Evaluate(failing)
  <2>1. PICK failing \in SUBSET Rules : Evaluate(failing)
    BY <1>2
  <2>2. newest' \in [Writers -> 0 .. Gone] /\ flagged' \in 0 .. Gone /\ outside' \in 0 .. Gone
    BY <2>1, OlderAge DEF Evaluate, RowsAge
  <2>3. rule' \in [Rules -> States]
    BY <2>1, RuleNextState DEF Evaluate
  <2>4. ASSUME NEW r \in Rules
        PROVE  since'[r] \in 0 .. For(r)
    <3>1. For(r) \in Nat /\ since[r] \in 0 .. For(r)
      BY ForNat
    <3>2. since'[r] = IF rule'[r] = "Pending" THEN Waited(r) ELSE 0
      BY <2>1 DEF Evaluate
    <3>3. rule'[r] = RuleNext(r, failing)
      BY <2>1 DEF Evaluate
    <3>4. rule'[r] = "Pending" => ~(Waited(r) >= For(r))
      BY <3>3 DEF RuleNext, FailedState
    <3>5. Waited(r) \in Nat
      BY <3>1 DEF Waited
    <3> QED
      BY <3>1, <3>2, <3>4, <3>5
  <2>5. clean' \in 0 .. LongEnough
    BY <2>1, GoneFacts DEF Evaluate, Younger
  <2> QED
    BY <2>2, <2>3, <2>4, <2>5 DEF States
<1>3. CASE Skip
  <2>1. newest' \in [Writers -> 0 .. Gone] /\ flagged' \in 0 .. Gone /\ outside' \in 0 .. Gone
    BY <1>3, OlderAge DEF Skip, RowsAge
  <2>2. ASSUME NEW r \in Rules
        PROVE  since'[r] \in 0 .. For(r)
    BY <1>3, ForNat DEF Skip, Younger
  <2> QED
    BY <1>3, <2>1, <2>2, GoneFacts DEF Skip
<1>4. CASE UNCHANGED vars
  BY <1>4 DEF vars, rowVars
<1> QED
  BY <1>1, <1>2, <1>3, <1>4 DEF Next

(* The rules' state has its type: no wait outlasts its "for". *)
THEOREM AlertTypes == Spec => []TypeOK
  BY TypeInit, TypeStep, PTL DEF Spec

-----------------------------------------------------------------------------
(* What a rule was given at the evaluations since the last one that was    *)
(* missed or failed.                                                       *)

\* An outlier belongs to a batch: no row is older than the youngest row.
RowsHaveWriters ==
  outside < Gone => \E w \in Writers : newest[w] <= outside

\* A rule that an evaluation has left pending has not waited long enough.
PendingWaits == \A r \in Rules : clean >= 1 /\ rule[r] = "Pending" => since[r] < For(r)

\* Pending for at least n evaluations after the first, or alerting.
Since(r, n) == rule[r] = "Alerting" \/ (rule[r] = "Pending" /\ since[r] >= n)

\* The last k evaluations have seen the outlier.
VoltageSeen ==
  \A k \in 1 .. VoltageFor + 1 :
    clean >= k /\ outside > k /\ outside <= VoltageWindow => Since(Voltage, k - 1)

\* The last k evaluations have seen no row.
SilenceSeen ==
  \A k \in 1 .. StaleFor + 1 :
    clean >= k /\ (\A w \in Writers : newest[w] >= StaleWindow + k) => Since(Stale, k - 1)

\* The stale rule has been pending for silence only, or the next evaluation
\* will see a row.
PendingSilent ==
  rule[Stale] = "Pending" /\ clean > since[Stale] =>
    \/ \A w \in Writers : newest[w] > StaleWindow + since[Stale]
    \/ \E w \in Writers : newest[w] <= 1

IInv ==
  TypeOK /\ RowsHaveWriters /\ PendingWaits /\ VoltageSeen /\ SilenceSeen /\ PendingSilent

LEMMA InvInit == Init => IInv
<1> SUFFICES ASSUME Init
             PROVE  IInv
  OBVIOUS
<1>1. TypeOK
  BY TypeInit
<1>2. \A r \in Rules : rule[r] = "Normal"
  BY DEF Init
<1>3. clean = 0 /\ outside = Gone
  BY DEF Init
<1> QED
  BY <1>1, <1>2, <1>3, GoneFacts
  DEF IInv, RowsHaveWriters, PendingWaits, VoltageSeen, SilenceSeen, PendingSilent, Stale, Rules

\* What writing a batch does to the ages.
LEMMA WriteAges ==
  ASSUME TypeOK, NEW w \in Writers, NEW late \in BOOLEAN, NEW flag \in BOOLEAN,
         NEW outlier \in BOOLEAN, Write(w, late, flag, outlier)
  PROVE  /\ UNCHANGED <<rule, since, clean>>
         /\ \A v \in Writers : newest'[v] <= newest[v]
         /\ newest'[w] <= 1
         /\ \A v \in Writers \ {w} : newest'[v] = newest[v]
         /\ \/ outside' = outside
            \/ outside' <= 1 /\ newest'[w] <= outside'
<1> DEFINE a == IF late THEN 1 ELSE 0
<1>1. a \in {0, 1} /\ newest[w] \in Int /\ outside \in Int
  BY GoneFacts DEF TypeOK
<1>2. newest' = [newest EXCEPT ![w] = Younger(a, newest[w])]
  BY DEF Write
<1>3. outside' = IF outlier THEN Younger(a, outside) ELSE outside
  BY DEF Write
<1> HIDE DEF a
<1>4. /\ newest'[w] = Younger(a, newest[w])
      /\ \A v \in Writers \ {w} : newest'[v] = newest[v]
  BY <1>2 DEF TypeOK
<1>5. /\ Younger(a, newest[w]) <= a /\ Younger(a, newest[w]) <= newest[w]
      /\ Younger(a, newest[w]) \in Int
      /\ Younger(a, outside) \in {a, outside}
  BY <1>1 DEF Younger
<1>6. \A v \in Writers : newest'[v] <= newest[v]
  BY <1>4, <1>5, GoneFacts DEF TypeOK
<1> QED
  BY <1>1, <1>3, <1>4, <1>5, <1>6 DEF Write

\* What the passing of an interval does to them.
LEMMA RowAges ==
  ASSUME TypeOK, RowsAge
  PROVE  /\ \A w \in Writers :
              newest'[w] = IF newest[w] < Gone THEN newest[w] + 1 ELSE Gone
         /\ outside' = IF outside < Gone THEN outside + 1 ELSE Gone
  BY OlderAge DEF TypeOK, RowsAge

LEMMA WritersKept == IInv /\ [Next]_vars => RowsHaveWriters'
<1> SUFFICES ASSUME IInv, [Next]_vars
             PROVE  RowsHaveWriters'
  OBVIOUS
<1> USE GoneFacts DEF IInv, RowsHaveWriters, TypeOK
<1>1. CASE \E w \in Writers, late, flag, outlier \in BOOLEAN : Write(w, late, flag, outlier)
  <2>1. PICK w \in Writers, late, flag, outlier \in BOOLEAN : Write(w, late, flag, outlier)
    BY <1>1
  <2>2. /\ \A v \in Writers : newest'[v] <= newest[v]
        /\ \/ outside' = outside
           \/ newest'[w] <= outside'
    BY <2>1, WriteAges
  <2>3. CASE outside' = outside /\ outside < Gone
    <3>1. PICK v \in Writers : newest[v] <= outside
      BY <2>3
    <3>2. newest'[v] <= newest[v] /\ newest[v] \in Int /\ newest'[v] \in Int
      BY <2>2, TypeStep
    <3> QED
      BY <2>3, <3>1, <3>2
  <2> QED
    BY <2>2, <2>3
<1>2. CASE RowsAge
  <2>1. SUFFICES ASSUME outside' < Gone
                 PROVE  \E w \in Writers : newest'[w] <= outside'
    OBVIOUS
  <2>2. outside < Gone /\ outside' = outside + 1
    BY <1>2, <2>1, RowAges
  <2>3. PICK w \in Writers : newest[w] <= outside
    BY <2>2
  <2>4. newest'[w] = newest[w] + 1
    BY <1>2, <2>2, <2>3, RowAges
  <2> QED
    BY <2>2, <2>3, <2>4
<1>3. CASE UNCHANGED vars
  BY <1>3 DEF vars, rowVars
<1> QED
  BY <1>1, <1>2, <1>3 DEF Next, Evaluate, Skip

\* A step of a rule, taken apart.
LEMMA RuleStep ==
  ASSUME TypeOK, NEW failing \in SUBSET Rules, Evaluate(failing), NEW r \in Rules
  PROVE  /\ rule'[r] = RuleNext(r, failing)
         /\ since'[r] = IF rule'[r] = "Pending" THEN Waited(r) ELSE 0
         /\ Waited(r) \in Nat /\ For(r) \in Nat
         /\ rule'[r] = "Pending" => Waited(r) < For(r)
         /\ clean' >= 1 => r \notin failing /\ clean' <= clean + 1
<1>1. rule'[r] = RuleNext(r, failing) /\ since'[r] = IF rule'[r] = "Pending" THEN Waited(r) ELSE 0
  BY DEF Evaluate
<1>2. Waited(r) \in Nat /\ For(r) \in Nat
  BY ForNat DEF Waited, TypeOK
<1>3. rule'[r] = "Pending" => Waited(r) < For(r)
  BY <1>1, <1>2 DEF RuleNext, FailedState
<1>4. clean' >= 1 => r \notin failing /\ clean' <= clean + 1
  BY GoneFacts DEF Evaluate, Younger, TypeOK
<1> QED
  BY <1>1, <1>2, <1>3, <1>4

LEMMA WaitsKept == IInv /\ [Next]_vars => PendingWaits'
<1> SUFFICES ASSUME IInv, [Next]_vars
             PROVE  PendingWaits'
  OBVIOUS
<1> USE DEF IInv, PendingWaits
<1>1. CASE \E failing \in SUBSET Rules : Evaluate(failing)
  BY <1>1, RuleStep DEF For
<1>2. CASE Skip
  BY <1>2 DEF Skip
<1>3. CASE UNCHANGED <<rule, since, clean>>
  BY <1>3 DEF For
<1> QED
  BY <1>1, <1>2, <1>3 DEF Next, Write, vars

\* A condition that held before and holds again is waited for on.
LEMMA WaitsOn ==
  ASSUME TypeOK, NEW failing \in SUBSET Rules, Evaluate(failing), NEW r \in Rules,
         clean' >= 1, Result(r) = "true", NEW n \in Nat,
         n = 0 \/ Since(r, n - 1)
  PROVE  Since(r, n)'
<1>1. rule'[r] = IF rule[r] = "Alerting" \/ Waited(r) >= For(r) THEN "Alerting" ELSE "Pending"
  BY RuleStep DEF RuleNext
<1>2. rule[r] = "Pending" => Waited(r) = since[r] + 1
  BY DEF Waited
<1>3. since[r] \in Nat
  BY ForNat DEF TypeOK
<1> QED
  BY <1>1, <1>2, <1>3, RuleStep DEF Since

LEMMA VoltageKept == IInv /\ [Next]_vars => VoltageSeen'
<1> SUFFICES ASSUME IInv, [Next]_vars,
                    NEW k \in 1 .. VoltageFor + 1,
                    clean' >= k, outside' > k, outside' <= VoltageWindow
             PROVE  Since(Voltage, k - 1)'
  BY DEF VoltageSeen
<1>0. /\ TypeOK /\ k \in Nat /\ k >= 1 /\ VoltageFor \in Nat /\ VoltageWindow \in Nat
      /\ clean \in Nat /\ clean' \in Nat
      /\ outside \in 0 .. Gone /\ outside' \in 0 .. Gone
  BY AlertAssumption, GoneFacts, TypeStep DEF IInv, TypeOK
<1>1. CASE \E w \in Writers, late, flag, outlier \in BOOLEAN : Write(w, late, flag, outlier)
  <2>1. UNCHANGED <<rule, since, clean>> /\ (outside' = outside \/ outside' <= 1)
    BY <1>0, <1>1, WriteAges
  <2>2. outside' = outside
    BY <1>0, <2>1
  <2> QED
    BY <2>1, <2>2 DEF IInv, VoltageSeen, Since
<1>2. CASE \E failing \in SUBSET Rules : Evaluate(failing)
  <2>1. PICK failing \in SUBSET Rules : Evaluate(failing)
    BY <1>2
  <2>2. Voltage \in Rules /\ clean' >= 1 /\ clean >= k - 1
    <3>1. Voltage \in Rules /\ clean' >= 1
      BY <1>0 DEF Voltage, Rules
    <3>2. clean' <= clean + 1
      BY <1>0, <2>1, <3>1, RuleStep
    <3> QED
      BY <1>0, <3>1, <3>2
  <2>3. outside < Gone /\ outside' = outside + 1
    BY <1>0, <2>1, RowAges, GoneFacts DEF Evaluate
  <2>4. Result(Voltage) = "true"
    <3>1. PICK w \in Writers : newest'[w] <= outside'
      BY <1>0, <2>3, WritersKept, GoneFacts DEF RowsHaveWriters
    <3>2. newest'[w] <= VoltageWindow
      BY <1>0, <2>3, <3>1, TypeStep, AlertAssumption, GoneFacts DEF TypeOK
    <3> QED
      BY <3>2 DEF Result, Outcome, AnyRow, Holds, LooksBack, Voltage
  <2>5. k - 1 = 0 \/ Since(Voltage, k - 1 - 1)
    <3>1. CASE k >= 2
      <4>1. k - 1 \in 1 .. VoltageFor + 1
        BY <1>0, <3>1
      <4> QED
        BY <1>0, <2>2, <2>3, <4>1, AlertAssumption DEF IInv, VoltageSeen
    <3> QED
      BY <1>0, <3>1
  <2> QED
    BY <1>0, <2>1, <2>2, <2>4, <2>5, WaitsOn
<1>3. CASE Skip
  BY <1>0, <1>3 DEF Skip
<1>4. CASE UNCHANGED vars
  BY <1>4 DEF vars, rowVars, IInv, VoltageSeen, Since
<1> QED
  BY <1>1, <1>2, <1>3, <1>4 DEF Next

LEMMA SilenceKept == IInv /\ [Next]_vars => SilenceSeen'
<1> SUFFICES ASSUME IInv, [Next]_vars,
                    NEW k \in 1 .. StaleFor + 1,
                    clean' >= k, \A w \in Writers : newest'[w] >= StaleWindow + k
             PROVE  Since(Stale, k - 1)'
  BY DEF SilenceSeen
<1>0. /\ TypeOK /\ k \in Nat /\ k >= 1 /\ clean \in Nat /\ clean' \in Nat
      /\ StaleFor \in Nat /\ StaleWindow \in Nat /\ Gone \in Nat
      /\ \A w \in Writers : newest[w] \in 0 .. Gone /\ newest'[w] \in 0 .. Gone
  BY AlertAssumption, GoneFacts, TypeStep DEF IInv, TypeOK
<1>1. CASE \E w \in Writers, late, flag, outlier \in BOOLEAN : Write(w, late, flag, outlier)
  <2>1. UNCHANGED <<rule, since, clean>> /\ \A w \in Writers : newest'[w] <= newest[w]
    BY <1>0, <1>1, WriteAges
  <2>2. \A w \in Writers : newest[w] >= StaleWindow + k
    BY <1>0, <2>1
  <2> QED
    BY <2>1, <2>2 DEF IInv, SilenceSeen, Since
<1>2. CASE \E failing \in SUBSET Rules : Evaluate(failing)
  <2>1. PICK failing \in SUBSET Rules : Evaluate(failing)
    BY <1>2
  <2>2. Stale \in Rules /\ clean' >= 1 /\ clean >= k - 1
    <3>1. Stale \in Rules /\ clean' >= 1
      BY <1>0 DEF Stale, Rules
    <3>2. clean' <= clean + 1
      BY <1>0, <2>1, <3>1, RuleStep
    <3> QED
      BY <1>0, <3>1, <3>2
  <2>3. \A w \in Writers : newest[w] >= StaleWindow + (k - 1)
    BY <1>0, <2>1, RowAges, GoneFacts DEF Evaluate
  <2>4. Result(Stale) = "true"
    <3>1. ~ \E w \in Writers : newest'[w] <= StaleWindow
      BY <1>0
    <3> QED
      BY <3>1 DEF Result, Outcome, AnyRow, LooksBack, NoDataState, Stale
  <2>5. k - 1 = 0 \/ Since(Stale, k - 1 - 1)
    <3>1. CASE k >= 2
      <4>1. k - 1 \in 1 .. StaleFor + 1
        BY <1>0, <3>1
      <4> QED
        BY <1>0, <2>2, <2>3, <4>1 DEF IInv, SilenceSeen
    <3> QED
      BY <1>0, <3>1
  <2> QED
    BY <1>0, <2>1, <2>2, <2>4, <2>5, WaitsOn
<1>3. CASE Skip
  BY <1>0, <1>3 DEF Skip
<1>4. CASE UNCHANGED vars
  BY <1>4 DEF vars, rowVars, IInv, SilenceSeen, Since
<1> QED
  BY <1>1, <1>2, <1>3, <1>4 DEF Next

\* An evaluation that leaves the stale rule waiting or alerting saw no row,
\* and if the rule was waiting for silence it waits for silence still.
LEMMA StaleStep ==
  ASSUME IInv, NEW failing \in SUBSET Rules, Evaluate(failing), clean' >= 1,
         rule'[Stale] \in {"Pending", "Alerting"}
  PROVE  /\ \A w \in Writers : newest'[w] > StaleWindow
         /\ rule[Stale] = "Pending" /\ clean > since[Stale] =>
              \A w \in Writers : newest'[w] > StaleWindow + Waited(Stale)
<1>0. /\ TypeOK /\ Stale \in Rules /\ clean \in Nat
      /\ StaleFor \in Nat /\ StaleWindow \in Nat /\ StaleWindow >= 2 /\ Gone \in Nat
      /\ \A w \in Writers : newest[w] \in 0 .. Gone /\ newest'[w] \in 0 .. Gone
  BY AlertAssumption, GoneFacts, TypeStep DEF IInv, TypeOK, Rules, Stale, Next
<1>1. Result(Stale) = "true"
  BY <1>0, RuleStep DEF RuleNext
<1>2. ~ \E w \in Writers : newest'[w] <= StaleWindow
  BY <1>1 DEF Result, Outcome, AnyRow, Holds, LooksBack, Stale
<1>3. \A w \in Writers : newest'[w] > StaleWindow
  BY <1>0, <1>2
<1>4. ASSUME rule[Stale] = "Pending", clean > since[Stale]
      PROVE  \A w \in Writers : newest'[w] > StaleWindow + Waited(Stale)
  <2>1. since[Stale] \in Nat /\ since[Stale] < StaleFor /\ Waited(Stale) = since[Stale] + 1
    <3>1. since[Stale] \in 0 .. For(Stale) /\ For(Stale) = StaleFor
      BY <1>0 DEF TypeOK, For, Stale
    <3>2. since[Stale] < For(Stale)
      BY <1>0, <1>4, <3>1 DEF IInv, PendingWaits
    <3> QED
      BY <1>0, <1>4, <3>1, <3>2 DEF Waited
  <2>2. \A w \in Writers : newest'[w] = IF newest[w] < Gone THEN newest[w] + 1 ELSE Gone
    BY <1>0, RowAges DEF Evaluate
  <2>3. ~ \E w \in Writers : newest[w] <= 1
    BY <1>0, <1>3, <2>2
  <2>4. \A w \in Writers : newest[w] > StaleWindow + since[Stale]
    BY <1>4, <2>3 DEF IInv, PendingSilent
  <2> QED
    BY <1>0, <2>1, <2>2, <2>4, GoneFacts
<1> QED
  BY <1>3, <1>4

LEMMA PendingKept == IInv /\ [Next]_vars => PendingSilent'
<1> SUFFICES ASSUME IInv, [Next]_vars
             PROVE  PendingSilent'
  OBVIOUS
<1>0. TypeOK /\ Stale \in Rules /\ clean \in Nat
  BY GoneFacts DEF IInv, TypeOK, Rules, Stale
<1>1. CASE \E w \in Writers, late, flag, outlier \in BOOLEAN : Write(w, late, flag, outlier)
  <2>1. \E w \in Writers : newest'[w] <= 1
    BY <1>0, <1>1, WriteAges
  <2> QED
    BY <2>1 DEF PendingSilent
<1>2. CASE \E failing \in SUBSET Rules : Evaluate(failing)
  <2>1. PICK failing \in SUBSET Rules : Evaluate(failing)
    BY <1>2
  <2> SUFFICES ASSUME rule'[Stale] = "Pending", clean' > since'[Stale]
               PROVE  \A w \in Writers : newest'[w] > StaleWindow + since'[Stale]
    BY DEF PendingSilent
  <2>2. since'[Stale] = Waited(Stale) /\ Waited(Stale) \in Nat
    BY <1>0, <2>1, RuleStep
  <2>3. clean' >= 1 /\ clean' \in Nat
    BY <2>2, TypeStep, GoneFacts DEF IInv, TypeOK
  <2>4. clean' <= clean + 1
    BY <1>0, <2>1, <2>3, RuleStep
  <2>5. CASE rule[Stale] = "Pending"
    <3>1. Waited(Stale) = since[Stale] + 1 /\ since[Stale] \in Nat
      BY <1>0, <2>5, ForNat DEF Waited, TypeOK
    <3>2. clean > since[Stale]
      BY <1>0, <2>2, <2>3, <2>4, <3>1
    <3> QED
      BY <2>1, <2>2, <2>3, <2>5, <3>2, StaleStep
  <2>6. CASE rule[Stale] # "Pending"
    <3>1. Waited(Stale) = 0
      BY <2>6 DEF Waited
    <3>2. \A w \in Writers : newest'[w] > StaleWindow
      BY <2>1, <2>3, StaleStep
    <3> QED
      BY <2>2, <3>1, <3>2, AlertAssumption
  <2> QED
    BY <2>5, <2>6
<1>3. CASE Skip
  <2>1. clean' = 0 /\ since'[Stale] \in Nat
    BY <1>0, <1>3, TypeStep, ForNat DEF Skip, IInv, TypeOK
  <2> QED
    BY <2>1 DEF PendingSilent
<1>4. CASE UNCHANGED vars
  BY <1>4 DEF vars, rowVars, IInv, PendingSilent
<1> QED
  BY <1>1, <1>2, <1>3, <1>4 DEF Next

LEMMA InvStep == IInv /\ [Next]_vars => IInv'
  BY TypeStep, WritersKept, WaitsKept, VoltageKept, SilenceKept, PendingKept DEF IInv

-----------------------------------------------------------------------------
(* A single voltage outside the envelope alerts before it leaves the window
   (voltage-out-of-range: range, for). *)
THEOREM OutliersAlert == Spec => []OutlierAlerts
<1>1. IInv => OutlierAlerts
  <2> SUFFICES ASSUME IInv, clean > VoltageFor, outside \in VoltageFor + 2 .. VoltageWindow
               PROVE  rule[Voltage] = "Alerting"
    BY DEF OutlierAlerts, Voltage
  <2>1. /\ VoltageFor \in Nat /\ clean \in Nat /\ Voltage \in Rules
        /\ For(Voltage) = VoltageFor /\ since[Voltage] \in Nat
    BY AlertAssumption, GoneFacts DEF IInv, TypeOK, Rules, Voltage, For
  <2>2. Since(Voltage, VoltageFor + 1 - 1)
    BY <2>1, AlertAssumption DEF IInv, VoltageSeen
  <2>3. rule[Voltage] = "Pending" => since[Voltage] < VoltageFor
    BY <2>1 DEF IInv, PendingWaits
  <2> QED
    BY <2>1, <2>2, <2>3 DEF Since
<1> QED
  BY <1>1, InvInit, InvStep, PTL DEF Spec

(* Silence for the window and the wait alerts (telemetry-stale: noDataState,
   for). *)
THEOREM SilencesAlert == Spec => []SilenceAlerts
<1>1. IInv => SilenceAlerts
  <2> SUFFICES ASSUME IInv, clean > StaleFor,
                      \A w \in Writers : newest[w] > StaleWindow + StaleFor
               PROVE  rule[Stale] = "Alerting"
    BY DEF SilenceAlerts, Stale
  <2>1. /\ StaleFor \in Nat /\ StaleWindow \in Nat /\ clean \in Nat /\ Stale \in Rules
        /\ For(Stale) = StaleFor /\ since[Stale] \in Nat
        /\ \A w \in Writers : newest[w] \in Int
    BY AlertAssumption, GoneFacts DEF IInv, TypeOK, Rules, Stale, For
  <2>2. Since(Stale, StaleFor + 1 - 1)
    BY <2>1 DEF IInv, SilenceSeen
  <2>3. rule[Stale] = "Pending" => since[Stale] < StaleFor
    BY <2>1 DEF IInv, PendingWaits
  <2> QED
    BY <2>1, <2>2, <2>3 DEF Since
<1> QED
  BY <1>1, InvInit, InvStep, PTL DEF Spec

(* The stale rule never alerts while rows arrive, and if no evaluation was
   missed only after a silence of the window and the wait (telemetry-stale:
   range, for, execErrState). *)
THEOREM StaleAlertsAreTrue == Spec => NoFalseStale
<1>1. ASSUME IInv, [Next]_vars, rule[Stale] # "Alerting", rule'[Stale] = "Alerting"
      PROVE  \A w \in Writers :
               newest'[w] > IF clean' > StaleFor THEN StaleWindow + StaleFor ELSE StaleWindow
  <2>0. /\ TypeOK /\ Stale \in Rules /\ clean \in Nat /\ clean' \in Nat
        /\ StaleFor \in Nat \ {0} /\ StaleWindow \in Nat /\ For(Stale) = StaleFor
        /\ since[Stale] \in Nat
        /\ \A w \in Writers : newest'[w] \in Int
    BY <1>1, AlertAssumption, GoneFacts, TypeStep DEF IInv, TypeOK, Rules, Stale, For
  <2>1. PICK failing \in SUBSET Rules : Evaluate(failing)
    BY <1>1 DEF Next, Write, Skip, vars
  <2>2. Result(Stale) = "true" /\ Waited(Stale) >= StaleFor /\ Stale \notin failing
    BY <1>1, <2>0, <2>1, RuleStep DEF RuleNext, FailedState
  <2>3. \A w \in Writers : newest'[w] > StaleWindow
    <3>1. ~ \E w \in Writers : newest'[w] <= StaleWindow
      BY <2>2 DEF Result, Outcome, AnyRow, Holds, LooksBack, Stale
    <3> QED
      BY <2>0, <3>1
  <2>4. ASSUME clean' > StaleFor
        PROVE  \A w \in Writers : newest'[w] > StaleWindow + StaleFor
    <3>1. rule[Stale] = "Pending" /\ Waited(Stale) = since[Stale] + 1
      BY <2>0, <2>2 DEF Waited
    <3>2. clean >= StaleFor /\ clean >= 1
      BY <2>0, <2>1, <2>4, RuleStep
    <3>3. since[Stale] < StaleFor
      BY <1>1, <2>0, <3>1, <3>2 DEF IInv, PendingWaits
    <3>4. \A w \in Writers : newest'[w] > StaleWindow + Waited(Stale)
      BY <1>1, <2>0, <2>1, <2>4, <3>1, <3>2, <3>3, StaleStep
    <3> QED
      BY <2>0, <2>2, <3>1, <3>3, <3>4
  <2> QED
    BY <2>3, <2>4
<1>2. IInv /\ [Next]_vars =>
        (rule["telemetry-stale"] # "Alerting" /\ rule'["telemetry-stale"] = "Alerting" =>
           \A w \in Writers :
             newest'[w] > IF clean' > StaleFor THEN StaleWindow + StaleFor ELSE StaleWindow)
  BY <1>1 DEF Stale
<1> QED
  BY <1>2, InvInit, InvStep, PTL DEF Spec, NoFalseStale
=============================================================================
