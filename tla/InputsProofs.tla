---------------------------- MODULE InputsProofs ----------------------------
(***************************************************************************)
(* What holds of the register contract and of the configuration, for every *)
(* register map, telemetry value and environment: the two halves of the    *)
(* contract undo each other, the ingestor reads the mapped addresses and   *)
(* stores what was simulated, and a healthy ingestor is one that can work. *)
(***************************************************************************)
EXTENDS MCInputs, TLAPS, FiniteSetTheorems, WellFoundedInduction

(* The codec.                                                              *)

\* A valid register with the fields the codec uses.
CodecRegister(reg) ==
  /\ ValidRegister(reg)
  /\ reg.scale \in Int
  /\ reg.offset \in Int

LEMMA ModInRange ==
  ASSUME NEW n \in Int, NEW m \in Nat \ {0}
  PROVE  n % m \in 0 .. m - 1
  OBVIOUS

LEMMA WordInRange ==
  ASSUME NEW raw \in Int
  PROVE  Word(raw) \in 0 .. WordSize - 1
<1>1. WordSize \in Nat \ {0}
  BY DEF WordSize
<1> QED
  BY <1>1, ModInRange DEF Word

\* A word keeps every number of its range, modulo its size.
LEMMA WordOfRange ==
  ASSUME NEW raw \in Int, -32768 <= raw, raw <= 65535
  PROVE  Word(raw) = IF raw < 0 THEN raw + 65536 ELSE raw
  BY DEF Word, WordSize

LEMMA ProductSign ==
  ASSUME NEW a \in Int, NEW b \in Int
  PROVE  a * b \in Int /\ a * (-b) = -(a * b)
  OBVIOUS

LEMMA AbsFacts ==
  ASSUME NEW n \in Int
  PROVE  Abs(n) \in Nat /\ Abs(-n) = Abs(n) /\ (n < 0 => Abs(n) = -n) /\ (n >= 0 => Abs(n) = n)
  BY DEF Abs

(* A raw value in the range of its data type survives the register: the    *)
(* two's complement of encode_registers is what decode takes off again.    *)
THEOREM WordRoundTrip ==
  ASSUME NEW reg, CodecRegister(reg), NEW raw \in Int, InWordRange(reg, raw)
  PROVE  Signed(reg, Word(raw)) = raw
<1>1. -32768 <= raw /\ raw <= 65535
  BY DEF InWordRange
<1>2. Word(raw) = IF raw < 0 THEN raw + 65536 ELSE raw
  BY <1>1, WordOfRange
<1>3. CASE reg.dataType = "int16"
  <2>1. -32768 <= raw /\ raw <= 32767
    BY <1>3 DEF InWordRange
  <2> QED
    BY <1>2, <1>3, <2>1 DEF Signed, WordSize
<1>4. CASE reg.dataType # "int16"
  <2>1. 0 <= raw /\ raw <= 65535
    BY <1>4 DEF InWordRange
  <2> QED
    BY <1>2, <1>4, <2>1 DEF Signed
<1> QED
  BY <1>3, <1>4

\* What round() returns is within half a divisor of the exact quotient.
LEMMA NearestIsNear ==
  ASSUME NEW n \in Int, NEW d \in Int, NEW raw \in Nearest(n, d), raw \in Int
  PROVE  2 * Abs(n - raw * d) <= Abs(d)
<1>1. raw * d \in Int /\ raw * (-d) = -(raw * d)
  BY ProductSign
<1>2. CASE d < 0
  <2>1. 2 * Abs(-n - raw * (-d)) <= Abs(d)
    BY <1>2, AbsFacts DEF Nearest
  <2>2. -n - raw * (-d) = -(n - raw * d)
    BY <1>1
  <2> QED
    BY <1>1, <2>1, <2>2, AbsFacts
<1>3. CASE ~(d < 0)
  <2>1. 2 * Abs(n - raw * d) <= Abs(d)
    BY <1>3, AbsFacts DEF Nearest
  <2> QED
    BY <2>1
<1> QED
  BY <1>2, <1>3

(* The value the ingestor decodes differs from the value the simulator     *)
(* encoded by half a register step at most, whatever the sign of the scale *)
(* and whichever way a tie was rounded (encode_registers, decode).         *)
THEOREM DecodeWithinHalfStep ==
  ASSUME NEW reg, CodecRegister(reg), NEW value \in Int,
         NEW raw \in RawValues(reg, value), raw \in Int, InWordRange(reg, raw)
  PROVE  2 * Abs(Decode(reg, Word(raw)) - value) <= Abs(reg.scale)
<1>1. Decode(reg, Word(raw)) = raw * reg.scale + reg.offset
  BY WordRoundTrip DEF Decode
<1>2. reg.scale \in Int /\ reg.offset \in Int /\ raw * reg.scale \in Int
  BY ProductSign DEF CodecRegister
<1>3. 2 * Abs((value - reg.offset) - raw * reg.scale) <= Abs(reg.scale)
  BY <1>2, NearestIsNear DEF RawValues
<1>4. (raw * reg.scale + reg.offset) - value = -((value - reg.offset) - raw * reg.scale)
  BY <1>2
<1>5. (value - reg.offset) - raw * reg.scale \in Int
  BY <1>2
<1> QED
  BY <1>1, <1>3, <1>4, <1>5, AbsFacts

-----------------------------------------------------------------------------
(* The environment of a service.                                           *)

LEMMA ConfigTypeInit == ConfigInit => ConfigTypeOK
  BY DEF ConfigInit, ConfigTypeOK

\* Since from_env returned, or raised, it has accepted the environment or not.
Judged ==
  /\ phase = "refused" => ~Accepted(service, env)
  /\ phase \in {"cycle", "sleep", "ended", "stopped"} => Accepted(service, env)
  /\ stamped => CanSucceed
  /\ probe = "healthy" => Accepted(service, env) /\ stamped /\ env.interval.kind # "nan"

LEMMA ConfigStep ==
  ConfigTypeOK /\ Judged /\ [ConfigNext]_configVars => ConfigTypeOK' /\ Judged'
<1> SUFFICES ASSUME ConfigTypeOK, Judged, [ConfigNext]_configVars
             PROVE  ConfigTypeOK' /\ Judged'
  OBVIOUS
<1> USE DEF ConfigTypeOK, Judged, CanSucceed
<1>1. CASE Configure
  BY <1>1 DEF Configure
<1>2. CASE CycleDone
  BY <1>2 DEF CycleDone
<1>3. CASE Sleep
  BY <1>3 DEF Sleep
<1>4. CASE Stop
  BY <1>4 DEF Stop
<1>5. CASE Restart
  BY <1>5 DEF Restart
<1>6. CASE Probe
  BY <1>6 DEF Probe, Patience
<1>7. CASE UNCHANGED configVars
  BY <1>7 DEF configVars
<1> QED
  BY <1>1, <1>2, <1>3, <1>4, <1>5, <1>6, <1>7 DEF ConfigNext

LEMMA ConfigInvariance == ConfigSpec => []ConfigTypeOK /\ []Judged
<1>1. ConfigInit => Judged
  BY DEF ConfigInit, Judged
<1> QED
  BY <1>1, ConfigTypeInit, ConfigStep, PTL DEF ConfigSpec

(* The healthcheck passes only for a configuration that was accepted, whose
   time-outs are finite and whose interval is a number (healthcheck). *)
THEOREM HealthyIsUsable == ConfigSpec => []HealthyMeansUsable
<1>1. Judged => HealthyMeansUsable
  BY DEF Judged, HealthyMeansUsable
<1> QED
  BY <1>1, ConfigInvariance, PTL
-----------------------------------------------------------------------------
(* The operators of the way through the contract.                          *)

\* CHOOSE finds the least number of a set, and the greatest of an interval's.
LEMMA MinIn ==
  ASSUME NEW S, S \subseteq Nat, S # {}
  PROVE  Min(S) \in S /\ \A y \in S : Min(S) <= y
<1> DEFINE R == {ss \in Nat \X Nat : ss[1] < ss[2]}
<1>1. IsWellFoundedOn(R, Nat)
  BY NatLessThanWellFounded, Zenon DEF OpToRel
<1>2. PICK x \in S : \A y \in S : ~(<<y, x>> \in R)
  BY <1>1, WFMin, Zenon
<1>3. \A y \in S : x <= y
  <2> TAKE y \in S
  <2>1. x \in Nat /\ y \in Nat /\ <<y, x>> \in Nat \X Nat
    OBVIOUS
  <2>2. ~(y < x)
    BY <1>2, <2>1
  <2> QED
    BY <2>1, <2>2
<1> QED
  BY <1>3 DEF Min

LEMMA MaxIn ==
  ASSUME NEW n \in Nat, NEW S, S \subseteq 1 .. n, S # {}
  PROVE  Max(S) \in S
<1> DEFINE T == {m \in Nat : n - m \in S}
<1>1. T # {}
  <2>1. PICK x \in S : TRUE
    OBVIOUS
  <2>2. n - x \in Nat /\ n - (n - x) = x
    BY <2>1
  <2> QED
    BY <2>1, <2>2
<1>2. PICK m \in T : \A y \in T : m <= y
  BY <1>1, MinIn
<1>3. \A y \in S : n - m >= y
  <2> TAKE y \in S
  <2>1. y \in Nat /\ n - y \in Nat /\ n - (n - y) = y
    OBVIOUS
  <2>2. n - y \in T
    BY <2>1
  <2>3. m \in Nat /\ m <= n - y
    BY <1>2, <2>2
  <2> QED
    BY <2>1, <2>3
<1> QED
  BY <1>2, <1>3 DEF Max

\* round() of a quotient is one of at most two neighbouring integers.
LEMMA NearestExists ==
  ASSUME NEW n \in Int, NEW d \in Int, d # 0
  PROVE  /\ Nearest(n, d) # {}
         /\ \E q \in Int : Nearest(n, d) \subseteq {q, q + 1}
<1> DEFINE num == IF d < 0 THEN -n ELSE n
           D == Abs(d)
           q == num \div D
<1>1. num \in Int /\ D \in Nat \ {0}
  BY DEF Abs
<1> HIDE DEF num, D
<1>2. q \in Int /\ q * D <= num /\ num < (q + 1) * D
  BY <1>1
<1> HIDE DEF q
<1>3. Nearest(n, d) = {raw \in {q, q + 1} : 2 * Abs(num - raw * D) <= D}
  BY DEF Nearest, num, D, q
<1>4. q * D \in Int /\ (q + 1) * D = q * D + D
  BY <1>1, <1>2
<1>5. num - q * D \in Nat /\ (q + 1) * D - num \in Nat
  BY <1>1, <1>2, <1>4
<1>6. Abs(num - q * D) = num - q * D /\ Abs(num - (q + 1) * D) = (q + 1) * D - num
  BY <1>1, <1>4, <1>5 DEF Abs
<1>7. 2 * (num - q * D) <= D \/ 2 * ((q + 1) * D - num) <= D
  BY <1>1, <1>4, <1>5
<1>8. Nearest(n, d) # {}
  BY <1>3, <1>6, <1>7
<1> QED
  BY <1>2, <1>3, <1>8

LEMMA PairMinMax ==
  ASSUME NEW q \in Int, NEW S, S \subseteq {q, q + 1}, S # {}
  PROVE  Min(S) \in S /\ Max(S) \in S
<1>1. CASE S = {q}
  BY <1>1 DEF Min, Max
<1>2. CASE S = {q + 1}
  BY <1>2 DEF Min, Max
<1>3. CASE S = {q, q + 1}
  <2>1. q \in S /\ \A y \in S : q <= y
    BY <1>3
  <2>2. q + 1 \in S /\ \A y \in S : q + 1 >= y
    BY <1>3
  <2> QED
    BY <2>1, <2>2 DEF Min, Max
<1> QED
  BY <1>1, <1>2, <1>3

\* A sequence with as many values as places has each of them once.
LEMMA AllDifferentInjective ==
  ASSUME NEW n \in Nat, NEW f, DOMAIN f = 1 .. n, f = [i \in 1 .. n |-> f[i]], AllDifferent(f)
  PROVE  \A i, j \in 1 .. n : f[i] = f[j] => i = j
<1> DEFINE T == Range(f)
<1>1. f \in Surjection(1 .. n, T)
  BY DEF Surjection, Range
<1>2. Len(f) = n
  OBVIOUS
<1>3. IsFiniteSet(1 .. n) /\ Cardinality(1 .. n) = n
  BY FS_Interval
<1>4. Cardinality(T) = n
  BY <1>2 DEF AllDifferent
<1>5. f \in Injection(1 .. n, T)
  BY <1>1, <1>3, <1>4, FS_Surjection
<1> QED
  BY <1>5 DEF Injection, IsInjective

-----------------------------------------------------------------------------
(* The runs of required_ranges.                                            *)

\* Runs are in ascending order, none is empty and no two are adjacent.
IsRuns(runs) ==
  /\ runs \in Seq(Nat \X Nat)
  /\ \A k \in DOMAIN runs : runs[k][2] > 0
  /\ \A k, l \in DOMAIN runs : k < l => runs[k][1] + runs[k][2] < runs[l][1]

Covered(runs) == UNION {RangeAddresses(runs[k]) : k \in DOMAIN runs}

LEMMA RunsAreSeq ==
  ASSUME NEW runs, IsRuns(runs)
  PROVE  /\ Len(runs) \in Nat
         /\ DOMAIN runs = 1 .. Len(runs)
         /\ \A k \in DOMAIN runs : k \in Nat /\ runs[k] \in Nat \X Nat
  BY DEF IsRuns

LEMMA CoveredBy ==
  ASSUME NEW runs, NEW a
  PROVE  a \in Covered(runs) <=> \E k \in DOMAIN runs : a \in RangeAddresses(runs[k])
  BY DEF Covered

LEMMA RunFacts ==
  ASSUME NEW runs, IsRuns(runs), NEW k \in DOMAIN runs
  PROVE  /\ runs[k][1] \in Nat /\ runs[k][2] \in Nat /\ runs[k][2] > 0
         /\ \A a : a \in RangeAddresses(runs[k])
                     <=> a \in Int /\ runs[k][1] <= a /\ a < runs[k][1] + runs[k][2]
<1>1. runs[k] \in Nat \X Nat /\ runs[k][2] > 0
  BY RunsAreSeq DEF IsRuns
<1>2. runs[k][1] \in Nat /\ runs[k][2] \in Nat
  BY <1>1
<1>3. RangeAddresses(runs[k]) = runs[k][1] .. (runs[k][1] + runs[k][2] - 1)
  BY DEF RangeAddresses
<1> QED
  BY <1>1, <1>2, <1>3

\* The order of two runs, as numbers.
LEMMA RunOrder ==
  ASSUME NEW runs, IsRuns(runs), NEW k \in DOMAIN runs, NEW l \in DOMAIN runs, k # l
  PROVE  \/ runs[k][1] + runs[k][2] < runs[l][1]
         \/ runs[l][1] + runs[l][2] < runs[k][1]
<1>1. k < l \/ l < k
  BY RunsAreSeq
<1> QED
  BY <1>1 DEF IsRuns

\* Two runs have no address in common, and none of them reaches the next.
LEMMA RunsApart ==
  ASSUME NEW runs, IsRuns(runs), NEW k \in DOMAIN runs, NEW l \in DOMAIN runs
  PROVE  /\ k # l => RangeAddresses(runs[k]) \intersect RangeAddresses(runs[l]) = {}
         /\ runs[k][1] + runs[k][2] \notin RangeAddresses(runs[l])
<1>1. /\ runs[k][1] \in Nat /\ runs[k][2] \in Nat /\ runs[k][2] > 0
      /\ runs[l][1] \in Nat /\ runs[l][2] \in Nat /\ runs[l][2] > 0
  BY RunFacts
<1>2. k # l => \/ runs[k][1] + runs[k][2] < runs[l][1]
               \/ runs[l][1] + runs[l][2] < runs[k][1]
  BY RunOrder
<1>3. ASSUME NEW a \in RangeAddresses(runs[k]), a \in RangeAddresses(runs[l]), k # l
      PROVE  FALSE
  <2>1. a \in Int /\ runs[k][1] <= a /\ a < runs[k][1] + runs[k][2]
    BY <1>3, RunFacts
  <2>2. runs[l][1] <= a /\ a < runs[l][1] + runs[l][2]
    BY <1>3, RunFacts
  <2> QED
    BY <1>1, <1>2, <1>3, <2>1, <2>2
<1>4. ASSUME runs[k][1] + runs[k][2] \in RangeAddresses(runs[l])
      PROVE  FALSE
  <2>1. /\ runs[l][1] <= runs[k][1] + runs[k][2]
        /\ runs[k][1] + runs[k][2] < runs[l][1] + runs[l][2]
    BY <1>4, RunFacts
  <2> QED
    BY <1>1, <1>2, <2>1
<1> QED
  BY <1>3, <1>4

\* Replacing the last element of a sequence.
LEMMA ReplaceLast ==
  ASSUME NEW S, NEW s \in Seq(S), s # << >>, NEW e \in S
  PROVE  /\ Append(Front(s), e) \in Seq(S)
         /\ Len(Append(Front(s), e)) = Len(s)
         /\ \A k \in 1 .. Len(s) - 1 : Append(Front(s), e)[k] = s[k]
         /\ Append(Front(s), e)[Len(s)] = e
<1>1. Len(s) \in Nat /\ Len(s) > 0
  OBVIOUS
<1> DEFINE m == Len(s) - 1
<1>2. m \in Nat /\ m <= Len(s)
  BY <1>1
<1> HIDE DEF m
<1>3. /\ SubSeq(s, 1, m) \in Seq(S) /\ Len(SubSeq(s, 1, m)) = m
      /\ \A k \in 1 .. m : SubSeq(s, 1, m)[k] = s[k]
  BY <1>2
<1>4. /\ Front(s) \in Seq(S) /\ Len(Front(s)) = Len(s) - 1
      /\ \A k \in 1 .. Len(s) - 1 : Front(s)[k] = s[k]
  BY <1>3 DEF Front, m
<1> QED
  BY <1>1, <1>4

\* What makes a sequence of pairs the runs of an address set.
LEMMA RunsFrom ==
  ASSUME NEW n \in Nat, NEW new \in Seq(Nat \X Nat), Len(new) = n,
         \A k \in 1 .. n : new[k][2] > 0,
         \A k, l \in 1 .. n : k < l => new[k][1] + new[k][2] < new[l][1]
  PROVE  IsRuns(new)
  BY DEF IsRuns

\* A turn of the loop keeps runs and covers one address more.
LEMMA ExtendRunsCovers ==
  ASSUME NEW runs, IsRuns(runs), NEW address \in Nat, \A a \in Covered(runs) : a < address
  PROVE  /\ IsRuns(ExtendRuns(runs, address))
         /\ Covered(ExtendRuns(runs, address)) = Covered(runs) \union {address}
<1> DEFINE n == Len(runs)
<1>1. n \in Nat /\ DOMAIN runs = 1 .. n /\ runs \in Seq(Nat \X Nat)
  BY RunsAreSeq DEF IsRuns
<1>2. \A k \in 1 .. n : runs[k][1] \in Nat /\ runs[k][2] \in Nat /\ runs[k][2] > 0
  BY <1>1, RunFacts
<1>3. \A k, l \in 1 .. n : k < l => runs[k][1] + runs[k][2] < runs[l][1]
  BY <1>1 DEF IsRuns
<1> HIDE DEF n
<1>4. CASE runs # << >> /\ address = Last(runs)[1] + Last(runs)[2]
  <2> DEFINE e == <<runs[n][1], runs[n][2] + 1>>
             new == Append(Front(runs), e)
  <2>1. n > 0 /\ n \in 1 .. n /\ Last(runs) = runs[n]
    BY <1>1, <1>4 DEF Last, n
  <2>2. ExtendRuns(runs, address) = new
    BY <1>4, <2>1 DEF ExtendRuns
  <2>3. runs[n][1] \in Nat /\ runs[n][2] \in Nat /\ e \in Nat \X Nat
    BY <1>2, <2>1
  <2>4. e[1] = runs[n][1] /\ e[2] = runs[n][2] + 1
    OBVIOUS
  <2> HIDE DEF e
  <2>5. /\ new \in Seq(Nat \X Nat) /\ Len(new) = n
        /\ \A k \in 1 .. n - 1 : new[k] = runs[k]
        /\ new[n] = e
    <3>1. /\ new \in Seq(Nat \X Nat) /\ Len(new) = Len(runs)
          /\ \A k \in 1 .. Len(runs) - 1 : new[k] = runs[k]
          /\ new[Len(runs)] = e
      BY <1>1, <1>4, <2>3, ReplaceLast
    <3> QED
      BY <3>1, Zenon DEF n
  <2> HIDE DEF new
  <2>6. ASSUME NEW k \in 1 .. n
        PROVE  new[k][2] > 0
    <3>1. CASE k = n
      BY <2>3, <2>4, <2>5, <3>1
    <3>2. CASE k # n
      <4>1. k \in 1 .. n - 1
        BY <1>1, <3>2
      <4> QED
        BY <1>2, <2>5, <4>1
    <3> QED
      BY <3>1, <3>2
  <2>7. ASSUME NEW k \in 1 .. n, NEW l \in 1 .. n, k < l
        PROVE  new[k][1] + new[k][2] < new[l][1]
    <3>1. k \in 1 .. n - 1 /\ new[k] = runs[k]
      BY <1>1, <2>5, <2>7
    <3>2. new[l][1] = runs[l][1]
      <4>1. l = n \/ l \in 1 .. n - 1
        BY <1>1
      <4> QED
        BY <2>4, <2>5, <4>1
    <3> QED
      BY <1>3, <2>7, <3>1, <3>2
  <2>8. ASSUME NEW a
        PROVE  a \in RangeAddresses(new[n]) <=> a \in RangeAddresses(runs[n]) \/ a = address
    <3>1. address = runs[n][1] + runs[n][2]
      BY <1>4, <2>1
    <3>2. RangeAddresses(new[n]) = runs[n][1] .. runs[n][1] + (runs[n][2] + 1) - 1
      BY <2>4, <2>5 DEF RangeAddresses
    <3>3. RangeAddresses(runs[n]) = runs[n][1] .. runs[n][1] + runs[n][2] - 1
      BY DEF RangeAddresses
    <3>4. a \in RangeAddresses(new[n])
            <=> a \in Int /\ runs[n][1] <= a /\ a <= runs[n][1] + runs[n][2]
      BY <2>3, <3>2
    <3>5. a \in RangeAddresses(runs[n])
            <=> a \in Int /\ runs[n][1] <= a /\ a < runs[n][1] + runs[n][2]
      BY <2>3, <3>3
    <3> QED
      BY <2>3, <3>1, <3>4, <3>5
  <2>9. ASSUME NEW a
        PROVE  a \in Covered(new) <=> a \in Covered(runs) \/ a = address
    <3>1. DOMAIN new = 1 .. n
      BY <2>5
    <3>2. \A k \in 1 .. n : k = n \/ k \in 1 .. n - 1
      BY <1>1
    <3>3. \A k \in 1 .. n : k # n => RangeAddresses(new[k]) = RangeAddresses(runs[k])
      BY <2>5, <3>2
    <3>4. a \in Covered(new) <=> \E k \in 1 .. n : a \in RangeAddresses(new[k])
      BY <3>1, CoveredBy
    <3>5. a \in Covered(runs) <=> \E k \in 1 .. n : a \in RangeAddresses(runs[k])
      BY <1>1, CoveredBy
    <3> QED
      BY <2>1, <2>8, <3>3, <3>4, <3>5
  <2>10. Covered(new) = Covered(runs) \union {address}
    BY <2>9
  <2> QED
    BY <1>1, <2>2, <2>5, <2>6, <2>7, <2>10, RunsFrom
<1>5. CASE ~(runs # << >> /\ address = Last(runs)[1] + Last(runs)[2])
  <2> DEFINE e == <<address, 1>>
             new == Append(runs, e)
  <2>1. ExtendRuns(runs, address) = new
    BY <1>5 DEF ExtendRuns
  <2>2. e \in Nat \X Nat /\ e[1] = address /\ e[2] = 1
    OBVIOUS
  <2> HIDE DEF e
  <2>3. /\ new \in Seq(Nat \X Nat) /\ Len(new) = n + 1
        /\ \A k \in 1 .. n : new[k] = runs[k]
        /\ new[n + 1] = e
    BY <1>1, <2>2 DEF n
  <2> HIDE DEF new
  <2>4. ASSUME NEW k \in 1 .. n + 1
        PROVE  new[k][2] > 0
    <3>1. k = n + 1 \/ k \in 1 .. n
      BY <1>1
    <3> QED
      BY <1>2, <2>2, <2>3, <3>1
  <2>5. ASSUME NEW k \in 1 .. n
        PROVE  runs[k][1] + runs[k][2] < address
    <3>1. n \in 1 .. n /\ runs # << >> /\ Last(runs) = runs[n] /\ n \in DOMAIN runs
      BY <1>1 DEF Last, n
    <3>2. runs[n][1] + runs[n][2] # address
      BY <1>5, <3>1
    <3>3. runs[n][1] \in Nat /\ runs[n][2] \in Nat /\ runs[n][2] > 0
      BY <1>2, <3>1
    <3>4. runs[n][1] + runs[n][2] - 1 \in RangeAddresses(runs[n])
      BY <3>3 DEF RangeAddresses
    <3>5. runs[n][1] + runs[n][2] - 1 < address
      BY <3>1, <3>4, CoveredBy
    <3>6. runs[n][1] + runs[n][2] < address
      BY <3>2, <3>3, <3>5
    <3>7. k < n => runs[k][1] + runs[k][2] < runs[n][1]
      BY <1>3, <3>1
    <3>8. runs[k][1] \in Nat /\ runs[k][2] \in Nat
      BY <1>2
    <3>9. k = n \/ k < n
      BY <1>1
    <3>10. CASE k = n
      BY <3>6, <3>10
    <3>11. CASE k < n
      BY <3>3, <3>6, <3>7, <3>8, <3>11
    <3> QED
      BY <3>9, <3>10, <3>11
  <2>6. ASSUME NEW k \in 1 .. n + 1, NEW l \in 1 .. n + 1, k < l
        PROVE  new[k][1] + new[k][2] < new[l][1]
    <3>1. k \in 1 .. n /\ new[k] = runs[k]
      BY <1>1, <2>3, <2>6
    <3>2. l = n + 1 \/ l \in 1 .. n
      BY <1>1
    <3>3. CASE l = n + 1
      BY <2>2, <2>3, <2>5, <3>1, <3>3
    <3>4. CASE l \in 1 .. n
      <4>1. runs[k][1] + runs[k][2] < runs[l][1]
        BY <1>3, <2>6, <3>1, <3>4
      <4> QED
        BY <2>3, <3>1, <3>4, <4>1
    <3> QED
      BY <3>2, <3>3, <3>4
  <2>7. RangeAddresses(new[n + 1]) = {address}
    <3>1. RangeAddresses(new[n + 1]) = address .. address + 1 - 1
      BY <2>2, <2>3 DEF RangeAddresses
    <3> QED
      BY <3>1
  <2>8. ASSUME NEW a
        PROVE  a \in Covered(new) <=> a \in Covered(runs) \/ a = address
    <3>1. DOMAIN new = 1 .. n + 1 /\ \A k : k \in 1 .. n + 1 <=> k \in 1 .. n \/ k = n + 1
      BY <1>1, <2>3
    <3>2. \A k \in 1 .. n : RangeAddresses(new[k]) = RangeAddresses(runs[k])
      BY <2>3
    <3>3. a \in Covered(new) <=> \E k : /\ k \in 1 .. n \/ k = n + 1
                                        /\ a \in RangeAddresses(new[k])
      BY <3>1, CoveredBy
    <3>4. a \in Covered(runs) <=> \E k \in 1 .. n : a \in RangeAddresses(runs[k])
      BY <1>1, CoveredBy
    <3> QED
      BY <2>7, <3>2, <3>3, <3>4
  <2>9. Covered(new) = Covered(runs) \union {address}
    BY <2>8
  <2> QED
    <3>1. n + 1 \in Nat
      BY <1>1
    <3> QED
      BY <2>1, <2>3, <2>4, <2>6, <2>9, <3>1, RunsFrom
<1> QED
  BY <1>4, <1>5
-----------------------------------------------------------------------------
(* The inductive invariant of a value's way.                               *)

MapTyped ==
  \E case \in Cases :
    registerMap \in case.maps /\ telemetry \in [Names -> case.values]

\* Every mapped address holds the encoded value of a register that has it.
Carried ==
  /\ DOMAIN words = Addresses(registerMap)
  /\ \A a \in Addresses(registerMap) : \E i \in DOMAIN registerMap :
       /\ registerMap[i].address = a
       /\ \E raw \in Raws(i) :
            raw \in Int /\ InWordRange(registerMap[i], raw) /\ words[a] = Word(raw)

\* The addresses looked at so far, all below the others, make the runs.
Grouping ==
  /\ IsRuns(pending)
  /\ ungrouped # {}
  /\ Covered(pending) \union ungrouped = Addresses(registerMap)
  /\ \A a \in Covered(pending), u \in ungrouped : a < u

\* An address is either read or in exactly one run that is still to be read.
Reading ==
  /\ IsRuns(pending)
  /\ DOMAIN values \union Covered(pending) = Addresses(registerMap)
  /\ \A k \in DOMAIN pending :
       /\ RangeAddresses(pending[k]) \intersect DOMAIN values = {}
       /\ pending[k][1] + pending[k][2] \notin Addresses(registerMap)

\* What telemetry_points makes of the values.
PointsRead ==
  [name \in Names |->
     LET reg == registerMap[CHOOSE i \in DOMAIN registerMap : registerMap[i].name = name]
     IN  Decode(reg, values[reg.address])]

PathInv ==
  /\ MapTyped
  /\ pc \in {"encode", "load", "group", "read"} \union Ended
  /\ pc \in {"encode", "unencodable"} => words = EmptyFunction
  /\ pc \notin {"encode", "unencodable"} => Carried
  /\ pc \notin {"group", "read", "readFailed", "done"} => pending = << >>
  /\ pc \notin {"read", "readFailed", "done"} => values = EmptyFunction
  /\ pc \in {"group", "read", "readFailed", "done"} => ValidMap(registerMap)
  /\ pc = "group" => Grouping
  /\ pc # "group" => ungrouped = {}
  /\ pc \in {"read", "readFailed", "done"} => Reading
  /\ \A a \in DOMAIN values : values[a] = words[a]
  /\ pc = "readFailed" => pending # << >> /\ ~ReadAllowed(Head(pending))
  /\ pc = "done" => pending = << >>
  /\ points = IF pc = "done" THEN PointsRead ELSE EmptyFunction
\* The numbers of a map and of its telemetry.
LEMMA MapFacts ==
  ASSUME MapTyped
  PROVE  /\ Len(registerMap) \in Nat /\ DOMAIN registerMap = 1 .. Len(registerMap)
         /\ \A i \in DOMAIN registerMap :
              /\ registerMap[i].address \in Int
              /\ registerMap[i].scale \in Int
              /\ registerMap[i].offset \in Int
              /\ telemetry[registerMap[i].name] \in Int
<1>1. PICK case \in Cases :
        registerMap \in case.maps /\ telemetry \in [Names -> case.values]
  BY DEF MapTyped
<1>2. case.values \subseteq Int /\ registerMap \in Seq(Range(registerMap))
  BY <1>1, CasesAssumption
<1>3. \A i \in DOMAIN registerMap : /\ registerMap[i].address \in Int
                                    /\ registerMap[i].scale \in Int
                                    /\ registerMap[i].offset \in Int
  BY <1>1, CasesAssumption
<1>4. \A i \in DOMAIN registerMap : telemetry[registerMap[i].name] \in Int
  BY <1>1, <1>2 DEF Names
<1>5. Len(registerMap) \in Nat /\ DOMAIN registerMap = 1 .. Len(registerMap)
  BY <1>2
<1> QED
  BY <1>3, <1>4, <1>5

\* Rounding a register's value gives integers, and both ways of breaking a
\* tie give one of them.
LEMMA RawsChosen ==
  ASSUME MapTyped, NEW i \in DOMAIN registerMap, registerMap[i].scale # 0
  PROVE  Raws(i) \subseteq Int /\ Min(Raws(i)) \in Raws(i) /\ Max(Raws(i)) \in Raws(i)
<1> DEFINE n == telemetry[registerMap[i].name] - registerMap[i].offset
           d == registerMap[i].scale
<1>1. n \in Int /\ d \in Int /\ d # 0
  BY MapFacts
<1>2. Raws(i) = Nearest(n, d)
  BY DEF Raws, RawValues
<1> HIDE DEF n, d
<1>3. PICK q \in Int : Raws(i) \subseteq {q, q + 1}
  BY <1>1, <1>2, NearestExists
<1>4. Raws(i) # {}
  BY <1>1, <1>2, NearestExists
<1> QED
  BY <1>3, <1>4, PairMinMax

\* Encoded puts a register's word at every mapped address.
LEMMA EncodedCarries ==
  ASSUME MapTyped, NEW raw, NEW a \in Addresses(registerMap)
  PROVE  \E i \in DOMAIN registerMap :
           registerMap[i].address = a /\ Encoded(registerMap, raw)[a] = Word(raw[i])
<1> DEFINE S == {k \in DOMAIN registerMap : registerMap[k].address = a}
<1>1. S # {} /\ S \subseteq 1 .. Len(registerMap) /\ Len(registerMap) \in Nat
  BY MapFacts DEF Addresses
<1>2. Max(S) \in S
  BY <1>1, MaxIn
<1>3. Encoded(registerMap, raw)[a] = Word(raw[Max(S)])
  BY DEF Encoded
<1> QED
  BY <1>2, <1>3

\* What the steps that leave the map alone leave alone with it.
LEMMA MapKept ==
  ASSUME UNCHANGED <<registerMap, telemetry>>
  PROVE  /\ MapTyped' <=> MapTyped
         /\ Addresses(registerMap)' = Addresses(registerMap)
         /\ ValidMap(registerMap)' <=> ValidMap(registerMap)
         /\ UNCHANGED words => (Carried' <=> Carried)
<1>1. MapTyped' <=> MapTyped
  BY DEF MapTyped, Names
<1>2. /\ Addresses(registerMap)' = Addresses(registerMap)
      /\ ValidMap(registerMap)' <=> ValidMap(registerMap)
  OBVIOUS
<1>3. ASSUME UNCHANGED words
      PROVE  Carried' <=> Carried
  BY <1>2, <1>3 DEF Carried, Raws
<1> QED
  BY <1>1, <1>2, <1>3

\* The bounds of an interval that starts at zero.
LEMMA UpTo ==
  ASSUME NEW hi \in Nat, NEW x \in 0 .. hi
  PROVE  x \in Nat /\ x <= hi
  OBVIOUS

\* The addresses of a valid map.
LEMMA ValidAddresses ==
  ASSUME MapTyped, ValidMap(registerMap)
  PROVE  /\ \A a \in Addresses(registerMap) : a \in Nat /\ a <= LastAddress
         /\ Addresses(registerMap) # {}
<1>1. (\A i \in DOMAIN registerMap : ValidRegister(registerMap[i])) /\ registerMap # << >>
  BY DEF ValidMap
<1>2. \A i \in DOMAIN registerMap : registerMap[i].address \in 0 .. LastAddress
  BY <1>1 DEF ValidRegister
<1>3. \A i \in DOMAIN registerMap :
        registerMap[i].address \in Nat /\ registerMap[i].address <= LastAddress
  <2>1. LastAddress \in Nat
    BY DEF LastAddress
  <2> QED
    BY <1>2, <2>1, UpTo
<1>4. PICK case \in Cases : registerMap \in case.maps
  BY DEF MapTyped
<1>5. registerMap \in Seq(Range(registerMap))
  BY <1>4, CasesAssumption
<1>6. 1 \in DOMAIN registerMap
  BY <1>1, <1>5
<1> QED
  BY <1>3, <1>6 DEF Addresses

LEMMA PathInit == Init => PathInv
<1> SUFFICES ASSUME Init
             PROVE  PathInv
  OBVIOUS
<1>1. MapTyped
  BY DEF Init, MapTyped
<1>2. \A a \in DOMAIN values : values[a] = words[a]
  BY DEF Init
<1> QED
  BY <1>1, <1>2 DEF Init, PathInv

LEMMA EncodeStep ==
  ASSUME PathInv, Encode
  PROVE  PathInv'
<1>1. /\ pc = "encode" /\ UNCHANGED <<registerMap, telemetry, ungrouped, pending, values, points>>
      /\ MapTyped /\ words = EmptyFunction /\ pending = << >> /\ values = EmptyFunction
      /\ ungrouped = {} /\ points = EmptyFunction
  BY DEF PathInv, Encode
<1>2. MapTyped'
  BY <1>1, MapKept
<1>3. DOMAIN values' = {}
  BY <1>1 DEF EmptyFunction
<1>4. CASE pc' = "unencodable" /\ UNCHANGED words
  BY <1>1, <1>2, <1>3, <1>4 DEF PathInv, Ended
<1>5. CASE ~(pc' = "unencodable" /\ UNCHANGED words)
  <2>1. \A i \in DOMAIN registerMap : registerMap[i].scale # 0
    BY <1>5 DEF Encode
  <2>2. PICK up \in SUBSET Ties :
          LET raw == [i \in DOMAIN registerMap |->
                        IF i \in up THEN Max(Raws(i)) ELSE Min(Raws(i))]
          IN  /\ \A i \in DOMAIN registerMap : InWordRange(registerMap[i], raw[i])
              /\ words' = Encoded(registerMap, raw)
              /\ pc' = "load"
    BY <1>5 DEF Encode
  <2> DEFINE raw == [i \in DOMAIN registerMap |->
                       IF i \in up THEN Max(Raws(i)) ELSE Min(Raws(i))]
  <2>3. \A i \in DOMAIN registerMap : /\ raw[i] \in Raws(i) /\ raw[i] \in Int
                                      /\ InWordRange(registerMap[i], raw[i])
    <3> TAKE i \in DOMAIN registerMap
    <3>1. Raws(i) \subseteq Int /\ Min(Raws(i)) \in Raws(i) /\ Max(Raws(i)) \in Raws(i)
      BY <1>1, <2>1, RawsChosen
    <3>2. raw[i] = Max(Raws(i)) \/ raw[i] = Min(Raws(i))
      OBVIOUS
    <3>3. InWordRange(registerMap[i], raw[i])
      BY <2>2
    <3> QED
      BY <3>1, <3>2, <3>3
  <2>4. words' = Encoded(registerMap, raw) /\ pc' = "load"
    BY <2>2
  <2> HIDE DEF raw
  <2>5. DOMAIN words' = Addresses(registerMap)
    BY <2>4 DEF Encoded
  <2>6. ASSUME NEW a \in Addresses(registerMap)
        PROVE  \E i \in DOMAIN registerMap :
                 /\ registerMap[i].address = a
                 /\ \E r \in Raws(i) :
                      r \in Int /\ InWordRange(registerMap[i], r) /\ words'[a] = Word(r)
    <3>1. PICK i \in DOMAIN registerMap :
            registerMap[i].address = a /\ Encoded(registerMap, raw)[a] = Word(raw[i])
      BY <1>1, EncodedCarries
    <3> QED
      BY <2>3, <2>4, <3>1
  <2>7. \A i : Raws(i)' = Raws(i)
    BY <1>1 DEF Raws
  <2>8. Carried'
    BY <1>1, <2>5, <2>6, <2>7 DEF Carried
  <2> QED
    BY <1>1, <1>2, <1>3, <2>4, <2>8 DEF PathInv
<1> QED
  BY <1>4, <1>5

LEMMA LoadMapStep ==
  ASSUME PathInv, LoadMap
  PROVE  PathInv'
<1>1. /\ pc = "load" /\ UNCHANGED <<registerMap, telemetry, words, pending, values, points>>
      /\ MapTyped /\ Carried /\ pending = << >> /\ values = EmptyFunction
      /\ ungrouped = {} /\ points = EmptyFunction
  BY DEF PathInv, LoadMap
<1>2. /\ MapTyped' /\ Carried' /\ Addresses(registerMap)' = Addresses(registerMap)
      /\ ValidMap(registerMap)' <=> ValidMap(registerMap)
  BY <1>1, MapKept
<1>3. DOMAIN values' = {}
  BY <1>1 DEF EmptyFunction
<1>4. CASE ValidMap(registerMap)
  <2>1. ungrouped' = Addresses(registerMap) /\ pc' = "group"
    BY <1>4 DEF LoadMap
  <2>2. Addresses(registerMap) # {}
    BY <1>1, <1>4, ValidAddresses
  <2>3. IsRuns(<< >>) /\ Covered(<< >>) = {}
    BY DEF IsRuns, Covered
  <2>4. Grouping'
    BY <1>1, <1>2, <2>1, <2>2, <2>3 DEF Grouping
  <2> QED
    BY <1>1, <1>2, <1>3, <1>4, <2>1, <2>4 DEF PathInv
<1>5. CASE ~ValidMap(registerMap)
  <2>1. ungrouped' = ungrouped /\ pc' = "invalid"
    BY <1>5 DEF LoadMap
  <2> QED
    BY <1>1, <1>2, <1>3, <2>1 DEF PathInv, Ended
<1> QED
  BY <1>4, <1>5

LEMMA GroupStep ==
  ASSUME PathInv, GroupAddress
  PROVE  PathInv'
<1> DEFINE next == Min(ungrouped)
<1>1. /\ pc = "group" /\ UNCHANGED <<registerMap, telemetry, words, values, points>>
      /\ MapTyped /\ Carried /\ values = EmptyFunction /\ points = EmptyFunction
      /\ ValidMap(registerMap)
      /\ pending' = ExtendRuns(pending, next) /\ ungrouped' = ungrouped \ {next}
      /\ pc' = IF ungrouped' = {} THEN "read" ELSE "group"
  BY DEF PathInv, GroupAddress
<1>2. /\ MapTyped' /\ Carried' /\ Addresses(registerMap)' = Addresses(registerMap)
      /\ ValidMap(registerMap)'
  BY <1>1, MapKept
<1>3. DOMAIN values' = {}
  BY <1>1 DEF EmptyFunction
<1>4. /\ IsRuns(pending) /\ ungrouped # {}
      /\ Covered(pending) \union ungrouped = Addresses(registerMap)
      /\ \A a \in Covered(pending), u \in ungrouped : a < u
  BY <1>1 DEF PathInv, Grouping
<1>5. \A a \in Addresses(registerMap) : a \in Nat
  BY <1>1, ValidAddresses
<1>6. next \in ungrouped /\ \A u \in ungrouped : next <= u
  BY <1>4, <1>5, MinIn
<1> HIDE DEF next
<1>7. next \in Nat /\ \A a \in Covered(pending) : a < next
  BY <1>4, <1>5, <1>6
<1>8. IsRuns(pending') /\ Covered(pending') = Covered(pending) \union {next}
  BY <1>1, <1>4, <1>7, ExtendRunsCovers
<1>9. Covered(pending') \union ungrouped' = Addresses(registerMap)
  BY <1>1, <1>4, <1>6, <1>8
<1>10. CASE ungrouped' = {}
  <2>1. pc' = "read"
    BY <1>1, <1>10
  <2>2. Covered(pending') = Addresses(registerMap)
    BY <1>9, <1>10
  <2>3. \A k \in DOMAIN pending' : pending'[k][1] + pending'[k][2] \notin Covered(pending')
    BY <1>8, RunsApart, CoveredBy
  <2>4. Reading'
    BY <1>2, <1>3, <1>8, <2>2, <2>3 DEF Reading
  <2> QED
    BY <1>1, <1>2, <1>3, <1>10, <2>1, <2>4 DEF PathInv
<1>11. CASE ungrouped' # {}
  <2>1. pc' = "group"
    BY <1>1, <1>11
  <2>2. ASSUME NEW a \in Covered(pending'), NEW u \in ungrouped'
        PROVE  a < u
    <3>1. u \in ungrouped /\ next <= u /\ u # next /\ u \in Nat
      BY <1>1, <1>4, <1>5, <1>6
    <3>2. a \in Covered(pending) \/ a = next
      BY <1>8
    <3> QED
      BY <1>4, <1>7, <3>1, <3>2
  <2>3. Grouping'
    BY <1>2, <1>8, <1>9, <1>11, <2>2 DEF Grouping
  <2> QED
    BY <1>1, <1>2, <1>3, <2>1, <2>3 DEF PathInv
<1> QED
  BY <1>10, <1>11

\* Without its first, runs are runs; the others keep their order.
LEMMA TailRuns ==
  ASSUME NEW runs, IsRuns(runs), runs # << >>
  PROVE  /\ IsRuns(Tail(runs))
         /\ DOMAIN Tail(runs) = 1 .. Len(runs) - 1
         /\ \A k \in 1 .. Len(runs) - 1 :
              k + 1 \in DOMAIN runs /\ Tail(runs)[k] = runs[k + 1]
         /\ 1 \in DOMAIN runs /\ Head(runs) = runs[1]
<1> DEFINE n == Len(runs) - 1
           t == Tail(runs)
<1>1. runs \in Seq(Nat \X Nat) /\ n \in Nat /\ DOMAIN runs = 1 .. n + 1
  BY RunsAreSeq DEF IsRuns
<1>2. /\ t \in Seq(Nat \X Nat) /\ Len(t) = n
      /\ \A k \in 1 .. n : t[k] = runs[k + 1]
  BY <1>1
<1>3. \A k \in 1 .. n : k + 1 \in DOMAIN runs
  BY <1>1
<1>4. 1 \in DOMAIN runs /\ Head(runs) = runs[1] /\ DOMAIN t = 1 .. n
  BY <1>1, <1>2
<1> HIDE DEF n, t
<1>5. \A k \in 1 .. n : t[k][2] > 0
  BY <1>2, <1>3 DEF IsRuns
<1>6. ASSUME NEW k \in 1 .. n, NEW l \in 1 .. n, k < l
      PROVE  t[k][1] + t[k][2] < t[l][1]
  <2>1. k + 1 < l + 1
    BY <1>1, <1>6
  <2>2. runs[k + 1][1] + runs[k + 1][2] < runs[l + 1][1]
    BY <1>3, <2>1 DEF IsRuns
  <2> QED
    BY <1>2, <2>2
<1>7. IsRuns(t)
  BY <1>1, <1>2, <1>5, <1>6, RunsFrom
<1> QED
  BY <1>2, <1>3, <1>4, <1>7 DEF n, t

LEMMA ReadStep ==
  ASSUME PathInv, ReadRange
  PROVE  PathInv'
<1> DEFINE run == Head(pending)
<1>1. /\ pc = "read" /\ pending # << >>
      /\ UNCHANGED <<registerMap, telemetry, words, ungrouped, points>>
      /\ MapTyped /\ Carried /\ Reading /\ ungrouped = {} /\ points = EmptyFunction
      /\ ValidMap(registerMap) /\ \A a \in DOMAIN values : values[a] = words[a]
  BY DEF PathInv, ReadRange
<1>2. /\ MapTyped' /\ Carried' /\ Addresses(registerMap)' = Addresses(registerMap)
      /\ ValidMap(registerMap)'
  BY <1>1, MapKept
<1>3. CASE ~ReadAllowed(run)
  <2>1. pc' = "readFailed" /\ UNCHANGED <<values, pending>>
    BY <1>3 DEF ReadRange
  <2>2. Reading'
    BY <1>1, <1>2, <2>1 DEF Reading
  <2>3. pending' # << >> /\ ~ReadAllowed(Head(pending'))
    BY <1>1, <1>3, <2>1
  <2> QED
    BY <1>1, <1>2, <2>1, <2>2, <2>3 DEF PathInv, Ended
<1>4. CASE ReadAllowed(run)
  <2>1. /\ values' = [a \in DOMAIN values \union RangeAddresses(run) |->
                        IF a \in RangeAddresses(run) THEN Served(a) ELSE values[a]]
        /\ pending' = Tail(pending) /\ pc' = "read"
    BY <1>1, <1>4 DEF ReadRange
  <2>2. /\ IsRuns(pending) /\ DOMAIN values \union Covered(pending) = Addresses(registerMap)
        /\ \A k \in DOMAIN pending :
             /\ RangeAddresses(pending[k]) \intersect DOMAIN values = {}
             /\ pending[k][1] + pending[k][2] \notin Addresses(registerMap)
    BY <1>1 DEF Reading
  <2>3. /\ IsRuns(pending') /\ DOMAIN pending' = 1 .. Len(pending) - 1
        /\ \A k \in DOMAIN pending' : k + 1 \in DOMAIN pending /\ pending'[k] = pending[k + 1]
        /\ 1 \in DOMAIN pending /\ run = pending[1]
    BY <1>1, <2>1, <2>2, TailRuns
  <2>4. \A k \in DOMAIN pending : k = 1 \/ (k - 1 \in DOMAIN pending' /\ (k - 1) + 1 = k)
    BY <2>2, <2>3, RunsAreSeq
  <2> HIDE DEF run
  <2>5. DOMAIN values' = DOMAIN values \union RangeAddresses(run)
    BY <2>1
  <2>6. ASSUME NEW a
        PROVE  a \in Covered(pending) <=> a \in Covered(pending') \/ a \in RangeAddresses(run)
    <3>1. a \in Covered(pending')
            <=> \E k \in DOMAIN pending' : a \in RangeAddresses(pending[k + 1])
      BY <2>3, CoveredBy
    <3>2. a \in Covered(pending) <=> \E k \in DOMAIN pending : a \in RangeAddresses(pending[k])
      BY CoveredBy
    <3> QED
      BY <2>3, <2>4, <3>1, <3>2
  <2>7. DOMAIN values' \union Covered(pending') = Addresses(registerMap)
    BY <2>2, <2>5, <2>6
  <2>8. ASSUME NEW k \in DOMAIN pending'
        PROVE  /\ RangeAddresses(pending'[k]) \intersect DOMAIN values' = {}
               /\ pending'[k][1] + pending'[k][2] \notin Addresses(registerMap)
    <3>1. k + 1 \in DOMAIN pending /\ pending'[k] = pending[k + 1] /\ k \in Nat /\ k > 0
      BY <2>3, RunsAreSeq
    <3>2. RangeAddresses(pending[k + 1]) \intersect RangeAddresses(pending[1]) = {}
      BY <2>2, <2>3, <3>1, RunsApart
    <3> QED
      BY <2>2, <2>3, <2>5, <3>1, <3>2
  <2>9. Reading'
    BY <1>2, <2>3, <2>7, <2>8 DEF Reading
  <2>10. ASSUME NEW a \in DOMAIN values'
         PROVE  values'[a] = words'[a]
    <3>1. a \in Addresses(registerMap) /\ words' = words
      BY <1>1, <2>7, <2>10
    <3>2. a \in DOMAIN words
      BY <1>1, <3>1 DEF Carried
    <3> QED
      BY <1>1, <2>1, <2>5, <2>10, <3>1, <3>2 DEF Served
  <2> QED
    BY <1>1, <1>2, <2>1, <2>9, <2>10 DEF PathInv
<1> QED
  BY <1>3, <1>4

LEMMA DecodeStep ==
  ASSUME PathInv, DecodePoints
  PROVE  PathInv'
<1>1. /\ pc = "read" /\ pending = << >> /\ pc' = "done" /\ points' = PointsRead
      /\ UNCHANGED <<registerMap, telemetry, words, ungrouped, pending, values>>
      /\ MapTyped /\ Carried /\ Reading /\ ungrouped = {}
      /\ ValidMap(registerMap) /\ \A a \in DOMAIN values : values[a] = words[a]
  BY DEF PathInv, DecodePoints, PointsRead
<1>2. /\ MapTyped' /\ Carried' /\ Addresses(registerMap)' = Addresses(registerMap)
      /\ ValidMap(registerMap)'
  BY <1>1, MapKept
<1>3. Reading'
  BY <1>1, <1>2 DEF Reading
<1>4. PointsRead' = PointsRead
  BY <1>1 DEF PointsRead, Names
<1> QED
  BY <1>1, <1>2, <1>3, <1>4 DEF PathInv, Ended

LEMMA PathStep == PathInv /\ [Next]_vars => PathInv'
<1> SUFFICES ASSUME PathInv, [Next]_vars
             PROVE  PathInv'
  OBVIOUS
<1>1. CASE UNCHANGED vars
  <2>1. /\ UNCHANGED <<registerMap, telemetry, words, ungrouped, pending, values, points>>
        /\ pc' = pc
    BY <1>1 DEF vars
  <2>2. /\ MapTyped' <=> MapTyped
        /\ Addresses(registerMap)' = Addresses(registerMap)
        /\ ValidMap(registerMap)' <=> ValidMap(registerMap)
        /\ Carried' <=> Carried
    BY <2>1, MapKept
  <2>3. (Reading' <=> Reading) /\ (Grouping' <=> Grouping)
    BY <2>1, <2>2 DEF Reading, Grouping
  <2>4. PointsRead' = PointsRead
    BY <2>1 DEF PointsRead, Names
  <2> QED
    BY <2>1, <2>2, <2>3, <2>4 DEF PathInv
<1> QED
  BY <1>1, EncodeStep, LoadMapStep, GroupStep, ReadStep, DecodeStep DEF Next

LEMMA PathInvariance == Spec => []PathInv
  BY PathInit, PathStep, PTL DEF Spec

-----------------------------------------------------------------------------
(* What follows for every map and every snapshot.                          *)

LEMMA PathInvTypes == PathInv => TypeOK
<1> SUFFICES ASSUME PathInv
             PROVE  TypeOK
  OBVIOUS
<1>1. DOMAIN EmptyFunction = {}
  BY DEF EmptyFunction
<1>2. ungrouped \subseteq Addresses(registerMap)
  BY DEF PathInv, Grouping
<1>3. /\ DOMAIN words \subseteq Addresses(registerMap)
      /\ \A a \in DOMAIN words : words[a] \in 0 .. WordSize - 1
  <2>1. CASE words = EmptyFunction
    BY <1>1, <2>1
  <2>2. CASE words # EmptyFunction
    <3>1. Carried
      BY <2>2 DEF PathInv
    <3>2. ASSUME NEW a \in DOMAIN words
          PROVE  words[a] \in 0 .. WordSize - 1
      <4>1. PICK raw \in Int : words[a] = Word(raw)
        BY <3>1 DEF Carried
      <4> QED
        BY <4>1, WordInRange
    <3> QED
      BY <3>1, <3>2 DEF Carried
  <2> QED
    BY <2>1, <2>2
<1>4. \A k \in DOMAIN pending : pending[k] \in Nat \X Nat
  <2>1. pending = << >> \/ IsRuns(pending)
    BY DEF PathInv, Grouping, Reading
  <2> QED
    BY <2>1, RunsAreSeq
<1>5. \A a \in DOMAIN values : values[a] \in 0 .. WordSize - 1
  <2>1. CASE values = EmptyFunction
    BY <1>1, <2>1
  <2>2. CASE values # EmptyFunction
    <3>1. Carried /\ Reading
      BY <2>2 DEF PathInv
    <3>2. DOMAIN values \subseteq DOMAIN words
      BY <3>1 DEF Carried, Reading
    <3> QED
      BY <1>3, <3>2 DEF PathInv
  <2> QED
    BY <2>1, <2>2
<1>6. DOMAIN points \subseteq Names
  BY <1>1 DEF PathInv, PointsRead
<1>7. MapTyped /\ pc \in {"encode", "load", "group", "read"} \union Ended
  BY DEF PathInv
<1> QED
  BY <1>2, <1>3, <1>4, <1>5, <1>6, <1>7 DEF TypeOK, MapTyped

\* A behaviour of the composition is one of each of its parts.
LEMMA PartsOfInputs == MCSpec => Spec /\ ConfigSpec
<1>1. MCInit => Init /\ ConfigInit
  BY DEF MCInit, MapIdle, EnvironmentIdle
<1>2. [MCNext]_mcVars => [Next]_vars /\ [ConfigNext]_configVars
  BY DEF MCNext, mcVars
<1> QED
  BY <1>1, <1>2, PTL DEF MCSpec, Spec, ConfigSpec

(* Words fit their 16 bits on both sides of the wire (encode_registers' mask),
   runs are pairs of numbers, and the environment has its type. *)
THEOREM InputTypes == MCSpec => []Types
<1>1. PathInv /\ ConfigTypeOK => Types
  BY PathInvTypes DEF Types
<1> QED
  BY <1>1, PartsOfInputs, PathInvariance, ConfigInvariance, PTL

\* Of registers with different addresses, or names, each is found by its own.
LEMMA FieldsDiffer ==
  ASSUME MapTyped
  PROVE  /\ AddressesDiffer =>
              \A i, j \in DOMAIN registerMap :
                registerMap[i].address = registerMap[j].address => i = j
         /\ ValidMap(registerMap) =>
              \A i, j \in DOMAIN registerMap :
                registerMap[i].name = registerMap[j].name => i = j
<1> DEFINE n == Len(registerMap)
           adr == [i \in DOMAIN registerMap |-> registerMap[i].address]
           nam == [i \in DOMAIN registerMap |-> registerMap[i].name]
<1>1. n \in Nat /\ DOMAIN registerMap = 1 .. n
  BY MapFacts
<1> HIDE DEF n
<1>2. /\ DOMAIN adr = 1 .. n /\ adr = [i \in 1 .. n |-> adr[i]]
      /\ DOMAIN nam = 1 .. n /\ nam = [i \in 1 .. n |-> nam[i]]
  BY <1>1
<1>3. /\ AddressesDiffer => AllDifferent(adr)
      /\ ValidMap(registerMap) => AllDifferent(nam)
  BY DEF AddressesDiffer, ValidMap
<1>4. \A i \in 1 .. n : adr[i] = registerMap[i].address /\ nam[i] = registerMap[i].name
  BY <1>1
<1> HIDE DEF adr, nam
<1>5. AllDifferent(adr) => \A i, j \in 1 .. n : adr[i] = adr[j] => i = j
  BY <1>1, <1>2, AllDifferentInjective
<1>6. AllDifferent(nam) => \A i, j \in 1 .. n : nam[i] = nam[j] => i = j
  BY <1>1, <1>2, AllDifferentInjective
<1> QED
  BY <1>1, <1>3, <1>4, <1>5, <1>6

LEMMA PathInvStored == PathInv => StoredAsSimulated
<1> SUFFICES ASSUME PathInv, pc = "done", AddressesDiffer, NEW i \in DOMAIN registerMap
             PROVE  2 * Abs(points[registerMap[i].name] - telemetry[registerMap[i].name])
                      <= Abs(registerMap[i].scale)
  BY DEF StoredAsSimulated
<1> DEFINE reg == registerMap[i]
           j == CHOOSE k \in DOMAIN registerMap : registerMap[k].name = reg.name
<1>1. /\ MapTyped /\ Carried /\ Reading /\ ValidMap(registerMap) /\ points = PointsRead
      /\ pending = << >> /\ \A a \in DOMAIN values : values[a] = words[a]
  BY DEF PathInv
<1>2. reg.name \in Names /\ reg.address \in Addresses(registerMap)
  BY DEF Names, Addresses
<1>3. j \in DOMAIN registerMap /\ registerMap[j].name = reg.name
  OBVIOUS
<1>4. j = i
  BY <1>1, <1>3, FieldsDiffer
<1>5. points[reg.name] = Decode(registerMap[j], values[registerMap[j].address])
  BY <1>1, <1>2 DEF PointsRead
<1> HIDE DEF j
<1>6. Covered(pending) = {}
  BY <1>1 DEF Covered
<1>7. values[reg.address] = words[reg.address]
  BY <1>1, <1>2, <1>6 DEF Reading
<1>8. PICK k \in DOMAIN registerMap :
        /\ registerMap[k].address = reg.address
        /\ \E raw \in Raws(k) :
             raw \in Int /\ InWordRange(registerMap[k], raw) /\ words[reg.address] = Word(raw)
  BY <1>1, <1>2 DEF Carried
<1>9. k = i
  BY <1>1, <1>8, FieldsDiffer
<1>10. PICK raw \in RawValues(reg, telemetry[reg.name]) :
         raw \in Int /\ InWordRange(reg, raw) /\ words[reg.address] = Word(raw)
  BY <1>8, <1>9 DEF Raws
<1>11. points[reg.name] = Decode(reg, Word(raw))
  BY <1>4, <1>5, <1>7, <1>10
<1>12. CodecRegister(reg) /\ telemetry[reg.name] \in Int
  BY <1>1, MapFacts DEF CodecRegister, ValidMap
<1> HIDE DEF reg
<1>13. 2 * Abs(Decode(reg, Word(raw)) - telemetry[reg.name]) <= Abs(reg.scale)
  BY <1>10, <1>12, DecodeWithinHalfStep
<1> QED
  BY <1>11, <1>13 DEF reg

(* Whatever register map is mounted, of registers with different addresses,
   and whatever is simulated: what the ingestor stores is the simulated value
   to within half a register step (encode_registers, required_ranges,
   decode). *)
THEOREM StoredIsSimulated == Spec => []StoredAsSimulated
  BY PathInvStored, PathInvariance, PTL

\* As many address sets as runs.
LEMMA RunsCounted ==
  ASSUME NEW runs, IsRuns(runs)
  PROVE  Cardinality({RangeAddresses(runs[k]) : k \in DOMAIN runs}) = Len(runs)
<1> DEFINE n == Len(runs)
           T == {RangeAddresses(runs[k]) : k \in DOMAIN runs}
           f == [k \in 1 .. n |-> RangeAddresses(runs[k])]
<1>1. n \in Nat /\ DOMAIN runs = 1 .. n
  BY RunsAreSeq
<1> HIDE DEF n
<1>2. f \in Surjection(1 .. n, T)
  BY <1>1 DEF Surjection
<1>3. ASSUME NEW k \in 1 .. n, NEW l \in 1 .. n, RangeAddresses(runs[k]) = RangeAddresses(runs[l])
      PROVE  k = l
  <2>1. runs[k][1] \in RangeAddresses(runs[k])
    BY <1>1, RunFacts
  <2> QED
    BY <1>1, <1>3, <2>1, RunsApart
<1>4. f \in Injection(1 .. n, T)
  BY <1>2, <1>3 DEF Injection, IsInjective, Surjection
<1>5. IsFiniteSet(1 .. n) /\ Cardinality(1 .. n) = n
  BY <1>1, FS_Interval
<1> HIDE DEF f, T
<1>6. Cardinality(T) = n
  BY <1>2, <1>4, <1>5, FS_Surjection
<1> QED
  BY <1>6 DEF T, n

LEMMA PathInvReads == PathInv => ReadsExactlyTheMap
<1> SUFFICES ASSUME PathInv
             PROVE  ReadsExactlyTheMap
  OBVIOUS
<1>1. ASSUME pc = "readFailed"
      PROVE  Oversize(Addresses(registerMap))
  <2> DEFINE run == Head(pending)
             a == run[1]
  <2>1. /\ MapTyped /\ ValidMap(registerMap) /\ Reading
        /\ pending # << >> /\ ~ReadAllowed(run)
    BY <1>1 DEF PathInv
  <2>2. IsRuns(pending) /\ Covered(pending) \subseteq Addresses(registerMap)
    BY <2>1 DEF Reading
  <2>3. 1 \in DOMAIN pending /\ run = pending[1]
    BY <2>1, <2>2, TailRuns
  <2>4. /\ a \in Nat /\ run[2] \in Nat /\ run[2] > 0
        /\ \A x : x \in RangeAddresses(run) <=> x \in Int /\ a <= x /\ x < a + run[2]
    BY <2>2, <2>3, RunFacts
  <2>5. \A x : x \in RangeAddresses(run) => x \in Addresses(registerMap)
    BY <2>2, <2>3, CoveredBy
  <2>6. a + run[2] - 1 <= LastAddress
    <3>1. a + run[2] - 1 \in RangeAddresses(run)
      BY <2>4
    <3> QED
      BY <2>1, <2>5, <3>1, ValidAddresses
  <2> HIDE DEF run
  <2>7. MaxReadCount \in Nat /\ LastAddress \in Nat
    BY DEF MaxReadCount, LastAddress
  <2>8. a \in 0 .. LastAddress
    BY <2>4, <2>6, <2>7
  <2>9. ~(run[2] <= MaxReadCount)
    BY <2>1, <2>4, <2>6, <2>7, <2>8 DEF ReadAllowed
  <2>10. a .. a + MaxReadCount \subseteq Addresses(registerMap)
    BY <2>4, <2>5, <2>7, <2>9
  <2>11. a \in Addresses(registerMap)
    BY <2>4, <2>5
  <2> QED
    BY <2>10, <2>11 DEF Oversize
<1>2. ASSUME pc \in {"read", "done"}
      PROVE  LET unread == {RangeAddresses(pending[k]) : k \in DOMAIN pending}
                 gapsKept == \A k \in DOMAIN pending :
                               pending[k][1] + pending[k][2] \notin Addresses(registerMap)
             IN  /\ DOMAIN values \union UNION unread = Addresses(registerMap)
                 /\ \A run \in unread : run \intersect DOMAIN values = {}
                 /\ Cardinality(unread) = Len(pending)
                 /\ \A r, s \in unread : r # s => r \intersect s = {}
                 /\ gapsKept
  <2>1. Reading
    BY <1>2 DEF PathInv
  <2>2. IsRuns(pending)
    BY <2>1 DEF Reading
  <2>3. \A k, l \in DOMAIN pending :
          RangeAddresses(pending[k]) # RangeAddresses(pending[l])
            => RangeAddresses(pending[k]) \intersect RangeAddresses(pending[l]) = {}
    BY <2>2, RunsApart
  <2>4. Cardinality({RangeAddresses(pending[k]) : k \in DOMAIN pending}) = Len(pending)
    BY <2>2, RunsCounted
  <2> QED
    BY <2>1, <2>3, <2>4 DEF Reading, Covered
<1> QED
  BY <1>1, <1>2 DEF ReadsExactlyTheMap

(* The ingestor asks for every mapped address, for each once and for no
   other, in the fewest reads; only a run of more than MaxReadCount addresses
   makes a valid map unreadable (required_ranges, _validate_read_request). *)
THEOREM ReadsAreExact == Spec => []ReadsExactlyTheMap
  BY PathInvReads, PathInvariance, PTL
=============================================================================
