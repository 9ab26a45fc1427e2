-------------------------- MODULE RegisterContract --------------------------
(***************************************************************************)
(* The Modbus register contract (a register-map JSON file) as the two      *)
(* services that share it see it: the simulator encodes telemetry values   *)
(* into 16-bit words with it, the ingestor validates it, groups its        *)
(* addresses into reads and decodes the words.  Operators only.            *)
(*                                                                         *)
(* A register is a record [name, address, dataType, scale, offset, point]; *)
(* point is its (bus, phase, signal) combination.  Values, scales and      *)
(* offsets are integers in one common unit, the last decimal the contract  *)
(* keeps; a register map is a sequence of registers.                       *)
(***************************************************************************)
EXTENDS Integers, Sequences, FiniteSets, SequencesExt

\* The width of a holding register, and the PDU limits of one FC3 read.
WordSize == 65536
LastAddress == 65535
MaxReadCount == 125

SupportedDataTypes == {"uint16", "int16"}

Abs(n) == IF n < 0 THEN -n ELSE n

Addresses(registerMap) == {registerMap[i].address : i \in DOMAIN registerMap}

-----------------------------------------------------------------------------
(* The simulator's half: power_sim/registers.py                            *)

\* round(n / d) in binary floating point.  The nearest integer; when n / d
\* lies half-way between two integers the quotient's representation error
\* decides, so either of them may come out.
Nearest(n, d) ==
  LET num == IF d < 0 THEN -n ELSE n
      q   == num \div Abs(d)
  IN  {raw \in {q, q + 1} : 2 * Abs(num - raw * Abs(d)) <= Abs(d)}

RawValues(reg, value) == Nearest(value - reg.offset, reg.scale)

\* Any data type but int16 is range-checked as an unsigned word.
InWordRange(reg, raw) ==
  IF reg.dataType = "int16" THEN -32768 <= raw /\ raw <= 32767
                            ELSE 0 <= raw /\ raw <= 65535

\* Mutant of Word: the mask is forgotten.
WordUnmasked(raw) == raw

\* A negative int16 is stored in two's complement, raw & 0xFFFF.
Word(raw) == raw % WordSize

\* encode_registers for the rounded values raw[i] of the registers.  Of two
\* registers with one address the later one in the contract is kept.
Encoded(registerMap, raw) ==
  [a \in Addresses(registerMap) |->
     LET i == Max({k \in DOMAIN registerMap : registerMap[k].address = a})
     IN  Word(raw[i])]

-----------------------------------------------------------------------------
(* The ingestor's half: gridguard_modbus_ingestor/contract.py, clients.py  *)

AllDifferent(seq) == Cardinality(Range(seq)) = Len(seq)

\* _parse_register and _validate_register_map: what validate-map accepts.
\* Nothing requires the addresses to be different.
ValidRegister(reg) ==
  /\ reg.address \in 0 .. LastAddress
  /\ reg.dataType \in SupportedDataTypes
  /\ reg.scale # 0

ValidMap(registerMap) ==
  /\ \A i \in DOMAIN registerMap : ValidRegister(registerMap[i])
  /\ registerMap # << >>
  /\ AllDifferent([i \in DOMAIN registerMap |-> registerMap[i].name])
  /\ AllDifferent([i \in DOMAIN registerMap |-> registerMap[i].point])

\* Mutant of ExtendRuns: a gap of one address is read along.
ExtendRunsOverGap(runs, address) ==
  IF runs # << >> /\ address <= Last(runs)[1] + Last(runs)[2] + 1
  THEN Append(Front(runs), <<Last(runs)[1], address - Last(runs)[1] + 1>>)
  ELSE Append(runs, <<address, 1>>)

\* One turn of required_ranges' loop over the mapped addresses in ascending
\* order: an address that follows the last run extends it, any other starts
\* a run <<start, count>>.
ExtendRuns(runs, address) ==
  IF runs # << >> /\ address = Last(runs)[1] + Last(runs)[2]
  THEN Append(Front(runs), <<Last(runs)[1], Last(runs)[2] + 1>>)
  ELSE Append(runs, <<address, 1>>)

RangeAddresses(run) == run[1] .. (run[1] + run[2] - 1)

\* _validate_read_request, for a unit id that is already in 1..247.
ReadAllowed(run) ==
  /\ run[1] \in 0 .. LastAddress
  /\ run[2] \in 1 .. MaxReadCount
  /\ run[1] + run[2] - 1 <= LastAddress

\* Mutant of Signed: the lowest negative word is taken for positive.
SignedAboveBorder(reg, word) ==
  IF reg.dataType = "int16" /\ word > 32768 THEN word - WordSize ELSE word

\* RegisterDefinition.decode
Signed(reg, word) ==
  IF reg.dataType = "int16" /\ word >= 32768 THEN word - WordSize ELSE word

Decode(reg, word) == Signed(reg, word) * reg.scale + reg.offset
=============================================================================
