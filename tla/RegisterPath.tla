---------------------------- MODULE RegisterPath ----------------------------
(***************************************************************************)
(* One value's way through the register contract: the simulator encodes a  *)
(* snapshot, its Modbus block serves it, the ingestor loads the same map,  *)
(* reads the block one contiguous run at a time and decodes every          *)
(* register.  The map need not be a valid one: the simulator does not      *)
(* validate it, the ingestor does.                                         *)
(***************************************************************************)
EXTENDS RegisterContract

CONSTANTS
    Cases          \* records of register maps that may be mounted in both services
                   \* and the telemetry values their registers may then hold

ASSUME CasesAssumption ==
  \A case \in Cases :
    /\ case.values \subseteq Int
    /\ \A map \in case.maps :
         /\ map \in Seq(Range(map))
         /\ \A i \in DOMAIN map :
              map[i].address \in Int /\ map[i].scale \in Int /\ map[i].offset \in Int

VARIABLES
    registerMap,   \* the mounted file
    telemetry,     \* telemetry[name]: the simulated snapshot
    pc,            \* "encode", "load", "read", "decode", or how it ended
    words,         \* the simulator's _registers
    ungrouped,     \* the addresses required_ranges has not looked at yet
    pending,       \* the ranges still to be read
    values,        \* read_register_values' values: address -> word
    points         \* points[name]: the decoded telemetry value

vars == <<registerMap, telemetry, pc, words, ungrouped, pending, values, points>>

Ended == {"unencodable", "invalid", "readFailed", "done"}

Names == {registerMap[i].name : i \in DOMAIN registerMap}

EmptyFunction == [x \in {} |-> 0]

Init ==
  /\ \E case \in Cases :
       registerMap \in case.maps /\ telemetry \in [Names -> case.values]
  /\ pc = "encode"
  /\ words = EmptyFunction
  /\ ungrouped = {}
  /\ pending = << >>
  /\ values = EmptyFunction
  /\ points = EmptyFunction

-----------------------------------------------------------------------------
Raws(i) == RawValues(registerMap[i], telemetry[registerMap[i].name])

\* The registers whose rounding is a tie.
Ties == {i \in DOMAIN registerMap : Cardinality(Raws(i)) = 2}

\* TelemetryState.refresh.  The simulator does not validate the map, but a
\* zero scale raises ZeroDivisionError, a value out of the word's range
\* ValueError, and build_device's max() fails on an empty map.
Encode ==
  /\ pc = "encode"
  /\ IF registerMap = << >> \/ \E i \in DOMAIN registerMap : registerMap[i].scale = 0
     THEN /\ pc' = "unencodable"
          /\ UNCHANGED words
     ELSE \E up \in SUBSET Ties :
            LET raw == [i \in DOMAIN registerMap |->
                          IF i \in up THEN Max(Raws(i)) ELSE Min(Raws(i))]
            IN  IF \A i \in DOMAIN registerMap : InWordRange(registerMap[i], raw[i])
                THEN /\ words' = Encoded(registerMap, raw)
                     /\ pc' = "load"
                ELSE /\ pc' = "unencodable"
                     /\ UNCHANGED words
  /\ UNCHANGED <<registerMap, telemetry, ungrouped, pending, values, points>>

\* run_once: load_register_map.
LoadMap ==
  /\ pc = "load"
  /\ IF ValidMap(registerMap)
     THEN /\ ungrouped' = Addresses(registerMap)
          /\ pc' = "group"
     ELSE /\ pc' = "invalid"
          /\ UNCHANGED ungrouped
  /\ UNCHANGED <<registerMap, telemetry, words, pending, values, points>>

\* One turn of required_ranges' loop; the last one ends it.
GroupAddress ==
  /\ pc = "group"
  /\ LET next == Min(ungrouped)
     IN  /\ pending' = ExtendRuns(pending, next)
         /\ ungrouped' = ungrouped \ {next}
  /\ pc' = IF ungrouped' = {} THEN "read" ELSE "group"
  /\ UNCHANGED <<registerMap, telemetry, words, values, points>>

\* The Modbus block: update_registers lays the encoded words over a block
\* that is zero everywhere else.
Served(address) == IF address \in DOMAIN words THEN words[address] ELSE 0

\* One turn of read_register_values' loop.
ReadRange ==
  /\ pc = "read"
  /\ pending # << >>
  /\ LET run == Head(pending)
     IN  IF ReadAllowed(run)
         THEN /\ values' = [a \in DOMAIN values \union RangeAddresses(run) |->
                              IF a \in RangeAddresses(run) THEN Served(a) ELSE values[a]]
              /\ pending' = Tail(pending)
              /\ UNCHANGED pc
         ELSE /\ pc' = "readFailed"
              /\ UNCHANGED <<values, pending>>
  /\ UNCHANGED <<registerMap, telemetry, words, ungrouped, points>>

\* telemetry_points
DecodePoints ==
  /\ pc = "read"
  /\ pending = << >>
  /\ points' = [name \in Names |->
                  LET reg == registerMap[CHOOSE i \in DOMAIN registerMap :
                                           registerMap[i].name = name]
                  IN  Decode(reg, values[reg.address])]
  /\ pc' = "done"
  /\ UNCHANGED <<registerMap, telemetry, words, ungrouped, pending, values>>

Next == Encode \/ LoadMap \/ GroupAddress \/ ReadRange \/ DecodePoints

Spec == Init /\ [][Next]_vars

-----------------------------------------------------------------------------
(* Words fit their 16 bits on both sides of the wire (encode_registers'
   mask, Modbus registers), and every variable has its type. *)
TypeOK ==
  /\ \E case \in Cases :
       registerMap \in case.maps /\ telemetry \in [Names -> case.values]
  /\ pc \in {"encode", "load", "group", "read"} \union Ended
  /\ ungrouped \subseteq Addresses(registerMap)
  /\ DOMAIN words \subseteq Addresses(registerMap)
  /\ \A a \in DOMAIN words : words[a] \in 0 .. WordSize - 1
  /\ \A k \in DOMAIN pending : pending[k] \in Nat \X Nat
  /\ \A a \in DOMAIN values : values[a] \in 0 .. WordSize - 1
  /\ DOMAIN points \subseteq Names

\* No register of the map shares its address with another.
AddressesDiffer == AllDifferent([i \in DOMAIN registerMap |-> registerMap[i].address])

(* What the ingestor stores is what the simulator simulated, to within half
   a register step: sign, width, offset, order of the reads and grouping of
   the addresses on the two sides of the wire undo each other.  (registers.py
   encode_registers against contract.py decode and required_ranges.) *)
StoredAsSimulated ==
  (pc = "done" /\ AddressesDiffer) =>
    \A i \in DOMAIN registerMap :
      LET reg == registerMap[i]
      IN  2 * Abs(points[reg.name] - telemetry[reg.name]) <= Abs(reg.scale)

\* More consecutive addresses than a read may ask for.
Oversize(addresses) ==
  \E a \in addresses : a .. a + MaxReadCount \subseteq addresses

(* The reads ask for every mapped address, for each of them once, and for no
   unmapped address between them, where the block holds a meaningless zero;
   two runs are never adjacent, so no smaller number of reads would do.  A
   map that validate-map accepts and the simulator can encode fails to be read
   only for a run of more than MaxReadCount addresses, which is not split.
   (required_ranges, _validate_read_request) *)
ReadsExactlyTheMap ==
  /\ pc = "readFailed" => Oversize(Addresses(registerMap))
  /\ pc \in {"read", "done"} =>
       LET unread == {RangeAddresses(pending[k]) : k \in DOMAIN pending}
           \* One more than the last address of a run is never asked for.
           gapsKept == \A k \in DOMAIN pending :
                         pending[k][1] + pending[k][2] \notin Addresses(registerMap)
       IN  /\ DOMAIN values \union UNION unread = Addresses(registerMap)
           /\ \A run \in unread : run \intersect DOMAIN values = {}
           /\ Cardinality(unread) = Len(pending)
           /\ \A r, s \in unread : r # s => r \intersect s = {}
           /\ gapsKept
=============================================================================
