------------------------------ MODULE MCInputs ------------------------------
(***************************************************************************)
(* What a service is given before it runs, its register map (RegisterPath) *)
(* and its environment (Configuration), for TLC: two models that share no  *)
(* variable, of which a behaviour is one or the other.                     *)
(*                                                                         *)
(* Every map of one or two registers over three addresses, the invalid     *)
(* maps the ingestor must refuse, and runs of one register less, exactly   *)
(* and one more than a PDU carries; and the numbers on both sides of every *)
(* border of a setting's range.                                            *)
(***************************************************************************)
EXTENDS RegisterPath, Configuration

MCRegister ==
  [name : {"a"}, point : {"p"}, address : {0, 1, 3}, dataType : SupportedDataTypes,
   scale : {1, -3, 10}, offset : {0, 7}]

MCPairs ==
  {<<r, [s EXCEPT !.name = "b", !.point = "q"]>> : r \in MCRegister, s \in
     {s \in MCRegister : s.offset = 0 /\ s.scale \in {1, 10}}}

MCPlain(name, point, address) ==
  [name |-> name, point |-> point, address |-> address, dataType |-> "uint16",
   scale |-> 10, offset |-> 0]

\* Maps the simulator serves and the ingestor refuses, and maps neither takes.
MCInvalid ==
  { << >>,
    <<[MCPlain("a", "p", 0) EXCEPT !.scale = 0]>>,
    <<[MCPlain("a", "p", 0) EXCEPT !.dataType = "uint32"]>>,
    <<MCPlain("a", "p", LastAddress + 1)>>,
    <<MCPlain("a", "p", 0), MCPlain("a", "q", 1)>>,
    <<MCPlain("a", "p", 0), MCPlain("b", "p", 1)>> }

\* A run of registers; their names and points are their indices.
MCRun(first, count) ==
  [i \in 1 .. count |-> MCPlain(i, i, first + i - 1)]

MCTriples ==
  {<<MCPlain("a", "p", x), MCPlain("b", "q", y), MCPlain("c", "r", z)>> :
     x, y, z \in {0, 1, 2, 4, LastAddress - 1, LastAddress}}

MCLongRuns == {MCRun(0, MaxReadCount), MCRun(5, MaxReadCount + 1)}

MCSingles == {<<r>> : r \in MCRegister}

MCShortMaps == MCSingles \union MCPairs \union MCInvalid

\* Values on both sides of the words' borders, for the scales above.
MCBorderValues ==
  {-327685, -32769, -32768, -1, 0, 4, 5, 15, 32767, 32768, 65535, 65536, 655354, 655355}

\* One value for the maps that are about the grouping of the addresses.
MCOneValue == {10120}

MCCases ==
  { [maps |-> MCShortMaps, values |-> MCBorderValues],
    [maps |-> MCTriples \union MCLongRuns, values |-> MCOneValue] }

MCPorts == {0, 1, 65535, 65536}
MCUnits == {0, 1, 247, 248}
MCFlags == {0, 1, 2}
MCHours == {-1, 0, 24}
MCSeconds == {0, 1}

-----------------------------------------------------------------------------
VARIABLE part   \* "map" or "environment", for good

mcVars == <<part, vars, configVars>>

\* The part that does not run stays in one of its initial states.
MapIdle ==
  /\ registerMap = << >>
  /\ telemetry = EmptyFunction
  /\ Init

EnvironmentIdle ==
  /\ service = "fake_source"
  /\ env = Unset
  /\ ConfigInit

MCInit ==
  \/ part = "map" /\ Init /\ EnvironmentIdle
  \/ part = "environment" /\ MapIdle /\ ConfigInit

MCNext ==
  \/ part = "map" /\ Next /\ UNCHANGED <<part, configVars>>
  \/ part = "environment" /\ ConfigNext /\ UNCHANGED <<part, vars>>

MCSpec == MCInit /\ [][MCNext]_mcVars

(* Words fit their 16 bits on both sides of the wire (encode_registers' mask,
   Modbus registers), and both parts' variables have their types. *)
Types == TypeOK /\ ConfigTypeOK
=============================================================================
