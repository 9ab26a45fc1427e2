--------------------------- MODULE MCModbusClient ---------------------------
(***************************************************************************)
(* ModbusClient for TLC: reads of one and two registers, the requests that *)
(* are refused, and answers of every length around the right ones, with    *)
(* right and wrong function codes and byte counts.                         *)
(***************************************************************************)
EXTENDS ModbusClient

MCRequest(start, count, unit) == [start |-> start, count |-> count, unit |-> unit]

MCRequests ==
  { MCRequest(0, 1, 1), MCRequest(0, 2, 1), MCRequest(LastAddress, 1, 2),
    MCRequest(0, 0, 1), MCRequest(0, MaxReadCount + 1, 1),
    MCRequest(LastAddress, 2, 1), MCRequest(0, 1, 248) }

MCUnits == {1, 2}

\* An exception's, one and two registers', and some that are none of these.
MCLengths == {0, 3, 5, 6, 7, 8}

\* Function code, byte count and up to five bytes, which are different.
MCData == <<1, 200, 0, 7, 255>>

MCBodies ==
  {<< >>, <<3>>} \union
  {<<code, size>> \o SubSeq(MCData, 1, n) : code \in {3, 4, 131}, size \in {2, 4}, n \in 0 .. 5}
=============================================================================
