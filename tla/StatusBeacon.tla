---------------------------- MODULE StatusBeacon ----------------------------
(***************************************************************************)
(* What the ingestor's status file promises to whoever probes it: a stamp  *)
(* appears in the file only on the strength of a batch that InfluxDB       *)
(* accepted in the same cycle, each such batch backs at most one stamp,    *)
(* and between two stamps the file may be seen empty.                      *)
(***************************************************************************)

VARIABLES
    file,      \* "absent", "empty" or "stamped"
    backing    \* "none", "delivered" (a batch no stamp stands for yet) or
               \* "stamping" (its stamp is being written)

beaconVars == <<file, backing>>

Init == file = "absent" /\ backing = "none"

Deliver == backing = "none" /\ backing' = "delivered" /\ UNCHANGED file

Begin ==
  /\ backing = "delivered"
  /\ backing' = "stamping"
  /\ file' = "empty"

Finish ==
  /\ backing = "stamping"
  /\ backing' = "none"
  /\ file' = "stamped"

\* The batch's stamp is given up; the file stays as it is.
Abandon == backing # "none" /\ backing' = "none" /\ UNCHANGED file

\* The directory of the file did not outlive the container.
Forget == file' = "absent" /\ backing' = "none"

Next == Deliver \/ Begin \/ Finish \/ Abandon \/ Forget

Spec == Init /\ [][Next]_beaconVars
=============================================================================
