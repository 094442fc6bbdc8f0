--------------------------- MODULE MCFlightCatalog --------------------------
(***************************************************************************)
(* A day of four slots of six hours.  The business day begins two slots    *)
(* before the midnight of UTC, which is the server's.  One seed departs    *)
(* tomorrow; a request asks for the same number on the same business day   *)
(* before or after that midnight, or for a flight that has departed.       *)
(***************************************************************************)
EXTENDS FlightCatalog, TLC

MCSchedule == {[departure |-> 1, arrive |-> 2], [departure |-> 3, arrive |-> 4]}
MCSeeds == {[number |-> "VN", model |-> "AT72", offset |-> 0,
             departure |-> 3, arrive |-> 0, status |-> "SCHEDULED"]}
MCManual == {<<1, "A">>, <<9, "Z">>}
Symmetry == Permutations(Client)
=============================================================================
