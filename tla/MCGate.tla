-------------------------------- MODULE MCGate --------------------------------
(* A small instance of Gate: an approved write, a plain write and a read.    *)
EXTENDS Gate, TLC

CONSTANTS w1, w2, c1, c2, c3

MCIntents  == {"patch", "run_cmd", "read"}
MCRisk     == [i \in MCIntents |-> CASE i = "patch" -> "WRITE"
                                     [] i = "run_cmd" -> "EXECUTE"
                                     [] i = "read" -> "READ"]
MCNeeds    == [i \in MCIntents |-> i = "patch"]
MCIdem     == [i \in MCIntents |-> i = "read"]

Symmetry == Permutations({w1, w2}) \cup Permutations({c1, c2, c3})
===============================================================================
