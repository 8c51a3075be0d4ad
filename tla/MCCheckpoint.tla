----------------------------- MODULE MCCheckpoint -----------------------------
(* A small instance of Checkpoint: a patch of one file that needs an           *)
(* approval, and a read of that file that does not.                            *)
EXTENDS Checkpoint, TLC

CONSTANTS w1, w2, c1, c2

MCIntents == {"patch", "read"}
MCRisk    == [i \in MCIntents |-> IF i = "patch" THEN "WRITE" ELSE "READ"]
MCNeeds   == [i \in MCIntents |-> i = "patch"]
MCIdem    == [i \in MCIntents |-> i = "read"]
MCWrites  == [i \in MCIntents |-> IF i = "patch" THEN {"file"} ELSE {}]
MCCovers  == [i \in MCIntents |-> {"file"}]

Symmetry == Permutations({w1, w2}) \cup Permutations({c1, c2})
===============================================================================
