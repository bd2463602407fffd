----------------------------- MODULE MCIngestion -----------------------------
(***************************************************************************)
(* Two files, two delete requests.  The safety run starts from an empty    *)
(* system.  Liveness needs every interleaving twice over, so its run       *)
(* starts with at most one file yet to be uploaded; the others are what a  *)
(* finished ingestion leaves: enough for a worker against two deletes, and *)
(* for two folder deletes that lock the same two files in opposite order.  *)
(***************************************************************************)
EXTENDS Ingestion, Naturals, TLC

Symmetry == Permutations(Files) \cup Permutations(Requests)

SettledInit ==
    \E fresh \in SUBSET Files :
        /\ Cardinality(fresh) <= 1
        /\ LET Settled(old, new) == [f \in Files |-> IF f \in fresh THEN new ELSE old]
           IN  /\ file = Settled("ready", "none")
               /\ task = Settled("completed", "none")
               /\ chunks = Settled("vectored", "none")
               /\ points = Settled(TRUE, FALSE)
               /\ memory = Settled("none", "none")
               /\ stored = Settled(TRUE, FALSE)
               /\ stage = Settled("done", "new")
               /\ draft = Settled("vectored", "none")
        /\ del = [r \in Requests |-> Untouched]
        \* the history is of no use to liveness: its last value, so that it stays
        /\ attempt = [f \in Files |-> "during"]
        \* elsewhere a call of the store that fails goes on as one that succeeds
        /\ environment = "production"

LiveSpec == SettledInit /\ [][Next]_vars /\ Fairness
=============================================================================
