------------------------------ MODULE PointStore ------------------------------
(***************************************************************************)
(* What the callers of QdrantVectorStore rely on, and what Ingestion and   *)
(* Retrieval assume of it.  A call takes effect at some time, or several,  *)
(* between its start and its end; one that succeeds has; one that fails    *)
(* may have.  Outside production a delete may succeed without effect, a    *)
(* search overlook what is there, and a restart forget.                    *)
(***************************************************************************)
CONSTANTS FileIds, Calls

VARIABLES
    production,
    held,       \* the files whose points are somewhere
    request     \* call -> what was asked, how far it is, what a search found

storeVars == <<production, held, request>>

Ops == {"upsert", "search", "delete"}
Open == {"asked", "done"}

Unasked(f) == [op |-> "upsert", file |-> f, state |-> "idle", found |-> FALSE]

StoreInit ==
    /\ production \in BOOLEAN
    /\ held = {}
    /\ \E f \in FileIds : request = [c \in Calls |-> Unasked(f)]

Ask(c) ==
    /\ request[c].state = "idle"
    /\ \E op \in Ops, f \in FileIds :
          request' = [request EXCEPT ![c] = [op |-> op, file |-> f, state |-> "asked", found |-> FALSE]]
    /\ UNCHANGED <<production, held>>

TakeEffect(c) ==
    /\ request[c].state \in Open
    /\ \/ request[c].op = "upsert" /\ held' = held \cup {request[c].file}
       \/ request[c].op = "delete" /\ held' = held \ {request[c].file}
    /\ request' = [request EXCEPT ![c].state = "done"]
    /\ UNCHANGED production

Look(c) ==
    /\ request[c].state \in Open /\ request[c].op = "search"
    /\ \E found \in BOOLEAN :
          /\ found => request[c].file \in held
          /\ production => found = (request[c].file \in held)
          /\ request' = [request EXCEPT ![c] = [op |-> "search", file |-> request[c].file,
                                               state |-> "done", found |-> found]]
    /\ UNCHANGED <<production, held>>

Succeed(c) ==
    /\ \/ request[c].state = "done"
       \/ request[c].state = "asked" /\ request[c].op = "delete" /\ ~production
    /\ request' = [request EXCEPT ![c].state = "ok"]
    /\ UNCHANGED <<production, held>>

Fail(c) ==
    /\ request[c].state \in Open
    /\ request' = [request EXCEPT ![c].state = "failed"]
    /\ UNCHANGED <<production, held>>

(* Calls under way end with their callers. *)
Restart ==
    /\ held' \in SUBSET held /\ (production => held' = held)
    /\ request' = [c \in Calls |-> IF request[c].state \in Open
                                   THEN [request[c] EXCEPT !.state = "failed"] ELSE request[c]]
    /\ UNCHANGED production

StoreNext ==
    \/ \E c \in Calls : Ask(c) \/ TakeEffect(c) \/ Look(c) \/ Succeed(c) \/ Fail(c)
    \/ Restart

StoreSpec == StoreInit /\ [][StoreNext]_storeVars
===============================================================================
