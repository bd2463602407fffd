------------------------------ MODULE VectorStore -----------------------------
(***************************************************************************)
(* QdrantVectorStore: calls of upsert_chunks, search and delete_by_file    *)
(* that overlap, each a short dialogue with Qdrant (get_collection,        *)
(* create_collection, the request itself) that may break at any point, and *)
(* the dictionary of the process that stands in outside production.  The   *)
(* points of a file are one thing; a search is for one file.               *)
(***************************************************************************)
EXTENDS FiniteSets

CONSTANTS
    FileIds,
    Calls       \* bound: so many calls

VARIABLES
    environment,    \* settings.ENVIRONMENT
    installed,      \* qdrant_client can be imported
    collection,     \* Qdrant has the collection
    points,         \* files whose points Qdrant has
    memory,         \* files whose points are in _memory_points
    call

vectorVars == <<environment, installed, collection, points, memory, call>>
settings == <<environment, installed>>

Ops == {"upsert", "search", "delete"}

(* applied: whether the call has had its effect; of no concern to the code *)
Call(op, f, phase) ==
    [op |-> op, file |-> f, phase |-> phase, found |-> FALSE, applied |-> FALSE]

\* Mutant: the dictionary stands in everywhere.
AllowMemoryFallbackAnywhere == TRUE

AllowMemoryFallback == environment # "production"

VectorInit ==
    /\ environment \in {"production", "development"}
    /\ installed \in BOOLEAN
    /\ collection \in BOOLEAN
    /\ points = {} /\ memory = {}
    /\ \E f \in FileIds : call = [c \in Calls |-> Call("upsert", f, "idle")]

Begin(c) ==
    /\ call[c].phase = "idle"
    /\ \E op \in Ops, f \in FileIds : call' = [call EXCEPT ![c] = Call(op, f, "called")]
    /\ UNCHANGED <<settings, collection, points, memory>>

AtRest == {"idle", "ok", "failed"}

Became(c, phase, found, applied) ==
    [op |-> call[c].op, file |-> call[c].file, phase |-> phase, found |-> found, applied |-> applied]
Becomes(c, phase, found, applied) ==
    call' = [call EXCEPT ![c] = Became(c, phase, found, applied)]
Goes(c, phase) == Becomes(c, phase, call[c].found, call[c].applied)

(* Qdrant cannot be used: raise, or make do with the dictionary; `mem' is  *)
(* what is in it by now.  A delete has been there already, and returns.    *)
FallBack(c, mem) ==
    LET f == call[c].file
    IN  /\ AllowMemoryFallback
        /\ memory' = IF call[c].op = "upsert" THEN mem \cup {f} ELSE mem
        /\ Becomes(c, "done", call[c].op = "search" /\ f \in mem,
                   call[c].applied \/ call[c].op # "delete" \/ f \notin points \cup mem)

Refused(c, mem) ==
    \/ ~AllowMemoryFallback /\ memory' = mem /\ Goes(c, "failed")
    \/ FallBack(c, mem)

(* A delete empties the dictionary before anything else, in every          *)
(* environment.                                                            *)
Enter(c) ==
    LET f == call[c].file
        mem == IF call[c].op = "delete" THEN memory \ {f} ELSE memory
    IN  /\ call[c].phase = "called"
        /\ \/ /\ installed
              /\ memory' = mem
              /\ Becomes(c, "ensuring", FALSE, call[c].op = "delete" /\ f \notin points)
           \/ ~installed /\ Refused(c, mem)
        /\ UNCHANGED <<settings, collection, points>>

(* ensure_collection.  Whatever get_collection raises is taken for a       *)
(* missing collection.                                                     *)
GetCollection(c) ==
    /\ call[c].phase = "ensuring"
    /\ \/ collection /\ Goes(c, "sending")
       \/ Goes(c, "creating")
    /\ UNCHANGED <<settings, collection, points, memory>>

CreateCollection(c) ==
    /\ call[c].phase = "creating" /\ ~collection
    /\ collection' = TRUE
    /\ Goes(c, "sending") \/ Goes(c, "creating")    \* the answer may be lost
    /\ UNCHANGED <<settings, points, memory>>

(* Another call created it, or Qdrant cannot be reached. *)
CreateFails(c) ==
    /\ call[c].phase = "creating"
    /\ Refused(c, memory)
    /\ UNCHANGED <<settings, collection, points>>

(* Qdrant does what it is asked. *)
QdrantActs(c) ==
    LET f == call[c].file
    IN  /\ call[c].phase = "sending"
        /\ points' = IF call[c].op = "upsert" THEN points \cup {f}
                     ELSE IF call[c].op = "delete" THEN points \ {f} ELSE points
        /\ Becomes(c, "sent", call[c].op = "search" /\ f \in points,
                   call[c].applied \/ call[c].op # "delete" \/ f \notin memory)
        /\ UNCHANGED <<settings, collection, memory>>

QdrantAnswers(c) ==
    /\ call[c].phase = "sent"
    /\ Goes(c, "done")
    /\ UNCHANGED <<settings, collection, points, memory>>

(* An error, or no answer in time; Qdrant may have acted. *)
QdrantFails(c) ==
    /\ call[c].phase \in {"sending", "sent"}
    /\ Refused(c, memory)
    /\ UNCHANGED <<settings, collection, points>>

Return(c) ==
    /\ call[c].phase = "done"
    /\ Goes(c, "ok")
    /\ UNCHANGED <<settings, collection, points, memory>>

(* The dictionary and the calls go with the process. *)
Restart ==
    /\ memory' = {}
    /\ call' = [c \in Calls |-> IF call[c].phase \in AtRest
                                THEN call[c] ELSE Became(c, "failed", call[c].found, call[c].applied)]
    /\ UNCHANGED <<settings, collection, points>>

VectorNext ==
    \/ \E c \in Calls :
          \/ Begin(c) \/ Enter(c) \/ GetCollection(c) \/ CreateCollection(c) \/ CreateFails(c)
          \/ QdrantActs(c) \/ QdrantAnswers(c) \/ QdrantFails(c) \/ Return(c)
    \/ Restart

VectorSpec == VectorInit /\ [][VectorNext]_vectorVars

-----------------------------------------------------------------------------
State(c) ==
    IF call[c].phase \in AtRest THEN call[c].phase
    ELSE IF call[c].applied THEN "done" ELSE "asked"

Asked == [c \in Calls |-> [op |-> call[c].op, file |-> call[c].file,
                           state |-> State(c), found |-> call[c].found]]

Store == INSTANCE PointStore WITH
    production <- environment = "production",
    held <- points \cup memory,
    request <- Asked

(* What Ingestion and Retrieval assume: a call that returns has had its    *)
(* effect, one that raises may have had it, points go with a delete alone  *)
(* and a search finds them; whoever else calls, whichever of the calls is  *)
(* the first, wherever the dialogue with Qdrant breaks.  Outside           *)
(* production, only that an upsert which returns has put its points        *)
(* somewhere, and that nothing is found which is nowhere.                  *)
ImplementsPointStore == Store!StoreSpec
===============================================================================
