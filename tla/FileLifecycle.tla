---------------------------- MODULE FileLifecycle ----------------------------
(***************************************************************************)
(* What the file subsystem promises its readers, with no word about        *)
(* transactions, locks, workers or the vector store: an accepted file is   *)
(* processed once, its text becomes searchable in the same instant as its  *)
(* verdict, and a delete takes a whole set of files away at once, for good.*)
(***************************************************************************)
CONSTANT Files

VARIABLES
    status,     \* what GET /files/{id} can answer about each file
    content     \* are chunks of the file visible to a query?

lifecycleVars == <<status, content>>

LifecycleInit ==
    /\ status = [f \in Files |-> "none"]
    /\ content = [f \in Files |-> FALSE]

(* An upload is accepted. *)
Accept(f) ==
    /\ status[f] = "none"
    /\ status' = [status EXCEPT ![f] = "processing"]
    /\ UNCHANGED content

(* The one verdict on a file; a failed file may keep text (an embedding    *)
(* that failed leaves the chunks), a ready one may have none.              *)
Settle(f, verdict) ==
    /\ status[f] = "processing"
    /\ status' = [status EXCEPT ![f] = verdict]
    /\ \E visible \in BOOLEAN : content' = [content EXCEPT ![f] = visible]

(* Deleting a file (S a singleton) or a folder (S its files): all or none. *)
Remove(S) ==
    /\ S # {}
    /\ \A f \in S : status[f] \in {"processing", "ready", "failed"}
    /\ status' = [f \in Files |-> IF f \in S THEN "gone" ELSE status[f]]
    /\ content' = [f \in Files |-> IF f \in S THEN FALSE ELSE content[f]]

LifecycleNext ==
    \/ \E f \in Files : Accept(f) \/ Settle(f, "ready") \/ Settle(f, "failed")
    \/ \E S \in SUBSET Files : Remove(S)

LifecycleSpec == LifecycleInit /\ [][LifecycleNext]_lifecycleVars
=============================================================================
