------------------------------ MODULE Ingestion ------------------------------
(***************************************************************************)
(* Upload, background ingestion and deletion of files, over four stores    *)
(* written one after the other with no transaction around them: the        *)
(* PostgreSQL tables files/tasks/file_chunks (READ COMMITTED), the Qdrant  *)
(* collection, and the directory of original files.  Outside production a  *)
(* dictionary of the server process stands in for Qdrant when a call of it *)
(* fails, and the caller is not told.                                      *)
(*                                                                         *)
(* One action per stretch of code between two awaits that another          *)
(* coroutine can notice.  `file', `task' and `chunks' are the COMMITTED    *)
(* rows; what an open transaction has written is `draft' (the worker) or   *)
(* follows from `del' (a delete request), and so are its row locks.        *)
(***************************************************************************)
EXTENDS FiniteSets

CONSTANTS
    Files,      \* uploads
    Requests    \* delete requests: DELETE /files/{id} and DELETE /folders/{id}

VARIABLES
    file,       \* files.status; "none": never inserted, "gone": deleted
    task,       \* tasks.status of the file's one task
    chunks,     \* file_chunks of the file: no rows, without, with vector_id
    points,     \* is there a Qdrant point of the file?
    memory,     \* are its points in _memory_points, or were, before a restart?
    stored,     \* is the original on disk?
    stage,      \* where the upload handler, then the ingest worker, stands
    draft,      \* what the worker's transaction does to file_chunks
    del,        \* del[r][f]: how far request r is with file f
    attempt,    \* history: did a delete of f begin, and was f being ingested?
    environment \* settings.ENVIRONMENT: "local", the default, or "production"

vars == <<file, task, chunks, points, memory, stored, stage, draft, del, attempt, environment>>

FileRow == {"pending", "parsing", "ready", "failed"}
TaskRow == {"pending", "running", "completed", "failed"}
ChunkRows == {"none", "plain", "vectored"}

(* The worker from its first statement to its last.  In *_row stages it is *)
(* about to UPDATE files, in *_task stages to UPDATE tasks: the unit of    *)
(* work of SQLAlchemy flushes mappers sorted by class, File before Task.   *)
Working == {"start_row", "start_task", "touch_task", "parse", "store_row",
            "store_task", "embed", "upsert", "commit", "give_up",
            "fail_row", "fail_task"}
Finished == {"done", "dead"}
Stages == {"new", "saved", "scheduled"} \cup Working \cup Finished

(* "todo" -> vectors deleted -> task row locked -> file row deleted (not   *)
(* yet committed) -> committed, the original still on disk.                *)
Progress == {"out", "todo", "cleared", "held", "removed", "unlink"}

\* Mutant: the dictionary stands in everywhere.
AllowMemoryFallbackAnywhere == TRUE

AllowMemoryFallback == environment # "production"

-----------------------------------------------------------------------------
(* Row locks, held until the transaction ends.  DELETE locks as UPDATE     *)
(* does; a row that is gone blocks nobody.                                 *)
Row(f) == file[f] \in FileRow

WorkerHoldsFile(f) ==
    stage[f] \in {"start_task", "store_task", "embed", "upsert", "commit",
                  "give_up", "fail_task"}

\* Mutant: run_background never closes the session of a worker that is done.
WorkerHoldsTaskForEver(f) ==
    stage[f] \in {"embed", "upsert", "commit", "give_up"} \/ (stage[f] = "done" /\ Row(f))

WorkerHoldsTask(f) == stage[f] \in {"embed", "upsert", "commit", "give_up"}

RequestHoldsFile(r, f) == del[r][f] = "removed"
RequestHoldsTask(r, f) == del[r][f] \in {"held", "removed"}

FileFree(f) == \A r \in Requests : ~RequestHoldsFile(r, f)
TaskFree(f) == \A r \in Requests : ~RequestHoldsTask(r, f)

Targets(r) == {f \in Files : del[r][f] # "out"}
Untouched == [f \in Files |-> "out"]
InTransaction(r) == \E f \in Files : del[r][f] \in {"todo", "cleared", "held", "removed"}

-----------------------------------------------------------------------------
Init ==
    /\ file = [f \in Files |-> "none"]
    /\ task = [f \in Files |-> "none"]
    /\ chunks = [f \in Files |-> "none"]
    /\ points = [f \in Files |-> FALSE]
    /\ memory = [f \in Files |-> "none"]
    /\ stored = [f \in Files |-> FALSE]
    /\ stage = [f \in Files |-> "new"]
    /\ draft = [f \in Files |-> "none"]
    /\ del = [r \in Requests |-> Untouched]
    /\ attempt = [f \in Files |-> "never"]
    /\ environment \in {"local", "production"}

Goto(f, s) == stage' = [stage EXCEPT ![f] = s]

-----------------------------------------------------------------------------
(* FileService.upload_direct and complete_multipart.                       *)

(* The original is on disk before the database hears of the file. *)
UploadSave(f) ==
    /\ stage[f] = "new"
    /\ stored' = [stored EXCEPT ![f] = TRUE]
    /\ Goto(f, "saved")
    /\ UNCHANGED <<file, task, chunks, points, memory, draft, del, attempt, environment>>

\* Mutant: complete_multipart forgets that its task is running.
UploadCommitPendingTask(f, route) ==
    /\ stage[f] = "saved"
    /\ file' = [file EXCEPT ![f] = IF route = "direct" THEN "pending" ELSE "parsing"]
    /\ task' = [task EXCEPT ![f] = "pending"]
    /\ Goto(f, "scheduled")
    /\ UNCHANGED <<chunks, points, memory, stored, draft, del, attempt, environment>>

(* INSERT files, INSERT tasks, COMMIT, then run_background. *)
UploadCommit(f, route) ==
    /\ stage[f] = "saved"
    /\ file' = [file EXCEPT ![f] = IF route = "direct" THEN "pending" ELSE "parsing"]
    /\ task' = [task EXCEPT ![f] = IF route = "direct" THEN "pending" ELSE "running"]
    /\ Goto(f, "scheduled")
    /\ UNCHANGED <<chunks, points, memory, stored, draft, del, attempt, environment>>

(* The INSERTs fail: the request answers 500, the original stays on disk. *)
UploadFail(f) ==
    /\ stage[f] = "saved"
    /\ Goto(f, "dead")
    /\ UNCHANGED <<file, task, chunks, points, memory, stored, draft, del, attempt, environment>>

-----------------------------------------------------------------------------
(* IngestionService.ingest.                                                *)

(* SELECT files.  Without a row the task is gone too and set_progress does *)
(* nothing.  A multipart file is "parsing" already, so its row is not      *)
(* dirty and the first flush writes tasks alone.                           *)
IngestStart(f) ==
    /\ stage[f] = "scheduled"
    /\ Goto(f, IF ~Row(f) THEN "done"
               ELSE IF file[f] = "parsing" THEN "touch_task" ELSE "start_row")
    /\ UNCHANGED <<file, task, chunks, points, memory, stored, draft, del, attempt, environment>>

(* UPDATE files of one of the three flushes: start, store, fail. *)
UpdateFileRow(f, from, to) ==
    /\ stage[f] = from
    /\ Row(f) /\ FileFree(f)
    /\ Goto(f, to)
    /\ UNCHANGED <<file, task, chunks, points, memory, stored, draft, del, attempt, environment>>

(* The row vanished: the flush matches no row, StaleDataError; the except  *)
(* block then meets a session that must be rolled back and raises too.     *)
StaleFileRow(f) ==
    /\ stage[f] \in {"start_row", "store_row", "fail_row"}
    /\ ~Row(f)
    /\ Goto(f, "dead")
    /\ UNCHANGED <<file, task, chunks, points, memory, stored, draft, del, attempt, environment>>

(* UPDATE tasks and the first COMMIT. *)
StartCommit(f) ==
    /\ stage[f] \in {"start_task", "touch_task"}
    /\ Row(f) /\ TaskFree(f)
    /\ file' = [file EXCEPT ![f] = "parsing"]
    /\ task' = [task EXCEPT ![f] = "running"]
    /\ Goto(f, "parse")
    /\ UNCHANGED <<chunks, points, memory, stored, draft, del, attempt, environment>>

(* A multipart file deleted under the first flush: set_progress found no   *)
(* task and did nothing, or its UPDATE matches no row.                     *)
TouchVanished(f) ==
    /\ stage[f] = "touch_task"
    /\ ~Row(f)
    /\ \E s \in {"parse", "dead"} : Goto(f, s)
    /\ UNCHANGED <<file, task, chunks, points, memory, stored, draft, del, attempt, environment>>

(* parse_document, in no transaction: some chunks to write, none, an error.*)
Parse(f) ==
    /\ stage[f] = "parse"
    /\ \/ /\ \E c \in {"none", "plain"} : draft' = [draft EXCEPT ![f] = c]
          /\ Goto(f, "store_row")
       \/ /\ Goto(f, "fail_row")
          /\ UNCHANGED draft
    /\ UNCHANGED <<file, task, chunks, points, memory, stored, del, attempt, environment>>

\* Mutant: the chunks are committed before they are embedded.
StoreChunksAtOnce(f) ==
    /\ stage[f] = "store_task"
    /\ TaskFree(f)
    /\ chunks' = [chunks EXCEPT ![f] = draft[f]]
    /\ Goto(f, "embed")
    /\ UNCHANGED <<file, task, points, memory, stored, draft, del, attempt, environment>>

(* UPDATE tasks, DELETE the old chunks, INSERT the new ones. *)
StoreChunks(f) ==
    /\ stage[f] = "store_task"
    /\ TaskFree(f)
    /\ Goto(f, "embed")
    /\ UNCHANGED <<file, task, chunks, points, memory, stored, draft, del, attempt, environment>>

(* embed_texts; every chunk is given its vector_id. *)
Embed(f) ==
    /\ stage[f] = "embed"
    /\ \/ /\ draft' = [draft EXCEPT ![f] = IF @ = "plain" THEN "vectored" ELSE @]
          /\ Goto(f, "upsert")
       \/ /\ Goto(f, "give_up")
          /\ UNCHANGED draft
    /\ UNCHANGED <<file, task, chunks, points, memory, stored, del, attempt, environment>>

(* upsert_chunks returns at once when there is nothing to write.           *)
Upsert(f) ==
    /\ stage[f] = "upsert"
    /\ points' = [points EXCEPT ![f] = @ \/ draft[f] = "vectored"]
    /\ Goto(f, "commit")
    /\ UNCHANGED <<file, task, chunks, memory, stored, draft, del, attempt, environment>>

(* Qdrant failed, before or after it applied the request.  In production   *)
(* upsert_chunks raises, elsewhere it returns.                             *)
UpsertFail(f) ==
    /\ stage[f] = "upsert"
    /\ draft[f] = "vectored"
    /\ \E applied \in BOOLEAN : points' = [points EXCEPT ![f] = @ \/ applied]
    /\ \/ /\ ~AllowMemoryFallback
          /\ Goto(f, "give_up")
          /\ UNCHANGED memory
       \/ /\ AllowMemoryFallback
          /\ memory' = [memory EXCEPT ![f] = "here"]
          /\ Goto(f, "commit")
    /\ UNCHANGED <<file, task, chunks, stored, draft, del, attempt, environment>>

\* Mutant: the file is given the status of its task.
IngestCommitCompleted(f) ==
    /\ stage[f] = "commit"
    /\ file' = [file EXCEPT ![f] = "completed"]
    /\ task' = [task EXCEPT ![f] = "completed"]
    /\ chunks' = [chunks EXCEPT ![f] = draft[f]]
    /\ Goto(f, "done")
    /\ UNCHANGED <<points, memory, stored, draft, del, attempt, environment>>

(* The last COMMIT: verdict and chunks become visible together. *)
IngestCommit(f) ==
    /\ stage[f] = "commit"
    /\ file' = [file EXCEPT ![f] = "ready"]
    /\ task' = [task EXCEPT ![f] = "completed"]
    /\ chunks' = [chunks EXCEPT ![f] = draft[f]]
    /\ Goto(f, "done")
    /\ UNCHANGED <<points, memory, stored, draft, del, attempt, environment>>

(* The except block after embedding or Qdrant failed: there is no rollback *)
(* before the COMMIT, so the flushed chunks stay.                          *)
GiveUp(f) ==
    /\ stage[f] = "give_up"
    /\ file' = [file EXCEPT ![f] = "failed"]
    /\ task' = [task EXCEPT ![f] = "failed"]
    /\ chunks' = [chunks EXCEPT ![f] = draft[f]]
    /\ Goto(f, "done")
    /\ UNCHANGED <<points, memory, stored, draft, del, attempt, environment>>

\* Mutant: the except block logs the error and writes no verdict.
FailCommitForgotten(f) ==
    /\ stage[f] = "fail_task"
    /\ TaskFree(f)
    /\ Goto(f, "done")
    /\ UNCHANGED <<file, task, chunks, points, memory, stored, draft, del, attempt, environment>>

(* The except block after parsing failed. *)
FailCommit(f) ==
    /\ stage[f] = "fail_task"
    /\ TaskFree(f)
    /\ file' = [file EXCEPT ![f] = "failed"]
    /\ task' = [task EXCEPT ![f] = "failed"]
    /\ Goto(f, "done")
    /\ UNCHANGED <<chunks, points, memory, stored, draft, del, attempt, environment>>

(* A statement or COMMIT of the worker fails (connection lost, deadlock    *)
(* victim): PostgreSQL rolls back and the except block fails in turn.      *)
WorkerDbError(f) ==
    /\ stage[f] \in {"scheduled"} \cup (Working \ {"parse"})
    /\ Goto(f, "dead")
    /\ UNCHANGED <<file, task, chunks, points, memory, stored, draft, del, attempt, environment>>

-----------------------------------------------------------------------------
(* FileService.delete_file (S a singleton) and the loop over the files of  *)
(* the folder in FolderService.delete_folder (S any set, in any order).    *)

(* SELECT files. *)
DeleteStart(r, S) ==
    /\ Targets(r) = {}
    /\ S # {}
    /\ \A f \in S : Row(f)
    /\ del' = [del EXCEPT ![r] = [f \in Files |-> IF f \in S THEN "todo" ELSE "out"]]
    /\ attempt' = [f \in Files |-> IF f \notin S THEN attempt[f]
                                   ELSE IF stage[f] \in Finished /\ attempt[f] # "during"
                                   THEN "after" ELSE "during"]
    /\ UNCHANGED <<file, task, chunks, points, memory, stored, stage, draft, environment>>

Turn(r, f) == del[r][f] = "todo" /\ \A g \in Files : del[r][g] \notin {"cleared", "held"}

(* The dictionary is emptied of f before Qdrant is asked, in every         *)
(* environment; a worker that fills it in between might as well have done  *)
(* so after the answer.                                                    *)
DeleteVectors(r, f) ==
    /\ Turn(r, f)
    /\ memory' = [memory EXCEPT ![f] = "none"]
    /\ points' = [points EXCEPT ![f] = FALSE]
    /\ del' = [del EXCEPT ![r][f] = "cleared"]
    /\ UNCHANGED <<file, task, chunks, stored, stage, draft, attempt, environment>>

\* Mutant: outside production the dictionary is kept when Qdrant fails.
DeleteVectorsFailKeeping(r, f) ==
    /\ Turn(r, f)
    /\ \E applied \in BOOLEAN : points' = [points EXCEPT ![f] = @ /\ ~applied]
    /\ del' = IF AllowMemoryFallback THEN [del EXCEPT ![r][f] = "cleared"]
              ELSE [del EXCEPT ![r] = Untouched]
    /\ UNCHANGED <<file, task, chunks, memory, stored, stage, draft, attempt, environment>>

(* Qdrant failed, before or after it applied the request.  In production   *)
(* the request ends with the rollback of get_db_session, elsewhere it goes *)
(* on.                                                                     *)
DeleteVectorsFail(r, f) ==
    /\ Turn(r, f)
    /\ memory' = [memory EXCEPT ![f] = "none"]
    /\ \E applied \in BOOLEAN : points' = [points EXCEPT ![f] = @ /\ ~applied]
    /\ \/ ~AllowMemoryFallback /\ del' = [del EXCEPT ![r] = Untouched]
       \/ AllowMemoryFallback /\ del' = [del EXCEPT ![r][f] = "cleared"]
    /\ UNCHANGED <<file, task, chunks, stored, stage, draft, attempt, environment>>

(* DELETE tasks, DELETE file_chunks. *)
DeleteTasks(r, f) ==
    /\ del[r][f] = "cleared"
    /\ Row(f) => /\ ~WorkerHoldsTask(f)
                 /\ \A q \in Requests \ {r} : ~RequestHoldsTask(q, f)
    /\ del' = [del EXCEPT ![r][f] = "held"]
    /\ UNCHANGED <<file, task, chunks, points, memory, stored, stage, draft, attempt, environment>>

(* DELETE files; ON DELETE CASCADE takes what chunks there are by then. *)
DeleteFile(r, f) ==
    /\ del[r][f] = "held"
    /\ Row(f) => ~WorkerHoldsFile(f)
    /\ del' = [del EXCEPT ![r][f] = "removed"]
    /\ UNCHANGED <<file, task, chunks, points, memory, stored, stage, draft, attempt, environment>>

\* Mutant: no delete_by_file of the chunks and no ON DELETE CASCADE.
DeleteCommitKeepsChunks(r) ==
    /\ Targets(r) # {}
    /\ \A f \in Targets(r) : del[r][f] = "removed"
    /\ file' = [f \in Files |-> IF f \in Targets(r) THEN "gone" ELSE file[f]]
    /\ task' = [f \in Files |-> IF f \in Targets(r) THEN "none" ELSE task[f]]
    /\ del' = [del EXCEPT ![r] = [f \in Files |-> IF f \in Targets(r) THEN "unlink" ELSE "out"]]
    /\ UNCHANGED <<chunks, points, memory, stored, stage, draft, attempt, environment>>

DeleteCommit(r) ==
    /\ Targets(r) # {}
    /\ \A f \in Targets(r) : del[r][f] = "removed"
    /\ file' = [f \in Files |-> IF f \in Targets(r) THEN "gone" ELSE file[f]]
    /\ task' = [f \in Files |-> IF f \in Targets(r) THEN "none" ELSE task[f]]
    /\ chunks' = [f \in Files |-> IF f \in Targets(r) THEN "none" ELSE chunks[f]]
    /\ del' = [del EXCEPT ![r] = [f \in Files |-> IF f \in Targets(r) THEN "unlink" ELSE "out"]]
    /\ UNCHANGED <<points, memory, stored, stage, draft, attempt, environment>>

\* Mutant: the original is removed before the COMMIT that deletes its row.
DeleteStoredEarly(r, f) ==
    /\ del[r][f] \in {"removed", "unlink"}
    /\ stored' = [stored EXCEPT ![f] = FALSE]
    /\ del' = [del EXCEPT ![r][f] = IF @ = "unlink" THEN "out" ELSE @]
    /\ UNCHANGED <<file, task, chunks, points, memory, stage, draft, attempt, environment>>

(* StorageService.delete_file: a file that is not there is no error. *)
DeleteStored(r, f) ==
    /\ del[r][f] = "unlink"
    /\ stored' = [stored EXCEPT ![f] = FALSE]
    /\ del' = [del EXCEPT ![r][f] = "out"]
    /\ UNCHANGED <<file, task, chunks, points, memory, stage, draft, attempt, environment>>

(* A statement of the request fails: rolled back, the vectors stay deleted.*)
DeleteDbError(r) ==
    /\ InTransaction(r)
    /\ del' = [del EXCEPT ![r] = Untouched]
    /\ UNCHANGED <<file, task, chunks, points, memory, stored, stage, draft, attempt, environment>>

-----------------------------------------------------------------------------
(* The server process dies and restarts: transactions roll back, and what  *)
(* lives in the process alone is lost, the background tasks and the        *)
(* dictionary.                                                             *)
Crash ==
    /\ stage' = [f \in Files |-> IF stage[f] \in {"new", "done"} THEN stage[f] ELSE "dead"]
    /\ del' = [r \in Requests |-> Untouched]
    /\ memory' = [f \in Files |-> IF memory[f] = "here" THEN "lost" ELSE memory[f]]
    /\ UNCHANGED <<file, task, chunks, points, stored, draft, attempt, environment>>

(* The worker's own steps, each the next await of a running coroutine. *)
IngestStep(f) ==
    \/ IngestStart(f) \/ StaleFileRow(f) \/ TouchVanished(f)
    \/ UpdateFileRow(f, "start_row", "start_task")
    \/ UpdateFileRow(f, "store_row", "store_task")
    \/ UpdateFileRow(f, "fail_row", "fail_task")
    \/ StartCommit(f) \/ Parse(f) \/ StoreChunks(f) \/ Embed(f)
    \/ Upsert(f) \/ UpsertFail(f)
    \/ IngestCommit(f) \/ GiveUp(f) \/ FailCommit(f)

DeleteStep(r) ==
    \/ \E f \in Files : \/ DeleteVectors(r, f) \/ DeleteVectorsFail(r, f)
                        \/ DeleteTasks(r, f) \/ DeleteFile(r, f) \/ DeleteStored(r, f)
    \/ DeleteCommit(r)

Next ==
    \/ \E f \in Files :
          \/ UploadSave(f) \/ UploadFail(f)
          \/ \E route \in {"direct", "multipart"} : UploadCommit(f, route)
          \/ IngestStep(f) \/ WorkerDbError(f)
    \/ \E r \in Requests :
          \/ \E S \in SUBSET Files : DeleteStart(r, S)
          \/ DeleteStep(r) \/ DeleteDbError(r)
    \/ Crash

Spec == Init /\ [][Next]_vars

-----------------------------------------------------------------------------
(* Fairness: the event loop runs every coroutine that is not waiting;      *)
(* PostgreSQL queues lock requests first come, first served (strong        *)
(* fairness of the steps that take a row lock) and ends every deadlock by  *)
(* failing one of the two transactions.                                    *)
WorkerLockStep(f) ==
    \/ UpdateFileRow(f, "start_row", "start_task")
    \/ UpdateFileRow(f, "store_row", "store_task")
    \/ UpdateFileRow(f, "fail_row", "fail_task")
    \/ StartCommit(f) \/ StoreChunks(f) \/ FailCommit(f)

(* The worker holds the files row and wants the tasks row, the request the *)
(* other way round.                                                        *)
WorkerKnot(f, r) ==
    /\ stage[f] \in {"start_task", "store_task", "fail_task"}
    /\ del[r][f] = "held"

(* Two folder deletes that share two files and take them in opposite order *)
(* (the SELECT of list_by_folder_ids has no ORDER BY).                     *)
RequestKnot(q, r) ==
    \E f, g \in Files :
        /\ Row(f) /\ del[q][f] = "cleared" /\ RequestHoldsTask(r, f)
        /\ Row(g) /\ del[r][g] = "cleared" /\ RequestHoldsTask(q, g)

DeadlockVictim ==
    \/ \E f \in Files, r \in Requests :
          WorkerKnot(f, r) /\ (WorkerDbError(f) \/ DeleteDbError(r))
    \/ \E q, r \in Requests : RequestKnot(q, r) /\ DeleteDbError(r)

Fairness ==
    /\ WF_vars(DeadlockVictim)
    /\ \A f \in Files : WF_vars(IngestStep(f)) /\ SF_vars(WorkerLockStep(f))
    /\ \A r \in Requests :
          /\ WF_vars(DeleteStep(r))
          /\ SF_vars(\E f \in Files : DeleteTasks(r, f) \/ DeleteFile(r, f))

-----------------------------------------------------------------------------
(* Properties.                                                             *)

TypeOK ==
    /\ file \in [Files -> {"none", "gone"} \cup FileRow]
    /\ task \in [Files -> {"none"} \cup TaskRow]
    /\ chunks \in [Files -> ChunkRows]
    /\ points \in [Files -> BOOLEAN]
    /\ memory \in [Files -> {"none", "here", "lost"}]
    /\ stored \in [Files -> BOOLEAN]
    /\ stage \in [Files -> Stages]
    /\ draft \in [Files -> ChunkRows]
    /\ del \in [Requests -> [Files -> Progress]]
    /\ attempt \in [Files -> {"never", "after", "during"}]
    /\ environment \in {"local", "production"}

(* The task a client polls and the file it lists never contradict each     *)
(* other: set_progress and f.status are committed in the same transaction, *)
(* and a delete takes the task with the file.                              *)
TaskTellsFile ==
    \A f \in Files :
        IF Row(f) THEN <<file[f], task[f]>> \in
                {<<"pending", "pending">>, <<"parsing", "running">>,
                 <<"ready", "completed">>, <<"failed", "failed">>}
        ELSE task[f] = "none"

(* Deleted content is never retrieved: keyword search reads file_chunks    *)
(* and vector hits are looked up there, and no chunk row outlives its file *)
(* though worker and delete write the same rows from two sessions.         *)
NoChunkWithoutFile == \A f \in Files : chunks[f] # "none" => Row(f)

(* The original is there as long as the row says so: complete_multipart    *)
(* and upload_direct write it first, delete_file removes it after the      *)
(* COMMIT, and no failure or crash in between costs a listed file its text.*)
OriginalOnDisk == \A f \in Files : Row(f) => stored[f]

(* The points of a file nobody tried to delete are kept once it is ready,  *)
(* whatever failed on the way: in production in Qdrant; elsewhere, where a *)
(* failed upsert is no error, there or in the dictionary, which they leave *)
(* with the process alone.                                                 *)
ReadyKeepsItsPoints ==
    \A f \in Files :
        file[f] = "ready" /\ chunks[f] = "vectored" /\ attempt[f] = "never"
            => points[f] \/ (environment # "production" /\ memory[f] # "none")

(* A delete that began after ingestion was over leaves nothing behind that *)
(* a search could find, however many deletes ran at once and whatever      *)
(* failed or crashed: in production nothing in Qdrant; elsewhere, where a  *)
(* failed delete is no error, nothing in the dictionary.                   *)
LateDeleteIsClean ==
    \A f \in Files :
        file[f] = "gone" /\ attempt[f] = "after"
            => memory[f] # "here" /\ (environment = "production" => ~points[f])

(* The whole subsystem implements FileLifecycle: chunks appear with the    *)
(* verdict, in one step; a file deleted under its worker never comes back; *)
(* a folder's files vanish together or not at all.                         *)
Abstract == INSTANCE FileLifecycle WITH
    status <- [f \in Files |-> IF file[f] \in {"pending", "parsing"} THEN "processing"
                               ELSE file[f]],
    content <- [f \in Files |-> chunks[f] # "none"]
ImplementsLifecycle == Abstract!LifecycleSpec

(* Only a lost worker (crash, failed statement) leaves an accepted file    *)
(* without a verdict; waiting for a delete's row locks never does.         *)
EveryFileSettles ==
    \A f \in Files :
        file[f] \in {"pending", "parsing"}
            ~> file[f] \in {"ready", "failed", "gone"} \/ stage[f] = "dead"

(* Every delete request ends, though it takes its locks in the order       *)
(* opposite to the worker's.                                               *)
EveryDeleteReturns == \A r \in Requests : Targets(r) # {} ~> Targets(r) = {}

(* docs/TECH_DESIGN.md: the delete flow may leave no retrievable residue   *)
(* in the vector store.  Even in production it does when the worker        *)
(* upserts after the request cleared the vectors and before it gets the    *)
(* row locks.                                                              *)
NoVectorResidue ==
    \A f \in Files :
        environment = "production" /\ file[f] = "gone" /\ stage[f] \in Finished
          /\ (\A r \in Requests : del[r][f] = "out")
            => ~points[f]

(* docs/backend/docs-parse-and-chunk.md: a file whose vectors could not be *)
(* written must not be marked ready.  Outside production it is: its points *)
(* go to the dictionary and upsert_chunks returns.                         *)
ReadyIsInQdrant ==
    \A f \in Files :
        file[f] = "ready" /\ chunks[f] = "vectored" /\ attempt[f] = "never" => points[f]
=============================================================================
