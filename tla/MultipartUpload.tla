--------------------------- MODULE MultipartUpload ---------------------------
(***************************************************************************)
(* Uploads in parts (StorageService and its callers in FileService): a     *)
(* directory of numbered parts per upload, which nothing ever cleans up,   *)
(* and completions, as many as are asked for, each of which writes the     *)
(* parts one after the other into an original and then inserts its row.    *)
(*                                                                         *)
(* What happens on the disk happens between two awaits of the one event    *)
(* loop, so that a call is atomic -- except for a crash, which leaves what *)
(* was being written short and forgets every request.  A body is its size. *)
(***************************************************************************)
EXTENDS Integers, Functions

CONSTANTS
    Uploads,
    Completions,    \* POST .../complete, repeated or at once
    FileSize,       \* the size each upload was announced with
    InFolder,       \* the uploads into a folder, the same for all
    ChunkSize,      \* upload_chunk_size
    Slack,          \* what a body may exceed it by: 1024
    MaxUpload       \* max_upload_bytes

ASSUME UploadsAssumption ==
    /\ FileSize \in [Uploads -> Nat \ {0}]
    /\ InFolder \subseteq Uploads
    /\ ChunkSize \in Nat \ {0} /\ Slack \in Nat /\ MaxUpload \in Nat

VARIABLES
    meta,           \* the uploads that have a meta.json
    part,           \* part[u][i]: the size of i.part, or Absent
    completion,     \* each completion: how far it is, of what, and its path
    original,       \* the size of the original at a path, or Absent
    folder          \* is the folder there?

uploadVars == <<meta, part, completion, original, folder>>

Absent == -1
NoUpload == "none"

(* "saved": on disk, the row not yet committed; "listed": committed;       *)
(* "unlink": deleted by a commit, the original not yet.                    *)
Steps == {"idle", "saved", "listed", "unlink", "over"}

----------------------------------------------------------------------------
(* math.ceil(file_size / chunk_size) parts, numbered from 0.               *)
Indices(u) == 0 .. (FileSize[u] + ChunkSize - 1) \div ChunkSize - 1

Bodies == 0 .. ChunkSize + Slack

Written(u) == FoldFunctionOnSet(+, 0, part[u], Indices(u))

FolderThere(u) == u \in InFolder => folder

(* A directory named by a fresh uuid4, whatever is completed.              *)
FinalPath(c, u) == c

UploadsInit ==
    /\ meta = {}
    /\ part = [u \in Uploads |-> [i \in Indices(u) |-> Absent]]
    /\ completion = [c \in Completions |-> [step |-> "idle", upload |-> NoUpload, path |-> c]]
    /\ original = [c \in Completions |-> Absent]
    /\ folder = TRUE

(* POST /files/upload/init: 413 over the limit, 404 without the folder.    *)
InitMultipart(u) ==
    /\ u \notin meta
    /\ FileSize[u] <= MaxUpload
    /\ FolderThere(u)
    /\ meta' = meta \cup {u}
    /\ UNCHANGED <<part, completion, original, folder>>

(* PUT .../chunks/{i}: 404 without the upload, 400 out of range, 413 over  *)
(* the size; else the part is written, over what an earlier call left, and *)
(* at any time: late, again, or after the upload was completed.            *)
SaveChunk(u, i, body) ==
    /\ u \in meta
    /\ i \in Indices(u)
    /\ body <= ChunkSize + Slack
    /\ part' = [part EXCEPT ![u][i] = body]
    /\ UNCHANGED <<meta, completion, original, folder>>

Complete(c, u) ==
    /\ completion[c].step = "idle"
    /\ u \in meta
    /\ \A i \in Indices(u) : part[u][i] # Absent

\* Mutant: the size is not checked.
AssembleUnchecked(c, u) ==
    /\ Complete(c, u)
    /\ original' = [original EXCEPT ![FinalPath(c, u)] = Written(u)]
    /\ completion' = [completion EXCEPT ![c] =
          [step |-> "saved", upload |-> u, path |-> FinalPath(c, u)]]
    /\ UNCHANGED <<meta, part, folder>>

(* POST .../complete, up to the first await: 400 when a part is missing,   *)
(* and 400 again, after the original was written, when the size is wrong.  *)
Assemble(c, u) ==
    /\ Complete(c, u)
    /\ original' = [original EXCEPT ![FinalPath(c, u)] = Written(u)]
    /\ completion' = [completion EXCEPT ![c] =
          [step |-> IF Written(u) = FileSize[u] THEN "saved" ELSE "over",
           upload |-> u, path |-> FinalPath(c, u)]]
    /\ UNCHANGED <<meta, part, folder>>

Goto(c, step) == completion' = [completion EXCEPT ![c].step = step]

(* INSERT and COMMIT; complete_multipart does not look at the folder, the  *)
(* foreign key does.                                                       *)
InsertRow(c) ==
    /\ completion[c].step = "saved"
    /\ FolderThere(completion[c].upload)
    /\ Goto(c, "listed")
    /\ UNCHANGED <<meta, part, original, folder>>

(* The foreign key, or the database: 500, and the original stays.          *)
InsertFails(c) ==
    /\ completion[c].step = "saved"
    /\ Goto(c, "over")
    /\ UNCHANGED <<meta, part, original, folder>>

(* DELETE /files/{id}: the commit, then the original.                      *)
DeleteRow(c) ==
    /\ completion[c].step = "listed"
    /\ Goto(c, "unlink")
    /\ UNCHANGED <<meta, part, original, folder>>

Unlink(c) ==
    /\ completion[c].step = "unlink"
    /\ original' = [original EXCEPT ![completion[c].path] = Absent]
    /\ Goto(c, "over")
    /\ UNCHANGED <<meta, part, folder>>

(* DELETE /folders/{id} takes the rows in it (module FolderTree).          *)
DeleteFolder ==
    /\ folder
    /\ folder' = FALSE
    /\ completion' = [c \in Completions |->
          IF completion[c].step = "listed" /\ completion[c].upload \in InFolder
            THEN [completion[c] EXCEPT !.step = "unlink"]
            ELSE completion[c]]
    /\ UNCHANGED <<meta, part, original>>

----------------------------------------------------------------------------
(* Every request is forgotten: an original may have no row by now.         *)
Forgotten == [c \in Completions |->
    IF completion[c].step \in {"saved", "unlink"}
      THEN [completion[c] EXCEPT !.step = "over"]
      ELSE completion[c]]

Crash ==
    /\ completion' = Forgotten
    /\ UNCHANGED <<meta, part, original, folder>>

(* open(part_path, "wb") empties the part before it is written again.      *)
CrashInSaveChunk(u, i, short) ==
    /\ u \in meta
    /\ i \in Indices(u)
    /\ short < ChunkSize + Slack
    /\ part' = [part EXCEPT ![u][i] = short]
    /\ completion' = Forgotten
    /\ UNCHANGED <<meta, original, folder>>

CrashInAssemble(c, u, short) ==
    /\ Complete(c, u)
    /\ short <= Written(u)
    /\ original' = [original EXCEPT ![FinalPath(c, u)] = short]
    /\ completion' = [Forgotten EXCEPT ![c].step = "over"]
    /\ UNCHANGED <<meta, part, folder>>

UploadsNext ==
    \/ \E u \in Uploads : InitMultipart(u)
    \/ \E u \in Uploads : \E i \in Indices(u) : \E body \in Bodies :
          SaveChunk(u, i, body) \/ CrashInSaveChunk(u, i, body)
    \/ \E c \in Completions, u \in Uploads : Assemble(c, u)
    \/ \E c \in Completions : InsertRow(c) \/ InsertFails(c) \/ DeleteRow(c) \/ Unlink(c)
    \/ DeleteFolder
    \/ Crash
    \/ \E c \in Completions, u \in Uploads : \E short \in 0 .. Written(u) :
          CrashInAssemble(c, u, short)

UploadsSpec == UploadsInit /\ [][UploadsNext]_uploadVars

----------------------------------------------------------------------------
Listed == {c \in Completions : completion[c].step = "listed"}

(* A file of the list has its original on disk, of the announced size, and *)
(* shares it with no other: whatever parts came late, twice or short, was  *)
(* completed twice or lost by a crash, and whichever of two files of one   *)
(* upload is deleted.                                                      *)
ListedIsWhole ==
    /\ \A c \in Listed : original[completion[c].path] = FileSize[completion[c].upload]
    /\ \A c, d \in Listed : c # d => completion[c].path # completion[d].path
=============================================================================
