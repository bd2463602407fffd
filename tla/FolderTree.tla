----------------------------- MODULE FolderTree ------------------------------
(***************************************************************************)
(* The folders of one user: created, uploaded into and deleted by requests *)
(* that interleave.  A folder is related to its parent twice, by parent_id *)
(* (foreign key, ON DELETE CASCADE) and by the materialised path (what the *)
(* LIKE queries select); nothing makes a path unique.                      *)
(*                                                                         *)
(* An INSERT share-locks the parent row it refers to and a DELETE locks    *)
(* the rows it takes, so a statement with its COMMIT is one action here.   *)
(* What a delete does to vectors, tasks and originals is in Ingestion.     *)
(***************************************************************************)
EXTENDS SequencesExt

CONSTANTS
    Folders,    \* rows of folders
    Files,      \* rows of files
    Segments,   \* what stands between two slashes of a path: no %, _ or \
    Names,      \* folder names: "a/b" amounts to two segments
    Deleters,   \* requests DELETE /folders/{id}
    Root,       \* parent_id or folder_id NULL
    Absent,     \* a row not inserted yet
    Gone        \* a row deleted, or never inserted because the INSERT failed

ASSUME NamesAssumption == \A n \in Names : n \in Seq(Segments) /\ n # <<>>
ASSUME RowsAssumption ==
    /\ Root # Absent /\ Root # Gone /\ Absent # Gone
    /\ Root \notin Folders /\ Absent \notin Folders /\ Gone \notin Folders

VARIABLES
    parent,     \* folder -> parent_id, Absent or Gone
    path,       \* folder -> path, from the moment the request knows it
    creating,   \* folder -> the parent its request has read, Absent: none yet
    home,       \* file -> folder_id, Absent or Gone
    chosen,     \* file -> the folder_id its upload has checked, Absent: none yet
    overlapped, \* history: did the upload commit while a delete was under way?
    del         \* deleter -> what it has read

treeVars == <<parent, path, creating, home, chosen, overlapped, del>>
folderVars == <<parent, path, creating>>
fileVars == <<home, chosen, overlapped>>

Live == {F \in Folders : parent[F] \in Folders \cup {Root}}
Idle == [stage |-> "idle", target |-> Root, path |-> <<>>, folders |-> {}, files |-> {}]

(* list_descendants: path = p OR path LIKE 'p/%', where p is a pattern, not *)
(* quoted.  This is what it selects where no name has a character that     *)
(* means something there, which Segments leaves out: with a % or _ it may  *)
(* select more, with a backslash fewer.                                    *)
Under(p) == {F \in Live : IsPrefix(p, path[F])}

(* What ON DELETE CASCADE takes with row T: the least set of rows with T   *)
(* that is closed under "child of".                                        *)
Subtree(T) ==
    {F \in Live : \A S \in SUBSET Folders :
        T \in S /\ (\A G \in Live : parent[G] \in S => G \in S) => F \in S}

TreeInit ==
    /\ parent = [F \in Folders |-> Absent]
    /\ path = [F \in Folders |-> <<>>]
    /\ creating = [F \in Folders |-> Absent]
    /\ home = [f \in Files |-> Absent]
    /\ chosen = [f \in Files |-> Absent]
    /\ overlapped = [f \in Files |-> FALSE]
    /\ del = [d \in Deleters |-> Idle]

-----------------------------------------------------------------------------
(* FolderService.create_folder.                                            *)

\* Mutant: the path of a nested folder starts at the root.
CreateReadBareName(F, p, n) ==
    /\ creating[F] = Absent
    /\ p \in Live \cup {Root}
    /\ creating' = [creating EXCEPT ![F] = p]
    /\ path' = [path EXCEPT ![F] = n]
    /\ UNCHANGED <<parent, fileVars, del>>

(* The parent is read, its path prefixed to the name. *)
CreateRead(F, p, n) ==
    /\ creating[F] = Absent
    /\ p \in Live \cup {Root}
    /\ creating' = [creating EXCEPT ![F] = p]
    /\ path' = [path EXCEPT ![F] = IF p = Root THEN n ELSE path[p] \o n]
    /\ UNCHANGED <<parent, fileVars, del>>

(* INSERT and COMMIT; the foreign key fails when the parent is gone. *)
CreateInsert(F) ==
    /\ creating[F] # Absent /\ parent[F] = Absent
    /\ parent' = [parent EXCEPT ![F] = IF creating[F] \in Live \cup {Root} THEN creating[F]
                                       ELSE Gone]
    /\ UNCHANGED <<path, creating, fileVars, del>>

-----------------------------------------------------------------------------
(* FileService.upload_direct, or init_multipart and, any time later,       *)
(* complete_multipart.                                                     *)

\* Mutant: a folder that is not there any more is not refused.
UploadCheckUnguarded(f, p) ==
    /\ chosen[f] = Absent
    /\ chosen' = [chosen EXCEPT ![f] = IF p \in Live \cup {Root} THEN p ELSE parent[p]]
    /\ UNCHANGED <<folderVars, home, overlapped, del>>

(* _ensure_folder_access. *)
UploadCheck(f, p) ==
    /\ chosen[f] = Absent
    /\ p \in Live \cup {Root}
    /\ chosen' = [chosen EXCEPT ![f] = p]
    /\ UNCHANGED <<folderVars, home, overlapped, del>>

Deleting == {d \in Deleters : del[d].stage # "idle"}

(* INSERT and COMMIT, or the foreign key fails: 500, the original stays.   *)
UploadInsert(f) ==
    /\ chosen[f] # Absent /\ home[f] = Absent
    /\ home' = [home EXCEPT ![f] = IF chosen[f] \in Live \cup {Root} THEN chosen[f] ELSE Gone]
    /\ overlapped' = [overlapped EXCEPT ![f] = Deleting # {}]
    /\ UNCHANGED <<folderVars, chosen, del>>

-----------------------------------------------------------------------------
(* FolderService.delete_folder.                                            *)

\* Mutant: only the folder itself, not its descendants.
DeleteReadFoldersShallow(d, T) ==
    /\ del[d].stage = "idle"
    /\ T \in Live
    /\ del' = [del EXCEPT ![d] = [stage |-> "folders", target |-> T, path |-> path[T],
                                  folders |-> {F \in Live : path[F] = path[T]}, files |-> {}]]
    /\ UNCHANGED <<folderVars, fileVars>>

(* get, list_descendants *)
DeleteReadFolders(d, T) ==
    /\ del[d].stage = "idle"
    /\ T \in Live
    /\ del' = [del EXCEPT ![d] = [stage |-> "folders", target |-> T, path |-> path[T],
                                  folders |-> Under(path[T]), files |-> {}]]
    /\ UNCHANGED <<folderVars, fileVars>>

(* list_by_folder_ids *)
DeleteReadFiles(d) ==
    /\ del[d].stage = "folders"
    /\ del' = [del EXCEPT ![d] = [stage |-> "files", target |-> @.target, path |-> @.path,
                                  folders |-> @.folders,
                                  files |-> {f \in Files : home[f] \in @.folders}]]
    /\ UNCHANGED <<folderVars, fileVars>>

(* The files read, one DELETE each; DELETE folders, which cascades to the  *)
(* children and sets folder_id NULL in files still there; COMMIT.          *)
DeleteCommit(d) ==
    /\ del[d].stage = "files"
    /\ LET doomed == Subtree(del[d].target)
       IN  /\ parent' = [F \in Folders |-> IF F \in doomed THEN Gone ELSE parent[F]]
           /\ home' = [f \in Files |-> IF f \in del[d].files THEN Gone
                                       ELSE IF home[f] \in doomed THEN Root ELSE home[f]]
    /\ del' = [del EXCEPT ![d] = Idle]
    /\ UNCHANGED <<path, creating, chosen, overlapped>>

(* A statement fails, Qdrant fails, the server stops: rolled back. *)
DeleteAbort(d) ==
    /\ del[d].stage # "idle"
    /\ del' = [del EXCEPT ![d] = Idle]
    /\ UNCHANGED <<folderVars, fileVars>>

TreeNext ==
    \/ \E F \in Folders :
          \/ \E p \in Folders \cup {Root}, n \in Names : CreateRead(F, p, n)
          \/ CreateInsert(F)
    \/ \E f \in Files :
          (\E p \in Folders \cup {Root} : UploadCheck(f, p)) \/ UploadInsert(f)
    \/ \E d \in Deleters :
          \/ \E T \in Folders : DeleteReadFolders(d, T)
          \/ DeleteReadFiles(d) \/ DeleteCommit(d) \/ DeleteAbort(d)

TreeSpec == TreeInit /\ [][TreeNext]_treeVars

-----------------------------------------------------------------------------
(* Properties.                                                             *)

Deletions == [stage : {"idle", "folders", "files"}, target : Folders \cup {Root},
              path : Seq(Segments),
              folders : SUBSET Folders, files : SUBSET Files]

TreeTypeOK ==
    /\ parent \in [Folders -> Folders \cup {Root, Absent, Gone}]
    /\ path \in [Folders -> Seq(Segments)]
    /\ creating \in [Folders -> Folders \cup {Root, Absent}]
    /\ home \in [Files -> Folders \cup {Root, Absent, Gone}]
    /\ chosen \in [Files -> Folders \cup {Root, Absent}]
    /\ overlapped \in [Files -> BOOLEAN]
    /\ del \in [Deleters -> Deletions]

(* The two relations agree where it matters: a folder lies, by path, under *)
(* every folder whose row it would go down with.  delete_folder selects    *)
(* files by path and the database cascades by parent_id; were a cascade to *)
(* reach past the path, files would be cut loose.                          *)
CascadeStaysUnderPath == \A T \in Live : Subtree(T) \subseteq Under(path[T])

(* delete_folder leaves no file of the folder behind: only a file whose    *)
(* upload committed while some delete was under way can lose its folder    *)
(* and turn up in the root, whatever is created and deleted concurrently.  *)
OnlyOverlappedFilesDetach ==
    \A f \in Files : home[f] = Root /\ chosen[f] # Root => overlapped[f]

(* docs/API.md 4.3: delete_folder takes the files of the folder and of its *)
(* subfolders, and so no others.  It selects by path, which a sibling of   *)
(* the same name shares.                                                   *)
DeleteTakesOnlyTheSubtree ==
    [][\A f \in Files : home[f] \in Folders /\ home'[f] = Gone =>
          \E d \in Deleters : del[d].stage = "files" /\ home[f] \in Subtree(del[d].target)]_treeVars
=============================================================================
