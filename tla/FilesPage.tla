------------------------------ MODULE FilesPage ------------------------------
(***************************************************************************)
(* The knowledge base page of the browser: what it shows of the files of   *)
(* the selected folder while it uploads, polls the tasks of what it has    *)
(* uploaded, deletes, and moves between folders.                           *)
(*                                                                         *)
(* What it shows is the query cache (TanStack Query, one entry for each    *)
(* folder), of which only the selected folder's is fetched; of any other   *)
(* an invalidation is only noted.  The second copy, useFilesStore.files,   *)
(* is shown only until a folder's first list has arrived, and is left out: *)
(* what addFile, removeFile and updateFileStatus change is seen then only. *)
(* The server is what modules Ingestion and FolderTree say of it: a file   *)
(* is accepted, settles once, and may be deleted at any time.              *)
(*                                                                         *)
(* The page asks for the first page of a folder's files only, newest       *)
(* first: files are numbered in the order they come to their folder.       *)
(***************************************************************************)
EXTENDS Integers, FiniteSets

CONSTANTS
    Files,
    Folders,
    Elsewhere,      \* any other page of the application
    FolderOf,       \* the folder each file is, or will be, uploaded to
    ListSize,       \* files in the page that is fetched: 100
    Nothing,        \* no upload
    MaxAsked        \* bound: polls of one task under way

ASSUME PageAssumption ==
    /\ Files \subseteq Nat /\ IsFiniteSet(Files)
    /\ ListSize \in Nat
    /\ FolderOf \in [Files -> Folders]
    /\ Elsewhere \notin Folders
    /\ Nothing \notin Files \cup Folders
    /\ MaxAsked \in Nat

VARIABLES
    server,         \* files.status of each file, "none" before its upload
    removed,        \* the files deleted since
    selected,       \* selectedFolderId, or Elsewhere
    cache,          \* the data of each query, or NoData
    invalid,        \* isInvalidated of each query
    fetch,          \* each query's fetch: Idle, Sent, or the list on its way
    uploading,      \* the folder of handleUploadFiles, or Nothing
    current,        \* the file its loop waits for, or Nothing
    polling,        \* the files whose interval runs
    asked,          \* the polls on their way back with a verdict
    deleting,       \* the files whose DELETE is under way
    lost            \* history: what the page was told nothing more about

serverVars == <<server, removed>>
cacheVars == <<selected, cache, invalid, fetch>>
callVars == <<uploading, current, polling, asked, deleting>>
pageVars == <<serverVars, cacheVars, callVars, lost>>

\* Of the type of a list, so that it can be compared with one.
NoData == [f \in Files |-> "no data"]
Idle == [f \in Files |-> "idle"]
Sent == [f \in Files |-> "sent"]

Verdicts == {"ready", "failed"}
Row(f) == server[f] # "none" /\ f \notin removed
Truth(f) == IF Row(f) THEN server[f] ELSE "absent"
In(k) == {f \in Files : FolderOf[f] = k}

(* Files that came to the folder after f.                                  *)
Newer(f) == {g \in In(FolderOf[f]) : g > f /\ server[g] # "none"}

(* GET /files: of the rows of one folder, the newest.                      *)
Listing(k) ==
    [f \in Files |->
        IF FolderOf[f] = k /\ Cardinality({g \in Newer(f) : Row(g)}) < ListSize
        THEN Truth(f) ELSE "absent"]

----------------------------------------------------------------------------
(* The query cache, as its library is used here.                           *)

(* invalidateQueries: the selected query is fetched anew, and a fetch of   *)
(* it under way is cancelled; but not one that would bring its first data: *)
(* that one is waited for.                                                 *)
Invalidate(k) ==
    LET restarts == k = selected /\ ~(fetch[k] # Idle /\ cache[k] = NoData)
    IN  /\ invalid' = [invalid EXCEPT ![k] = TRUE]
        /\ fetch' = IF restarts THEN [fetch EXCEPT ![k] = Sent] ELSE fetch
        /\ UNCHANGED <<selected, cache>>

(* Is what an invalidation wants to show not going to be shown by it?      *)
Missed(k) == fetch[k] # Idle /\ (k # selected \/ cache[k] = NoData)

FetchAnswered(k) ==
    /\ fetch[k] = Sent
    /\ fetch' = [fetch EXCEPT ![k] = Listing(k)]
    /\ UNCHANGED <<serverVars, selected, cache, invalid, callVars, lost>>

FetchArrives(k) ==
    /\ fetch[k] \notin {Idle, Sent}
    /\ cache' = [cache EXCEPT ![k] = fetch[k]]
    /\ invalid' = [invalid EXCEPT ![k] = FALSE]
    /\ fetch' = [fetch EXCEPT ![k] = Idle]
    /\ lost' = {f \in lost : f \in In(k) => fetch[k][f] # Truth(f) \/ Truth(f) = "parsing"}
    /\ UNCHANGED <<serverVars, selected, callVars>>

(* The last retry has failed.                                              *)
FetchFails(k) ==
    /\ fetch[k] # Idle
    /\ fetch' = [fetch EXCEPT ![k] = Idle]
    /\ lost' = lost \cup In(k)
    /\ UNCHANGED <<serverVars, selected, cache, invalid, callVars>>

(* setSelectedFolderId, or a return to the page: the query is fetched if   *)
(* it has no data, was invalidated, or is older than staleTime (`stale').  *)
Select(k, stale) ==
    /\ k # selected
    /\ selected' = k
    /\ fetch' = IF fetch[k] = Idle /\ (cache[k] = NoData \/ invalid[k] \/ stale)
                  THEN [fetch EXCEPT ![k] = Sent] ELSE fetch
    /\ UNCHANGED <<serverVars, cache, invalid, callVars, lost>>

Leave ==
    /\ selected' = Elsewhere
    /\ UNCHANGED <<serverVars, cache, invalid, fetch, callVars, lost>>

----------------------------------------------------------------------------
(* The server.                                                             *)
Settle(f, verdict) ==
    /\ Row(f) /\ server[f] = "parsing"
    /\ server' = [server EXCEPT ![f] = verdict]
    /\ UNCHANGED <<removed, cacheVars, callVars, lost>>

ServerDeletes(f) ==
    /\ f \in deleting /\ Row(f)
    /\ removed' = removed \cup {f}
    /\ UNCHANGED <<server, cacheVars, callVars, lost>>

----------------------------------------------------------------------------
(* handleUploadFiles: one file after the other into the folder that was    *)
(* selected when it began; the button is disabled while it runs.           *)
UploadsBegin ==
    /\ uploading = Nothing /\ selected \in Folders
    /\ uploading' = selected
    /\ UNCHANGED <<serverVars, cacheVars, current, polling, asked, deleting, lost>>

(* uploadSingleFile, directly or in parts, up to the row.                  *)
UploadAccepted(f) ==
    /\ uploading = FolderOf[f] /\ current = Nothing
    /\ server[f] = "none"
    /\ \A g \in In(FolderOf[f]) : g < f => server[g] # "none"
    /\ server' = [server EXCEPT ![f] = "parsing"]
    /\ current' = f
    /\ UNCHANGED <<removed, cacheVars, uploading, polling, asked, deleting, lost>>

UploadReplied ==
    /\ current # Nothing
    /\ polling' = polling \cup {current}
    /\ current' = Nothing
    /\ UNCHANGED <<serverVars, cacheVars, uploading, asked, deleting, lost>>

(* The reply is lost: an error is shown, and the loop goes on.             *)
UploadReplyLost ==
    /\ current # Nothing
    /\ lost' = lost \cup {current}
    /\ current' = Nothing
    /\ UNCHANGED <<serverVars, cacheVars, uploading, polling, asked, deleting>>

UploadsEnd ==
    /\ uploading # Nothing /\ current = Nothing
    /\ Invalidate(uploading)
    /\ lost' = IF Missed(uploading) THEN lost \cup In(uploading) ELSE lost
    /\ uploading' = Nothing
    /\ UNCHANGED <<serverVars, current, polling, asked, deleting>>

----------------------------------------------------------------------------
(* pollTaskProgress: an interval that asks whether or not it was answered, *)
(* goes on when the page is left, and is cleared by a verdict or an error. *)
PollAsked(f) ==
    /\ f \in polling
    /\ Row(f) /\ server[f] \in Verdicts
    /\ asked[f] < MaxAsked
    /\ asked' = [asked EXCEPT ![f] = @ + 1]
    /\ UNCHANGED <<serverVars, cacheVars, uploading, current, polling, deleting, lost>>

\* Mutant: the list is not invalidated, as after a failure.
PollCompletedQuietly(f) ==
    /\ asked[f] > 0 /\ server[f] = "ready"
    /\ asked' = [asked EXCEPT ![f] = @ - 1]
    /\ polling' = polling \ {f}
    /\ UNCHANGED <<serverVars, cacheVars, uploading, current, deleting, lost>>

PollCompleted(f) ==
    /\ asked[f] > 0 /\ server[f] = "ready"
    /\ asked' = [asked EXCEPT ![f] = @ - 1]
    /\ polling' = polling \ {f}
    /\ Invalidate(FolderOf[f])
    /\ lost' = IF Missed(FolderOf[f]) THEN lost \cup {f} ELSE lost \ {f}
    /\ UNCHANGED <<serverVars, uploading, current, deleting>>

(* updateFileStatus tells the store, and nobody the list.                  *)
PollFailed(f) ==
    /\ asked[f] > 0 /\ server[f] = "failed"
    /\ asked' = [asked EXCEPT ![f] = @ - 1]
    /\ polling' = polling \ {f}
    /\ UNCHANGED <<serverVars, cacheVars, uploading, current, deleting, lost>>

(* Any error ends the polling: of the network, or 404 as the task went     *)
(* with its file.                                                          *)
PollErrs(f) ==
    /\ f \in polling
    /\ polling' = polling \ {f}
    /\ lost' = IF Row(f) THEN lost \cup {f} ELSE lost
    /\ UNCHANGED <<serverVars, cacheVars, uploading, current, asked, deleting>>

----------------------------------------------------------------------------
Shown(f) == cache[selected][f]

(* handleDeleteFile.                                                       *)
DeleteClicked(f) ==
    /\ FolderOf[f] = selected /\ Shown(f) \in {"parsing"} \cup Verdicts
    /\ deleting' = deleting \cup {f}
    /\ UNCHANGED <<serverVars, cacheVars, uploading, current, polling, asked, lost>>

DeleteReplied(f) ==
    /\ f \in deleting /\ f \in removed
    /\ deleting' = deleting \ {f}
    /\ Invalidate(FolderOf[f])
    /\ lost' = IF Missed(FolderOf[f]) THEN lost \cup {f} ELSE lost \ {f}
    /\ UNCHANGED <<serverVars, uploading, current, polling, asked>>

(* No reply, or an error: a message, and nothing else.                     *)
DeleteFails(f) ==
    /\ f \in deleting
    /\ deleting' = deleting \ {f}
    /\ lost' = lost \cup {f}
    /\ UNCHANGED <<serverVars, cacheVars, uploading, current, polling, asked>>

----------------------------------------------------------------------------
(* The page is opened, or loaded again: what is processed then has no      *)
(* interval, and nothing tells the page of its end.                        *)
PageInit ==
    /\ server \in [Files -> {"none", "parsing"} \cup Verdicts]
    /\ \A f \in Files : Newer(f) # {} => server[f] # "none"
    /\ removed = {}
    /\ selected \in Folders
    /\ cache = [k \in Folders |-> NoData]
    /\ invalid = [k \in Folders |-> FALSE]
    /\ fetch = [k \in Folders |-> IF k = selected THEN Sent ELSE Idle]
    /\ uploading = Nothing
    /\ current = Nothing
    /\ polling = {}
    /\ asked = [f \in Files |-> 0]
    /\ deleting = {}
    /\ lost = {f \in Files : server[f] = "parsing"}

PageNext ==
    \/ \E k \in Folders : FetchAnswered(k) \/ FetchArrives(k) \/ FetchFails(k)
    \/ \E k \in Folders, stale \in BOOLEAN : Select(k, stale)
    \/ Leave
    \/ \E f \in Files, verdict \in Verdicts : Settle(f, verdict)
    \/ \E f \in Files : ServerDeletes(f)
    \/ UploadsBegin \/ UploadReplied \/ UploadReplyLost \/ UploadsEnd
    \/ \E f \in Files : UploadAccepted(f)
    \/ \E f \in Files : PollAsked(f) \/ PollCompleted(f) \/ PollFailed(f) \/ PollErrs(f)
    \/ \E f \in Files : DeleteClicked(f) \/ DeleteReplied(f) \/ DeleteFails(f)

PageSpec == PageInit /\ [][PageNext]_pageVars

----------------------------------------------------------------------------
(* Nothing is under way that concerns the folder shown.                    *)
Quiet ==
    /\ selected \in Folders
    /\ fetch[selected] = Idle
    /\ uploading # selected
    /\ In(selected) \cap (polling \cup deleting) = {}
    /\ \A f \in In(selected) : asked[f] = 0

(* A page at rest shows the truth.  Two copies of the list, polls that     *)
(* overlap and outlive the page, fetches that cancel each other, a change  *)
(* of folder between a call and its reply: none of them leaves a file in   *)
(* the wrong state, but for a call that failed, a file that was processed  *)
(* before the page was opened, an invalidation that met the first fetch of *)
(* its folder or one of a folder that was left (`lost'), and a failure,    *)
(* of which the list is not told.  One of the newest ListSize uploads to   *)
(* the folder is there; an older file may be left out.                     *)
MayBeLeftOut(f) == Cardinality(Newer(f)) >= ListSize
QuietPageIsTrue ==
    Quiet => \A f \in In(selected) \ lost :
        \/ Shown(f) = Truth(f)
        \/ Truth(f) = "failed" /\ Shown(f) = "parsing"
        \/ MayBeLeftOut(f) /\ Shown(f) = "absent"
=============================================================================
