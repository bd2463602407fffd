----------------------------- MODULE FilesProofs -----------------------------
(***************************************************************************)
(* A file on its way up, and on the page.  Uploads in parts: a listed file *)
(* has its own original, of the announced size, for any uploads, sizes,    *)
(* completions and parts, and any crashes.  And the knowledge base page at *)
(* rest: it shows the truth, for any files, folders, number of polls and   *)
(* size of the page of files that is fetched.                              *)
(***************************************************************************)
EXTENDS FilesPage, MultipartUpload, FiniteSetTheorems, TLAPS

(* What makes ListedIsWhole inductive: a path is its completion's alone,   *)
(* and what is saved, not only what is listed, was found to be whole.      *)
OwnPath ==
    /\ completion \in [Completions -> [step : Steps, upload : Uploads \cup {NoUpload},
                                       path : Completions]]
    /\ \A c \in Completions : completion[c].path = c

SavedIsWhole ==
    \A c \in Completions : completion[c].step \in {"saved", "listed"} =>
        original[c] = FileSize[completion[c].upload]

WholeInv ==
    /\ original = [c \in Completions |-> original[c]]
    /\ OwnPath
    /\ SavedIsWhole

USE DEF Steps, Absent, FinalPath, Goto, Forgotten

(* A step changes the step of its completion.                              *)
LEMMA OneStep ==
    ASSUME WholeInv, NEW c \in Completions, NEW step \in Steps, Goto(c, step)
    PROVE  completion' = [completion EXCEPT ![c] =
              [step |-> step, upload |-> completion[c].upload, path |-> completion[c].path]]
<1>1. completion[c] \in [step : Steps, upload : Uploads \cup {NoUpload}, path : Completions]
    BY DEF WholeInv, OwnPath
<1>2. [completion[c] EXCEPT !.step = step] =
          [step |-> step, upload |-> completion[c].upload, path |-> completion[c].path]
    BY <1>1
<1>3. completion' = [completion EXCEPT ![c] = [completion[c] EXCEPT !.step = step]]
    OBVIOUS
<1> QED BY <1>2, <1>3

(* A step of one completion that writes no original, and saves nothing.    *)
LEMMA GotoKeepsWhole ==
    ASSUME WholeInv, NEW c \in Completions, NEW step \in Steps, Goto(c, step),
           step = "listed" => completion[c].step = "saved",
           step # "saved", original' = original
    PROVE  WholeInv'
<1>1. completion' = [completion EXCEPT ![c] =
          [step |-> step, upload |-> completion[c].upload, path |-> completion[c].path]]
    BY OneStep
<1>2. OwnPath'
    BY <1>1 DEF WholeInv, OwnPath
<1>3. SavedIsWhole'
    <2> SUFFICES ASSUME NEW d \in Completions, completion'[d].step \in {"saved", "listed"}
                 PROVE  original[d] = FileSize[completion'[d].upload]
        BY DEF SavedIsWhole
    <2>1. CASE d = c
        BY <1>1, <2>1 DEF WholeInv, OwnPath, SavedIsWhole
    <2>2. CASE d # c
        BY <1>1, <2>2 DEF WholeInv, OwnPath, SavedIsWhole
    <2> QED BY <2>1, <2>2
<1> QED BY <1>2, <1>3 DEF WholeInv

(* A crash saves nothing.                                                  *)
LEMMA CrashKeepsWhole ==
    ASSUME WholeInv, completion' = Forgotten, original' = original
    PROVE  WholeInv'
<1>1. \A d \in Completions :
          /\ completion'[d] \in [step : Steps, upload : Uploads \cup {NoUpload}, path : Completions]
          /\ completion'[d].path = d
          /\ completion'[d].upload = completion[d].upload
          /\ completion'[d].step \in {"saved", "listed"} => completion[d].step \in {"saved", "listed"}
    BY DEF WholeInv, OwnPath
<1>2. completion' \in [Completions -> [step : Steps, upload : Uploads \cup {NoUpload}, path : Completions]]
    BY <1>1
<1> QED BY <1>1, <1>2 DEF WholeInv, OwnPath, SavedIsWhole

LEMMA WholeInit == UploadsInit => WholeInv
BY DEF UploadsInit, WholeInv, OwnPath, SavedIsWhole

(* What is saved was just compared with the announced size.                *)
LEMMA AssembleKeepsWhole ==
    ASSUME WholeInv, NEW c \in Completions, NEW u \in Uploads, Assemble(c, u)
    PROVE  WholeInv'
<1> DEFINE step == IF Written(u) = FileSize[u] THEN "saved" ELSE "over"
<1> DEFINE new == [step |-> step, upload |-> u, path |-> c]
<1>1. /\ completion' = [completion EXCEPT ![c] = new]
      /\ original' = [original EXCEPT ![c] = Written(u)]
    BY DEF Assemble
<1>2. new \in [step : Steps, upload : Uploads \cup {NoUpload}, path : Completions]
    OBVIOUS
<1>3. original' = [d \in Completions |-> original'[d]]
    BY <1>1 DEF WholeInv
<1>4. OwnPath'
    BY <1>1, <1>2 DEF WholeInv, OwnPath
<1>5. SavedIsWhole'
    <2> SUFFICES ASSUME NEW d \in Completions, completion'[d].step \in {"saved", "listed"}
                 PROVE  original'[d] = FileSize[completion'[d].upload]
        BY DEF SavedIsWhole
    <2>1. CASE d = c
        BY <1>1, <2>1 DEF WholeInv, OwnPath
    <2>2. CASE d # c
        BY <1>1, <2>2 DEF WholeInv, OwnPath, SavedIsWhole
    <2> QED BY <2>1, <2>2
<1> QED BY <1>3, <1>4, <1>5 DEF WholeInv

LEMMA UnlinkKeepsWhole ==
    ASSUME WholeInv, NEW c \in Completions, Unlink(c)
    PROVE  WholeInv'
<1>1. /\ completion' = [completion EXCEPT ![c] =
             [step |-> "over", upload |-> completion[c].upload, path |-> completion[c].path]]
      /\ original' = [original EXCEPT ![c] = Absent]
    BY OneStep DEF Unlink, WholeInv, OwnPath
<1>2. original' = [d \in Completions |-> original'[d]]
    BY <1>1 DEF WholeInv
<1>3. OwnPath'
    BY <1>1 DEF WholeInv, OwnPath
<1>4. ASSUME NEW d \in Completions, completion'[d].step \in {"saved", "listed"}
      PROVE  original'[d] = FileSize[completion'[d].upload]
    <2>1. d # c
        BY <1>1, <1>4 DEF WholeInv, OwnPath
    <2> QED BY <1>1, <1>4, <2>1 DEF WholeInv, OwnPath, SavedIsWhole
<1> QED BY <1>2, <1>3, <1>4 DEF WholeInv, SavedIsWhole

(* The files of a folder are deleted together.                             *)
LEMMA DeleteFolderKeepsWhole ==
    ASSUME WholeInv, DeleteFolder
    PROVE  WholeInv'
<1>1. \A d \in Completions :
          /\ completion'[d] \in [step : Steps, upload : Uploads \cup {NoUpload}, path : Completions]
          /\ completion'[d].path = d
          /\ completion'[d].upload = completion[d].upload
          /\ completion'[d].step \in {"saved", "listed"} => completion[d].step \in {"saved", "listed"}
    BY DEF DeleteFolder, WholeInv, OwnPath
<1>2. completion' \in [Completions -> [step : Steps, upload : Uploads \cup {NoUpload}, path : Completions]]
    BY <1>1 DEF DeleteFolder
<1>3. original' = original
    BY DEF DeleteFolder
<1> QED BY <1>1, <1>2, <1>3 DEF WholeInv, OwnPath, SavedIsWhole

(* What a crash wrote short was of a completion not yet saved.             *)
LEMMA CrashInAssembleKeepsWhole ==
    ASSUME WholeInv, NEW c \in Completions, NEW u \in Uploads, NEW short,
           CrashInAssemble(c, u, short)
    PROVE  WholeInv'
<1>1. /\ completion[c].step = "idle"
      /\ original' = [original EXCEPT ![c] = short]
      /\ completion' = [Forgotten EXCEPT ![c].step = "over"]
    BY DEF CrashInAssemble, Complete
<1>2. \A d \in Completions :
          /\ completion'[d] \in [step : Steps, upload : Uploads \cup {NoUpload}, path : Completions]
          /\ completion'[d].path = d
          /\ completion'[d].upload = completion[d].upload
          /\ completion'[d].step \in {"saved", "listed"} =>
                d # c /\ completion[d].step \in {"saved", "listed"}
    <2> SUFFICES ASSUME NEW d \in Completions
                 PROVE  /\ completion'[d] \in [step : Steps, upload : Uploads \cup {NoUpload},
                                                path : Completions]
                        /\ completion'[d].path = d
                        /\ completion'[d].upload = completion[d].upload
                        /\ completion'[d].step \in {"saved", "listed"} =>
                              d # c /\ completion[d].step \in {"saved", "listed"}
        OBVIOUS
    <2>1. CASE d = c
        <3>1. completion'[c] = [step |-> "over", upload |-> completion[c].upload,
                                path |-> completion[c].path]
            BY <1>1 DEF WholeInv, OwnPath
        <3> QED BY <2>1, <3>1 DEF WholeInv, OwnPath
    <2>2. CASE d # c
        BY <1>1, <2>2 DEF WholeInv, OwnPath
    <2> QED BY <2>1, <2>2
<1>3. completion' \in [Completions -> [step : Steps, upload : Uploads \cup {NoUpload}, path : Completions]]
    BY <1>1, <1>2
<1>4. original' = [d \in Completions |-> original'[d]]
    BY <1>1 DEF WholeInv
<1>5. \A d \in Completions : d # c => original'[d] = original[d]
    BY <1>1 DEF WholeInv
<1> QED BY <1>2, <1>3, <1>4, <1>5 DEF WholeInv, OwnPath, SavedIsWhole

LEMMA WholeStep == WholeInv /\ [UploadsNext]_uploadVars => WholeInv'
<1> SUFFICES ASSUME WholeInv, [UploadsNext]_uploadVars
             PROVE  WholeInv'
    OBVIOUS
<1>1. ASSUME NEW u \in Uploads, InitMultipart(u)
      PROVE  WholeInv'
    BY <1>1 DEF InitMultipart, WholeInv, OwnPath, SavedIsWhole
<1>2. ASSUME NEW u \in Uploads, NEW i \in Indices(u), NEW body \in Bodies, SaveChunk(u, i, body)
      PROVE  WholeInv'
    BY <1>2 DEF SaveChunk, WholeInv, OwnPath, SavedIsWhole
<1>3. ASSUME NEW u \in Uploads, NEW i \in Indices(u), NEW body \in Bodies,
             CrashInSaveChunk(u, i, body)
      PROVE  WholeInv'
    BY <1>3, CrashKeepsWhole DEF CrashInSaveChunk
<1>4. ASSUME NEW c \in Completions, NEW u \in Uploads, Assemble(c, u)
      PROVE  WholeInv'
    BY <1>4, AssembleKeepsWhole
<1>5. ASSUME NEW c \in Completions, InsertRow(c)
      PROVE  WholeInv'
    BY <1>5, GotoKeepsWhole DEF InsertRow
<1>6. ASSUME NEW c \in Completions, InsertFails(c)
      PROVE  WholeInv'
    BY <1>6, GotoKeepsWhole DEF InsertFails
<1>7. ASSUME NEW c \in Completions, DeleteRow(c)
      PROVE  WholeInv'
    BY <1>7, GotoKeepsWhole DEF DeleteRow
<1>8. ASSUME NEW c \in Completions, Unlink(c)
      PROVE  WholeInv'
    BY <1>8, UnlinkKeepsWhole
<1>9. CASE DeleteFolder
    BY <1>9, DeleteFolderKeepsWhole
<1>10. CASE Crash
    BY <1>10, CrashKeepsWhole DEF Crash
<1>11. ASSUME NEW c \in Completions, NEW u \in Uploads, NEW short \in 0 .. Written(u),
              CrashInAssemble(c, u, short)
       PROVE  WholeInv'
    BY <1>11, CrashInAssembleKeepsWhole
<1>12. CASE UNCHANGED uploadVars
    BY <1>12 DEF uploadVars, WholeInv, OwnPath, SavedIsWhole
<1> QED BY <1>1, <1>2, <1>3, <1>4, <1>5, <1>6, <1>7, <1>8, <1>9, <1>10, <1>11, <1>12 DEF UploadsNext

(* For any uploads and completions, every reachable list is of whole files *)
(* (StorageService.complete_multipart, FileService.complete_multipart).    *)
THEOREM ListStaysWhole == UploadsSpec => []ListedIsWhole
<1>1. WholeInv => ListedIsWhole
    BY DEF WholeInv, OwnPath, SavedIsWhole, ListedIsWhole, Listed
<1> QED BY WholeInit, WholeStep, <1>1, PTL DEF UploadsSpec

-----------------------------------------------------------------------------
(* The page.                                                               *)

Lists == [Files -> {"absent", "parsing"} \cup Verdicts]

PageTypeOK ==
    /\ server \in [Files -> {"none", "parsing"} \cup Verdicts]
    /\ removed \in SUBSET Files
    /\ selected \in Folders \cup {Elsewhere}
    /\ cache \in [Folders -> Lists \cup {NoData}]
    /\ invalid \in [Folders -> BOOLEAN]
    /\ fetch \in [Folders -> Lists \cup {Idle, Sent}]
    /\ uploading \in Folders \cup {Nothing}
    /\ current \in Files \cup {Nothing}
    /\ polling \in SUBSET Files
    /\ asked \in [Files -> Nat]
    /\ deleting \in SUBSET Files
    /\ lost \in SUBSET Files
    /\ current # Nothing => uploading = FolderOf[current]

(* The list may say this of f. *)
Fits(f, shown) ==
    \/ shown = Truth(f)
    \/ Truth(f) = "failed" /\ shown = "parsing"
    \/ MayBeLeftOut(f) /\ shown = "absent"

(* The folder's list is right about f, or will be once it is shown.        *)
Coming(f) ==
    LET k == FolderOf[f]
    IN  \/ fetch[k] = Sent
        \/ fetch[k] # Idle /\ Fits(f, fetch[k][f])
        \/ fetch[k] = Idle /\ k # selected /\ (invalid[k] \/ cache[k] = NoData)
        \/ fetch[k] = Idle /\ cache[k] # NoData /\ Fits(f, cache[k][f])

(* Something is under way that ends in an invalidation. *)
Expected(f) ==
    \/ uploading = FolderOf[f]
    \/ f \in deleting
    \/ Row(f) /\ server[f] = "ready" /\ (f \in polling \/ asked[f] > 0)

Foreseen == \A f \in Files \ lost : Expected(f) \/ Coming(f)

(* A file that is processed is polled. *)
Followed == \A f \in Files \ lost : Truth(f) = "parsing" => current = f \/ f \in polling

(* What makes QuietPageIsTrue inductive: a wrong list is about to be       *)
(* fetched, or a call is under way whose reply will have it fetched.       *)
PageInv == PageTypeOK /\ Foreseen /\ Followed

-----------------------------------------------------------------------------
LEMMA Marks ==
  ASSUME NEW f \in Files
  PROVE  /\ Idle # Sent
         /\ \A v \in Lists : v # Idle /\ v # Sent /\ v # NoData
<1>1. Idle[f] = "idle" /\ Sent[f] = "sent" /\ NoData[f] = "no data"
  BY DEF Idle, Sent, NoData
<1>2. \A v \in Lists : v[f] \in {"absent", "parsing", "ready", "failed"}
  BY DEF Lists, Verdicts
<1> QED
  BY <1>1, <1>2

LEMMA TruthType ==
  ASSUME PageTypeOK, NEW f \in Files
  PROVE  Truth(f) \in {"absent", "parsing"} \cup Verdicts
BY DEF PageTypeOK, Truth, Row, Verdicts

(* A file that may be left out may be so ever after.                       *)
LEMMA LeftOutStays ==
  ASSUME NEW f \in Files, MayBeLeftOut(f),
         \A g \in Files : server[g] # "none" => server'[g] # "none"
  PROVE  MayBeLeftOut(f)'
<1>1. IsFiniteSet(Newer(f)') /\ Newer(f) \subseteq Newer(f)'
  BY PageAssumption, FS_Subset DEF Newer, In
<1>2. /\ Cardinality(Newer(f)) \in Nat /\ Cardinality(Newer(f)') \in Nat
      /\ Cardinality(Newer(f)) <= Cardinality(Newer(f)')
  BY <1>1, FS_Subset, FS_CardinalityType
<1>3. Cardinality(Newer(f)) >= ListSize
  BY DEF MayBeLeftOut
<1>4. Cardinality(Newer(f)') >= ListSize
  BY <1>2, <1>3, PageAssumption
<1> QED
  BY <1>4 DEF MayBeLeftOut, Newer

LEMMA ListingType ==
  ASSUME PageTypeOK, NEW k \in Folders
  PROVE  /\ Listing(k) \in Lists
         /\ \A f \in Files : FolderOf[f] = k => Fits(f, Listing(k)[f])
<1>1. \A f \in Files : Truth(f) \in {"absent", "parsing"} \cup Verdicts
  BY TruthType
<1>2. Listing(k) \in Lists
  BY <1>1 DEF Listing, Lists
<1>3. ASSUME NEW f \in Files, FolderOf[f] = k
      PROVE  Fits(f, Listing(k)[f])
  <2> DEFINE rows == {g \in Newer(f) : Row(g)}
  <2>1. Listing(k)[f] = IF Cardinality(rows) < ListSize THEN Truth(f) ELSE "absent"
    BY <1>3 DEF Listing
  <2>2. IsFiniteSet(Newer(f)) /\ rows \subseteq Newer(f)
    BY PageAssumption, FS_Subset DEF Newer, In
  <2>3. /\ Cardinality(rows) \in Nat /\ Cardinality(Newer(f)) \in Nat
        /\ Cardinality(rows) <= Cardinality(Newer(f))
    BY <2>2, FS_Subset, FS_CardinalityType
  <2> HIDE DEF rows
  <2>4. CASE Cardinality(rows) < ListSize
    BY <2>1, <2>4 DEF Fits
  <2>5. CASE ~(Cardinality(rows) < ListSize)
    <3>1. Cardinality(Newer(f)) >= ListSize
      BY <2>3, <2>5, PageAssumption
    <3>2. Listing(k)[f] = "absent"
      BY <2>1, <2>5
    <3> QED
      BY <3>1, <3>2 DEF Fits, MayBeLeftOut
  <2> QED
    BY <2>4, <2>5
<1> QED
  BY <1>2, <1>3

USE PageAssumption

-----------------------------------------------------------------------------
(* What an invalidation does to the query cache.                           *)

LEMMA InvalidationTypes ==
  ASSUME PageTypeOK, NEW k \in Folders, Invalidate(k)
  PROVE  /\ invalid' \in [Folders -> BOOLEAN]
         /\ fetch' \in [Folders -> Lists \cup {Idle, Sent}]
         /\ selected' = selected /\ cache' = cache
BY DEF PageTypeOK, Invalidate

(* One that is not missed brings the truth.                                *)
LEMMA InvalidationBrings ==
  ASSUME PageTypeOK, NEW f \in Files, Invalidate(FolderOf[f]), ~Missed(FolderOf[f])
  PROVE  Coming(f)'
<1> DEFINE k == FolderOf[f]
<1>1. k \in Folders /\ invalid'[k] /\ selected' = selected
  BY DEF PageTypeOK, Invalidate
<1>2. CASE k = selected
  <2>1. fetch'[k] = Sent
    BY <1>1, <1>2 DEF PageTypeOK, Invalidate, Missed
  <2> QED
    BY <2>1 DEF Coming
<1>3. CASE k # selected
  <2>1. fetch[k] = Idle /\ fetch' = fetch
    BY <1>1, <1>3 DEF Invalidate, Missed
  <2> QED
    BY <1>1, <1>3, <2>1 DEF Coming
<1> QED
  BY <1>2, <1>3

(* And none prevents a truth on its way.                                   *)
LEMMA InvalidationHarmless ==
  ASSUME PageTypeOK, NEW f \in Files, NEW k \in Folders,
         Invalidate(k), UNCHANGED serverVars, Coming(f)
  PROVE  Coming(f)'
<1> DEFINE g == FolderOf[f]
<1>1. g \in Folders /\ Truth(f)' = Truth(f) /\ (invalid[g] => invalid'[g])
  BY DEF PageTypeOK, Invalidate, serverVars, Truth, Row
<1>2. fetch'[g] = Sent \/ fetch'[g] = fetch[g]
  BY DEF PageTypeOK, Invalidate
<1> QED
  BY <1>1, <1>2 DEF Invalidate, Coming, Fits, serverVars, MayBeLeftOut, Newer

LEMMA CacheKept ==
  ASSUME NEW f \in Files, UNCHANGED <<serverVars, cacheVars>>
  PROVE  Truth(f)' = Truth(f) /\ Coming(f)' = Coming(f)
BY DEF serverVars, cacheVars, Coming, Fits, MayBeLeftOut, Newer, Truth, Row

-----------------------------------------------------------------------------
(* Every step keeps the invariant.                                         *)

LEMMA FetchAnsweredKeeps ==
  ASSUME PageInv, NEW k \in Folders, FetchAnswered(k)
  PROVE  PageInv'
<1>1. PageTypeOK'
  BY ListingType DEF PageInv, PageTypeOK, FetchAnswered, serverVars, callVars
<1>2. Followed'
  BY DEF PageInv, Followed, FetchAnswered, serverVars, callVars, Truth, Row
<1>3. ASSUME NEW f \in Files \ lost'
      PROVE  Expected(f)' \/ Coming(f)'
  <2>1. Truth(f)' = Truth(f) /\ Expected(f)' = Expected(f)
    BY DEF FetchAnswered, serverVars, callVars, Truth, Row, Expected
  <2>2. CASE FolderOf[f] = k
    <3>1. fetch'[k] = Listing(k) /\ Listing(k) # Idle /\ Fits(f, Listing(k)[f])
      BY <2>2, ListingType, Marks DEF PageInv, PageTypeOK, FetchAnswered
    <3>2. MayBeLeftOut(f) => MayBeLeftOut(f)'
      BY LeftOutStays DEF FetchAnswered, serverVars
    <3>3. \/ fetch'[k][f] = Truth(f)'
          \/ Truth(f)' = "failed" /\ fetch'[k][f] = "parsing"
          \/ MayBeLeftOut(f)' /\ fetch'[k][f] = "absent"
      BY <2>1, <3>1, <3>2 DEF Fits
    <3>4. Coming(f)'
      BY <2>2, <3>1, <3>3 DEF Coming, Fits
    <3> QED
      BY <3>4
  <2>3. CASE FolderOf[f] # k
    <3>1. fetch'[FolderOf[f]] = fetch[FolderOf[f]]
      BY <2>3 DEF PageInv, PageTypeOK, FetchAnswered
    <3>0. MayBeLeftOut(f) => MayBeLeftOut(f)'
      BY LeftOutStays DEF FetchAnswered, serverVars
    <3>2. Coming(f) => Coming(f)'
      BY <2>1, <3>0, <3>1 DEF Coming, Fits, FetchAnswered
    <3>3. Expected(f) \/ Coming(f)
      BY DEF PageInv, Foreseen, FetchAnswered
    <3> QED
      BY <2>1, <3>2, <3>3
  <2> QED
    BY <2>2, <2>3
<1> QED
  BY <1>1, <1>2, <1>3 DEF PageInv, Foreseen

LEMMA FetchArrivesKeeps ==
  ASSUME PageInv, NEW k \in Folders, FetchArrives(k)
  PROVE  PageInv'
<1>0a. \A f \in Files : MayBeLeftOut(f) => MayBeLeftOut(f)'
  BY LeftOutStays DEF PageInv, PageTypeOK, FetchArrives, serverVars
<1>0. fetch[k] \in Lists
  BY DEF PageInv, PageTypeOK, FetchArrives
<1>1. PageTypeOK'
  BY <1>0 DEF PageInv, PageTypeOK, FetchArrives, serverVars, callVars
<1>2. \A f \in Files : Truth(f)' = Truth(f) /\ Expected(f)' = Expected(f)
  BY DEF FetchArrives, serverVars, callVars, Truth, Row, Expected
<1>3. Followed'
  BY <1>2 DEF PageInv, Followed, FetchArrives, serverVars, callVars
<1>4. ASSUME NEW f \in Files \ lost'
      PROVE  Expected(f)' \/ Coming(f)'
  <2>1. CASE FolderOf[f] = k
    <3>1. fetch'[k] = Idle /\ cache'[k] = fetch[k] /\ cache'[k] # NoData
      BY <1>0, Marks DEF PageInv, PageTypeOK, FetchArrives
    <3>2. CASE f \in lost
      <4>1. cache'[k][f] = Truth(f)
        BY <2>1, <3>1, <3>2 DEF FetchArrives, In
      <4> QED
        BY <1>0a, <1>2, <2>1, <3>1, <4>1 DEF Coming, Fits
    <3>3. CASE f \notin lost
      <4>1. Expected(f) \/ Coming(f)
        BY <3>3 DEF PageInv, Foreseen
      <4>2. fetch[k] # Idle /\ fetch[k] # Sent
        BY DEF FetchArrives
      <4>3. Coming(f) => Coming(f)'
        BY <1>0a, <1>2, <2>1, <3>1, <4>2 DEF Coming, Fits
      <4> QED
        BY <1>2, <4>1, <4>3
    <3> QED
      BY <3>2, <3>3
  <2>2. CASE FolderOf[f] # k
    <3>1. fetch'[FolderOf[f]] = fetch[FolderOf[f]] /\ cache'[FolderOf[f]] = cache[FolderOf[f]]
          /\ invalid'[FolderOf[f]] = invalid[FolderOf[f]] /\ selected' = selected
      BY <2>2 DEF PageInv, PageTypeOK, FetchArrives
    <3>2. Coming(f) => Coming(f)'
      BY <1>0a, <1>2, <3>1 DEF Coming, Fits
    <3>3. f \notin lost
      BY <2>2 DEF FetchArrives, In
    <3> QED
      BY <1>2, <3>2, <3>3 DEF PageInv, Foreseen
  <2> QED
    BY <2>1, <2>2
<1> QED
  BY <1>1, <1>3, <1>4 DEF PageInv, Foreseen

LEMMA FetchFailsKeeps ==
  ASSUME PageInv, NEW k \in Folders, FetchFails(k)
  PROVE  PageInv'
<1>0a. \A f \in Files : MayBeLeftOut(f) => MayBeLeftOut(f)'
  BY LeftOutStays DEF PageInv, PageTypeOK, FetchFails, serverVars
<1>1. PageTypeOK'
  BY DEF PageInv, PageTypeOK, FetchFails, serverVars, callVars, In
<1>2. \A f \in Files : Truth(f)' = Truth(f) /\ Expected(f)' = Expected(f)
  BY DEF FetchFails, serverVars, callVars, Truth, Row, Expected
<1>3. Followed'
  BY <1>2 DEF PageInv, Followed, FetchFails, serverVars, callVars
<1>4. ASSUME NEW f \in Files \ lost'
      PROVE  Expected(f)' \/ Coming(f)'
  <2>1. f \notin lost /\ FolderOf[f] # k
    BY DEF FetchFails, In
  <2>2. fetch'[FolderOf[f]] = fetch[FolderOf[f]]
    BY <2>1 DEF PageInv, PageTypeOK, FetchFails
  <2>3. Coming(f) => Coming(f)'
    BY <1>0a, <1>2, <2>2 DEF Coming, Fits, FetchFails
  <2> QED
    BY <1>2, <2>1, <2>3 DEF PageInv, Foreseen
<1> QED
  BY <1>1, <1>3, <1>4 DEF PageInv, Foreseen

LEMMA SelectKeeps ==
  ASSUME PageInv, NEW k \in Folders, NEW stale \in BOOLEAN, Select(k, stale)
  PROVE  PageInv'
<1>0a. \A f \in Files : MayBeLeftOut(f) => MayBeLeftOut(f)'
  BY LeftOutStays DEF PageInv, PageTypeOK, Select, serverVars
<1>1. PageTypeOK'
  BY DEF PageInv, PageTypeOK, Select, serverVars, callVars
<1>2. \A f \in Files : Truth(f)' = Truth(f) /\ Expected(f)' = Expected(f)
  BY DEF Select, serverVars, callVars, Truth, Row, Expected
<1>3. Followed'
  BY <1>2 DEF PageInv, Followed, Select, serverVars, callVars
<1>4. ASSUME NEW f \in Files, Coming(f)
      PROVE  Coming(f)'
  <2>1. CASE FolderOf[f] = k
    <3>1. \/ fetch'[k] = Sent
          \/ fetch'[k] = fetch[k] /\ ~(fetch[k] = Idle /\ (cache[k] = NoData \/ invalid[k]))
      BY DEF PageInv, PageTypeOK, Select
    <3> QED
      BY <1>0a, <1>2, <1>4, <2>1, <3>1 DEF Coming, Fits, Select
  <2>2. CASE FolderOf[f] # k
    <3>1. fetch'[FolderOf[f]] = fetch[FolderOf[f]]
      BY <2>2 DEF PageInv, PageTypeOK, Select
    <3> QED
      BY <1>0a, <1>2, <1>4, <2>2, <3>1 DEF Coming, Fits, Select
  <2> QED
    BY <2>1, <2>2
<1>5. lost' = lost
  BY DEF Select
<1> QED
  BY <1>1, <1>2, <1>3, <1>4, <1>5 DEF PageInv, Foreseen

LEMMA LeaveKeeps ==
  ASSUME PageInv, Leave
  PROVE  PageInv'
<1>0a. \A f \in Files : MayBeLeftOut(f) => MayBeLeftOut(f)'
  BY LeftOutStays DEF PageInv, PageTypeOK, Leave, serverVars
<1>1. PageTypeOK'
  BY DEF PageInv, PageTypeOK, Leave, serverVars, callVars
<1>2. \A f \in Files : Truth(f)' = Truth(f) /\ Expected(f)' = Expected(f)
  BY DEF Leave, serverVars, callVars, Truth, Row, Expected
<1>3. Followed'
  BY <1>2 DEF PageInv, Followed, Leave, serverVars, callVars
<1>4. \A f \in Files : Coming(f) => Coming(f)'
  BY <1>0a, <1>2 DEF Coming, Fits, Leave
<1> QED
  BY <1>1, <1>2, <1>3, <1>4 DEF PageInv, Foreseen, Leave

LEMMA SettleKeeps ==
  ASSUME PageInv, NEW g \in Files, NEW verdict \in Verdicts, Settle(g, verdict)
  PROVE  PageInv'
<1>0a. \A f \in Files : MayBeLeftOut(f) => MayBeLeftOut(f)'
  BY LeftOutStays DEF PageInv, PageTypeOK, Settle, Verdicts
<1>1. PageTypeOK'
  BY DEF PageInv, PageTypeOK, Settle, cacheVars, callVars
<1>2. Truth(g) = "parsing" /\ Truth(g)' = verdict /\ server'[g] = verdict /\ Row(g)'
  BY DEF PageInv, PageTypeOK, Settle, Truth, Row, Verdicts
<1>3. \A f \in Files \ {g} : Truth(f)' = Truth(f) /\ server'[f] = server[f]
  BY DEF PageInv, PageTypeOK, Settle, Truth, Row
<1>4. Followed'
  BY <1>2, <1>3 DEF PageInv, Followed, Settle, callVars, Verdicts
<1>5. ASSUME NEW f \in Files \ lost'
      PROVE  Expected(f)' \/ Coming(f)'
  <2>0. f \notin lost /\ (Expected(f) \/ Coming(f))
    BY DEF PageInv, Foreseen, Settle
  <2>1. CASE f = g
    <3>1. current = g \/ g \in polling
      BY <1>2, <2>0, <2>1 DEF PageInv, Followed
    <3>2. CASE current = g
      BY <2>1, <3>2 DEF PageInv, PageTypeOK, Settle, callVars, Expected
    <3>3. CASE g \in polling /\ verdict = "ready"
      BY <1>2, <2>1, <3>3 DEF Settle, callVars, Expected
    <3>4. CASE verdict = "failed"
      <4>1. server[g] = "parsing"
        BY DEF Settle
      <4>2. Expected(f) => Expected(f)'
        BY <2>1, <4>1 DEF Expected, Settle, callVars
      <4>3. Coming(f) => Coming(f)'
        BY <1>0a, <1>2, <2>1, <3>4 DEF Coming, Fits, Settle, cacheVars
      <4> QED
        BY <2>0, <4>2, <4>3
    <3> QED
      BY <3>1, <3>2, <3>3, <3>4 DEF Verdicts
  <2>2. CASE f # g
    <3>1. Expected(f) => Expected(f)'
      BY <1>3, <2>2 DEF Expected, Settle, callVars, Row
    <3>2. Coming(f) => Coming(f)'
      BY <1>0a, <1>3, <2>2 DEF Coming, Fits, Settle, cacheVars
    <3> QED
      BY <2>0, <3>1, <3>2
  <2> QED
    BY <2>1, <2>2
<1> QED
  BY <1>1, <1>4, <1>5 DEF PageInv, Foreseen

LEMMA ServerDeletesKeeps ==
  ASSUME PageInv, NEW g \in Files, ServerDeletes(g)
  PROVE  PageInv'
<1>0a. \A f \in Files : MayBeLeftOut(f) => MayBeLeftOut(f)'
  BY LeftOutStays DEF PageInv, PageTypeOK, ServerDeletes
<1>1. PageTypeOK'
  BY DEF PageInv, PageTypeOK, ServerDeletes, cacheVars, callVars
<1>2. Truth(g)' = "absent"
  BY DEF ServerDeletes, Truth, Row
<1>3. \A f \in Files \ {g} : Truth(f)' = Truth(f) /\ Row(f)' = Row(f)
  BY DEF ServerDeletes, Truth, Row
<1>4. Followed'
  BY <1>2, <1>3 DEF PageInv, Followed, ServerDeletes, callVars
<1>5. ASSUME NEW f \in Files \ lost'
      PROVE  Expected(f)' \/ Coming(f)'
  <2>1. CASE f = g
    BY <2>1 DEF Expected, ServerDeletes, callVars
  <2>2. CASE f # g
    <3>1. Expected(f) => Expected(f)'
      BY <1>3, <2>2 DEF Expected, ServerDeletes, callVars
    <3>2. Coming(f) => Coming(f)'
      BY <1>0a, <1>3, <2>2 DEF Coming, Fits, ServerDeletes, cacheVars
    <3> QED
      BY <3>1, <3>2 DEF PageInv, Foreseen, ServerDeletes
  <2> QED
    BY <2>1, <2>2
<1> QED
  BY <1>1, <1>4, <1>5 DEF PageInv, Foreseen

LEMMA UploadsBeginKeeps ==
  ASSUME PageInv, UploadsBegin
  PROVE  PageInv'
<1>1. PageTypeOK'
  BY DEF PageInv, PageTypeOK, UploadsBegin, serverVars, cacheVars
<1>2. \A f \in Files : Truth(f)' = Truth(f) /\ Coming(f)' = Coming(f)
  BY CacheKept DEF UploadsBegin
<1>3. Followed'
  BY <1>2 DEF PageInv, PageTypeOK, Followed, UploadsBegin
<1>4. \A f \in Files \ lost' : f \notin lost /\ (Expected(f) => Expected(f)')
  BY DEF PageInv, PageTypeOK, UploadsBegin, Expected, serverVars, Row
<1> QED
  BY <1>1, <1>2, <1>3, <1>4 DEF PageInv, Foreseen

LEMMA UploadAcceptedKeeps ==
  ASSUME PageInv, NEW g \in Files, UploadAccepted(g)
  PROVE  PageInv'
<1>0a. \A f \in Files : MayBeLeftOut(f) => MayBeLeftOut(f)'
  BY LeftOutStays DEF PageInv, PageTypeOK, UploadAccepted
<1>1. PageTypeOK'
  BY DEF PageInv, PageTypeOK, UploadAccepted, cacheVars
<1>2. \A f \in Files \ {g} : Truth(f)' = Truth(f) /\ Row(f)' = Row(f) /\ server'[f] = server[f]
  BY DEF PageInv, PageTypeOK, UploadAccepted, Truth, Row
<1>3. Followed'
  BY <1>2 DEF PageInv, Followed, UploadAccepted
<1>4. ASSUME NEW f \in Files \ lost'
      PROVE  Expected(f)' \/ Coming(f)'
  <2>1. CASE f = g
    BY <2>1 DEF Expected, UploadAccepted
  <2>2. CASE f # g
    <3>1. Expected(f) => Expected(f)'
      BY <1>2, <2>2 DEF Expected, UploadAccepted
    <3>2. Coming(f) => Coming(f)'
      BY <1>0a, <1>2, <2>2 DEF Coming, Fits, UploadAccepted, cacheVars
    <3> QED
      BY <3>1, <3>2 DEF PageInv, Foreseen, UploadAccepted
  <2> QED
    BY <2>1, <2>2
<1> QED
  BY <1>1, <1>3, <1>4 DEF PageInv, Foreseen

LEMMA UploadRepliedKeeps ==
  ASSUME PageInv, UploadReplied
  PROVE  PageInv'
<1>1. PageTypeOK'
  BY DEF PageInv, PageTypeOK, UploadReplied, serverVars, cacheVars
<1>2. \A f \in Files : Truth(f)' = Truth(f) /\ Coming(f)' = Coming(f)
  BY CacheKept DEF UploadReplied
<1>3. Followed'
  BY <1>2 DEF PageInv, PageTypeOK, Followed, UploadReplied
<1>4. \A f \in Files \ lost' : f \notin lost /\ (Expected(f) => Expected(f)')
  BY DEF PageInv, PageTypeOK, UploadReplied, Expected, serverVars, Row
<1> QED
  BY <1>1, <1>2, <1>3, <1>4 DEF PageInv, Foreseen

LEMMA UploadReplyLostKeeps ==
  ASSUME PageInv, UploadReplyLost
  PROVE  PageInv'
<1>1. PageTypeOK'
  BY DEF PageInv, PageTypeOK, UploadReplyLost, serverVars, cacheVars
<1>2. \A f \in Files : Truth(f)' = Truth(f) /\ Coming(f)' = Coming(f)
  BY CacheKept DEF UploadReplyLost
<1>3. Followed'
  BY <1>2 DEF PageInv, PageTypeOK, Followed, UploadReplyLost
<1>4. \A f \in Files \ lost' : f \notin lost /\ (Expected(f) => Expected(f)')
  BY DEF PageInv, PageTypeOK, UploadReplyLost, Expected, serverVars, Row
<1> QED
  BY <1>1, <1>2, <1>3, <1>4 DEF PageInv, Foreseen

LEMMA UploadsEndKeeps ==
  ASSUME PageInv, UploadsEnd
  PROVE  PageInv'
<1>0. uploading \in Folders /\ Invalidate(uploading) /\ UNCHANGED serverVars
  BY DEF PageInv, PageTypeOK, UploadsEnd
<1>1. PageTypeOK'
  <2>1. lost' \in SUBSET Files
    BY DEF PageInv, PageTypeOK, UploadsEnd, In
  <2> QED
    BY <1>0, <2>1, InvalidationTypes DEF PageInv, PageTypeOK, UploadsEnd, serverVars
<1>2. \A f \in Files : Truth(f)' = Truth(f)
  BY <1>0 DEF serverVars, Truth, Row
<1>3. Followed'
  BY <1>2 DEF PageInv, Followed, UploadsEnd
<1>4. ASSUME NEW f \in Files \ lost'
      PROVE  Expected(f)' \/ Coming(f)'
  <2>0. f \notin lost /\ (f \in In(uploading) => ~Missed(uploading))
    BY DEF UploadsEnd
  <2>1. CASE FolderOf[f] = uploading
    BY <1>0, <2>0, <2>1, InvalidationBrings DEF PageInv, In
  <2>2. CASE FolderOf[f] # uploading
    <3>1. Expected(f) => Expected(f)'
      BY <1>0, <2>2 DEF Expected, UploadsEnd, serverVars, Row
    <3>2. Coming(f) => Coming(f)'
      BY <1>0, InvalidationHarmless DEF PageInv
    <3> QED
      BY <2>0, <3>1, <3>2 DEF PageInv, Foreseen
  <2> QED
    BY <2>1, <2>2
<1> QED
  BY <1>1, <1>3, <1>4 DEF PageInv, Foreseen

LEMMA PollAskedKeeps ==
  ASSUME PageInv, NEW g \in Files, PollAsked(g)
  PROVE  PageInv'
<1>1. PageTypeOK'
  BY DEF PageInv, PageTypeOK, PollAsked, serverVars, cacheVars
<1>2. \A f \in Files : Truth(f)' = Truth(f) /\ Coming(f)' = Coming(f)
  BY CacheKept DEF PollAsked
<1>3. Followed'
  BY <1>2 DEF PageInv, PageTypeOK, Followed, PollAsked
<1>4. \A f \in Files \ lost' : f \notin lost /\ (Expected(f) => Expected(f)')
  BY DEF PageInv, PageTypeOK, PollAsked, Expected, serverVars, Row
<1> QED
  BY <1>1, <1>2, <1>3, <1>4 DEF PageInv, Foreseen

LEMMA PollCompletedKeeps ==
  ASSUME PageInv, NEW g \in Files, PollCompleted(g)
  PROVE  PageInv'
<1> DEFINE k == FolderOf[g]
<1>0. k \in Folders /\ Invalidate(k) /\ UNCHANGED serverVars
  BY DEF PollCompleted
<1>1. PageTypeOK'
  BY <1>0, InvalidationTypes DEF PageInv, PageTypeOK, PollCompleted, serverVars
<1>2. \A f \in Files : Truth(f)' = Truth(f)
  BY <1>0 DEF serverVars, Truth, Row
<1>3. Truth(g) # "parsing"
  BY DEF PollCompleted, Truth, Row
<1>4. Followed'
  BY <1>2, <1>3 DEF PageInv, Followed, PollCompleted
<1>5. ASSUME NEW f \in Files \ lost'
      PROVE  Expected(f)' \/ Coming(f)'
  <2>1. CASE f = g
    <3>1. ~Missed(k)
      BY <2>1 DEF PollCompleted
    <3> QED
      BY <1>0, <2>1, <3>1, InvalidationBrings DEF PageInv
  <2>2. CASE f # g
    <3>0. f \notin lost
      BY <2>2 DEF PollCompleted
    <3>1. Expected(f) => Expected(f)'
      BY <1>0, <2>2 DEF PageInv, PageTypeOK, Expected, PollCompleted, serverVars, Row
    <3>2. Coming(f) => Coming(f)'
      BY <1>0, InvalidationHarmless DEF PageInv
    <3> QED
      BY <3>0, <3>1, <3>2 DEF PageInv, Foreseen
  <2> QED
    BY <2>1, <2>2
<1> QED
  BY <1>1, <1>4, <1>5 DEF PageInv, Foreseen

LEMMA PollFailedKeeps ==
  ASSUME PageInv, NEW g \in Files, PollFailed(g)
  PROVE  PageInv'
<1>1. PageTypeOK'
  BY DEF PageInv, PageTypeOK, PollFailed, serverVars, cacheVars
<1>2. \A f \in Files : Truth(f)' = Truth(f) /\ Coming(f)' = Coming(f)
  BY CacheKept DEF PollFailed
<1>3. Followed'
  BY <1>2 DEF PageInv, PageTypeOK, Followed, PollFailed, Truth
<1>4. \A f \in Files \ lost' : f \notin lost /\ (Expected(f) => Expected(f)')
  BY DEF PageInv, PageTypeOK, PollFailed, Expected, serverVars, Row
<1> QED
  BY <1>1, <1>2, <1>3, <1>4 DEF PageInv, Foreseen

LEMMA PollErrsKeeps ==
  ASSUME PageInv, NEW g \in Files, PollErrs(g)
  PROVE  PageInv'
<1>1. PageTypeOK'
  BY DEF PageInv, PageTypeOK, PollErrs, serverVars, cacheVars
<1>2. \A f \in Files : Truth(f)' = Truth(f) /\ Coming(f)' = Coming(f)
  BY CacheKept DEF PollErrs
<1>3. Followed'
  BY <1>2 DEF PageInv, PageTypeOK, Followed, PollErrs, Truth
<1>4. \A f \in Files \ lost' : f \notin lost /\ (Expected(f) => Expected(f)')
  BY DEF PageInv, PageTypeOK, PollErrs, Expected, serverVars, Row
<1> QED
  BY <1>1, <1>2, <1>3, <1>4 DEF PageInv, Foreseen

LEMMA DeleteClickedKeeps ==
  ASSUME PageInv, NEW g \in Files, DeleteClicked(g)
  PROVE  PageInv'
<1>1. PageTypeOK'
  BY DEF PageInv, PageTypeOK, DeleteClicked, serverVars, cacheVars
<1>2. \A f \in Files : Truth(f)' = Truth(f) /\ Coming(f)' = Coming(f)
  BY CacheKept DEF DeleteClicked
<1>3. Followed'
  BY <1>2 DEF PageInv, PageTypeOK, Followed, DeleteClicked
<1>4. \A f \in Files \ lost' : f \notin lost /\ (Expected(f) => Expected(f)')
  BY DEF PageInv, PageTypeOK, DeleteClicked, Expected, serverVars, Row
<1> QED
  BY <1>1, <1>2, <1>3, <1>4 DEF PageInv, Foreseen

LEMMA DeleteRepliedKeeps ==
  ASSUME PageInv, NEW g \in Files, DeleteReplied(g)
  PROVE  PageInv'
<1> DEFINE k == FolderOf[g]
<1>0. k \in Folders /\ Invalidate(k) /\ UNCHANGED serverVars
  BY DEF DeleteReplied
<1>1. PageTypeOK'
  BY <1>0, InvalidationTypes DEF PageInv, PageTypeOK, DeleteReplied, serverVars
<1>2. \A f \in Files : Truth(f)' = Truth(f)
  BY <1>0 DEF serverVars, Truth, Row
<1>3. Truth(g) # "parsing"
  BY DEF DeleteReplied, Truth, Row
<1>4. Followed'
  BY <1>2, <1>3 DEF PageInv, Followed, DeleteReplied
<1>5. ASSUME NEW f \in Files \ lost'
      PROVE  Expected(f)' \/ Coming(f)'
  <2>1. CASE f = g
    <3>1. ~Missed(k)
      BY <2>1 DEF DeleteReplied
    <3> QED
      BY <1>0, <2>1, <3>1, InvalidationBrings DEF PageInv
  <2>2. CASE f # g
    <3>0. f \notin lost
      BY <2>2 DEF DeleteReplied
    <3>1. Expected(f) => Expected(f)'
      BY <1>0, <2>2 DEF PageInv, PageTypeOK, Expected, DeleteReplied, serverVars, Row
    <3>2. Coming(f) => Coming(f)'
      BY <1>0, InvalidationHarmless DEF PageInv
    <3> QED
      BY <3>0, <3>1, <3>2 DEF PageInv, Foreseen
  <2> QED
    BY <2>1, <2>2
<1> QED
  BY <1>1, <1>4, <1>5 DEF PageInv, Foreseen

LEMMA DeleteFailsKeeps ==
  ASSUME PageInv, NEW g \in Files, DeleteFails(g)
  PROVE  PageInv'
<1>1. PageTypeOK'
  BY DEF PageInv, PageTypeOK, DeleteFails, serverVars, cacheVars
<1>2. \A f \in Files : Truth(f)' = Truth(f) /\ Coming(f)' = Coming(f)
  BY CacheKept DEF DeleteFails
<1>3. Followed'
  BY <1>2 DEF PageInv, PageTypeOK, Followed, DeleteFails
<1>4. \A f \in Files \ lost' : f \notin lost /\ (Expected(f) => Expected(f)')
  BY DEF PageInv, PageTypeOK, DeleteFails, Expected, serverVars, Row
<1> QED
  BY <1>1, <1>2, <1>3, <1>4 DEF PageInv, Foreseen

LEMMA PageStart == PageInit => PageInv
<1> SUFFICES ASSUME PageInit PROVE PageInv
  OBVIOUS
<1>1. PageTypeOK
  BY DEF PageInit, PageTypeOK
<1>2. Followed
  BY DEF PageInit, Followed, Truth, Row
<1>3. Foreseen
  BY DEF PageInit, Foreseen, Coming
<1> QED
  BY <1>1, <1>2, <1>3 DEF PageInv

LEMMA PageStep == PageInv /\ [PageNext]_pageVars => PageInv'
<1> SUFFICES ASSUME PageInv, [PageNext]_pageVars PROVE PageInv'
  OBVIOUS
<1>1. CASE \E k \in Folders : FetchAnswered(k) \/ FetchArrives(k) \/ FetchFails(k)
  BY <1>1, FetchAnsweredKeeps, FetchArrivesKeeps, FetchFailsKeeps
<1>2. CASE Leave \/ \E k \in Folders, stale \in BOOLEAN : Select(k, stale)
  BY <1>2, SelectKeeps, LeaveKeeps
<1>3. CASE \/ \E f \in Files, verdict \in Verdicts : Settle(f, verdict)
           \/ \E f \in Files : ServerDeletes(f)
  BY <1>3, SettleKeeps, ServerDeletesKeeps
<1>4. CASE \/ UploadsBegin \/ UploadReplied \/ UploadReplyLost \/ UploadsEnd
           \/ \E f \in Files : UploadAccepted(f)
  BY <1>4, UploadsBeginKeeps, UploadRepliedKeeps, UploadReplyLostKeeps, UploadsEndKeeps,
     UploadAcceptedKeeps
<1>5. CASE \E f \in Files : PollAsked(f) \/ PollCompleted(f) \/ PollFailed(f) \/ PollErrs(f)
  BY <1>5, PollAskedKeeps, PollCompletedKeeps, PollFailedKeeps, PollErrsKeeps
<1>6. CASE \E f \in Files : DeleteClicked(f) \/ DeleteReplied(f) \/ DeleteFails(f)
  BY <1>6, DeleteClickedKeeps, DeleteRepliedKeeps, DeleteFailsKeeps
<1>7. CASE UNCHANGED pageVars
  BY <1>7 DEF pageVars, serverVars, cacheVars, callVars, PageInv, PageTypeOK, Foreseen,
     Followed, Expected, Coming, Fits, MayBeLeftOut, Newer, Truth, Row
<1> QED
  BY <1>1, <1>2, <1>3, <1>4, <1>5, <1>6, <1>7 DEF PageNext

LEMMA PageInvIsEnough == PageInv => QuietPageIsTrue
<1> SUFFICES ASSUME PageInv, Quiet, NEW f \in In(selected) \ lost
             PROVE  Fits(f, Shown(f))
  BY DEF QuietPageIsTrue, Fits
<1>1. f \in Files /\ FolderOf[f] = selected
  BY DEF In
<1>2. ~Expected(f)
  BY <1>1 DEF Quiet, Expected
<1>3. Coming(f)
  BY <1>1, <1>2 DEF PageInv, Foreseen
<1> QED
  BY <1>1, <1>3, Marks DEF Coming, Quiet, Shown

(* The page at rest shows the truth of every file but those it was told    *)
(* nothing about, for any number of files, folders, polls and fetches in   *)
(* any order: no invalidation is overtaken by an older list.  Of a folder  *)
(* of more files than fit into the one page that is fetched, it shows the  *)
(* newest, and nothing false of the others.                                *)
THEOREM QuietPage == PageSpec => []QuietPageIsTrue
<1>1. PageSpec => []PageInv
  BY PageStart, PageStep, PTL DEF PageSpec
<1> QED
  BY <1>1, PageInvIsEnough, PTL
=============================================================================
