-------------------------- MODULE FolderTreeProofs ---------------------------
(***************************************************************************)
(* For any number of folders, files, names and concurrent deletes: what a  *)
(* delete selects by path covers what the database cascades by parent_id,  *)
(* and no file that was there before the deletes is left behind.           *)
(***************************************************************************)
EXTENDS FolderTree, TLAPS

(* A request reads a parent that exists, and a path never changes once     *)
(* known: it extends the path of the parent.                               *)
PathExtendsParent ==
    \A F \in Folders :
        /\ parent[F] # Absent => creating[F] # Absent
        /\ parent[F] \in Folders \cup {Root} => parent[F] = creating[F]
        /\ creating[F] \in Folders => /\ creating[creating[F]] # Absent
                                      /\ IsPrefix(path[creating[F]], path[F])

(* The foreign keys. *)
ForeignKeys ==
    /\ \A F \in Live : parent[F] \in Folders => parent[F] \in Live
    /\ \A f \in Files :
          /\ home[f] \in Folders => home[f] \in Live /\ home[f] = chosen[f]
          /\ home[f] # Absent => chosen[f] # Absent

(* A delete under way has, or will have, every file of the path that was   *)
(* not uploaded under its nose.                                            *)
SelectionIsComplete ==
    \A d \in Deleters :
        /\ del[d].stage # "idle" => /\ del[d].target \in Folders
                                    /\ creating[del[d].target] # Absent
                                    /\ del[d].path = path[del[d].target]
        /\ \A f \in del[d].files : home[f] # Absent
        /\ \A f \in Files :
              (home[f] \in Folders /\ IsPrefix(del[d].path, path[home[f]]) /\ ~overlapped[f])
              => /\ del[d].stage = "folders" => home[f] \in del[d].folders
                 /\ del[d].stage = "files" => f \in del[d].files

IInv ==
    /\ TreeTypeOK /\ PathExtendsParent /\ ForeignKeys /\ SelectionIsComplete
    /\ OnlyOverlappedFilesDetach

-----------------------------------------------------------------------------
USE RowsAssumption DEF Deletions, Idle, folderVars, fileVars

LEMMA PrefixTransitive ==
    ASSUME NEW s \in Seq(Segments), NEW t \in Seq(Segments), NEW u \in Seq(Segments),
           IsPrefix(s, t), IsPrefix(t, u)
    PROVE  IsPrefix(s, u)
<1>1. \A i \in 1..Len(s) : s[i] = t[i]
  BY DEF IsPrefix
<1>2. \A i \in 1..Len(t) : t[i] = u[i]
  BY DEF IsPrefix
<1>3. QED
  BY <1>1, <1>2 DEF IsPrefix

LEMMA PrefixReflexive == \A s \in Seq(Segments) : IsPrefix(s, s)
  BY DEF IsPrefix

LEMMA PrefixConcat ==
    ASSUME NEW s \in Seq(Segments), NEW t \in Seq(Segments)
    PROVE  IsPrefix(s, s \o t)
  BY DEF IsPrefix

(* The cascade of a row that exists stays under its path: the set of       *)
(* folders under the path holds T and is closed under "child of".          *)
LEMMA SubtreeUnderPath ==
    ASSUME TreeTypeOK, PathExtendsParent, NEW T \in Live
    PROVE  Subtree(T) \subseteq Under(path[T])
<1> DEFINE S == Under(path[T])
<1>1. S \in SUBSET Folders /\ T \in S
  BY PrefixReflexive DEF TreeTypeOK, Under, Live
<1>2. ASSUME NEW G \in Live, parent[G] \in S
      PROVE  G \in S
  <2>1. parent[G] \in Folders /\ parent[G] = creating[G] /\ IsPrefix(path[parent[G]], path[G])
    BY <1>2 DEF PathExtendsParent, Under, Live
  <2>2. IsPrefix(path[T], path[parent[G]])
    BY <1>2 DEF Under
  <2>3. IsPrefix(path[T], path[G])
    BY <2>1, <2>2, PrefixTransitive DEF TreeTypeOK, Live
  <2>4. QED
    BY <2>3 DEF Under
<1>3. QED
  BY <1>1, <1>2 DEF Subtree

(* A row that is gone takes nothing with it: its children went first. *)
LEMMA DeadSubtree ==
    ASSUME ForeignKeys, NEW T \in Folders \ Live
    PROVE  Subtree(T) = {}
<1>1. \A G \in Live : parent[G] # T
  BY DEF ForeignKeys, Live
<1>2. \A F \in Subtree(T) : F \in {T}
  BY <1>1 DEF Subtree, Live
<1>3. QED
  BY <1>2 DEF Subtree

(* No child outlives its parent. *)
LEMMA SubtreeClosed ==
    ASSUME NEW T \in Folders, NEW G \in Live, parent[G] \in Subtree(T)
    PROVE  G \in Subtree(T)
  BY DEF Subtree

-----------------------------------------------------------------------------
LEMMA TypeOKStep == TreeTypeOK /\ [TreeNext]_treeVars => TreeTypeOK'
<1> SUFFICES ASSUME TreeTypeOK, [TreeNext]_treeVars PROVE TreeTypeOK'
  OBVIOUS
<1> USE DEF TreeTypeOK
<1>1. ASSUME NEW F \in Folders, NEW p \in Folders \cup {Root}, NEW n \in Names,
             CreateRead(F, p, n)
      PROVE  TreeTypeOK'
  <2>1. (IF p = Root THEN n ELSE path[p] \o n) \in Seq(Segments)
    BY NamesAssumption
  <2>2. QED
    BY <1>1, <2>1 DEF CreateRead
<1>2. ASSUME NEW F \in Folders, CreateInsert(F) PROVE TreeTypeOK'
  BY <1>2 DEF CreateInsert, Live
<1>3. ASSUME NEW f \in Files, NEW p \in Folders \cup {Root}, UploadCheck(f, p)
      PROVE  TreeTypeOK'
  BY <1>3 DEF UploadCheck
<1>4. ASSUME NEW f \in Files, UploadInsert(f) PROVE TreeTypeOK'
  BY <1>4 DEF UploadInsert, Live
<1>5. ASSUME NEW d \in Deleters, NEW T \in Folders, DeleteReadFolders(d, T) PROVE TreeTypeOK'
  BY <1>5 DEF DeleteReadFolders, Under, Live
<1>6. ASSUME NEW d \in Deleters, DeleteReadFiles(d) PROVE TreeTypeOK'
  BY <1>6 DEF DeleteReadFiles
<1>7. ASSUME NEW d \in Deleters, DeleteCommit(d) \/ DeleteAbort(d) PROVE TreeTypeOK'
  <2>1. Idle \in Deletions
    OBVIOUS
  <2>2. del' \in [Deleters -> Deletions]
    BY <1>7, <2>1 DEF DeleteCommit, DeleteAbort
  <2>3. CASE DeleteCommit(d)
    BY <2>2, <2>3 DEF DeleteCommit
  <2>4. CASE DeleteAbort(d)
    BY <2>2, <2>4 DEF DeleteAbort
  <2>5. QED
    BY <1>7, <2>3, <2>4
<1>8. CASE UNCHANGED treeVars
  BY <1>8 DEF treeVars
<1>9. QED
  BY <1>1, <1>2, <1>3, <1>4, <1>5, <1>6, <1>7, <1>8 DEF TreeNext

(* The conjuncts of IInv beside TreeTypeOK. *)
Kept == PathExtendsParent /\ ForeignKeys /\ SelectionIsComplete /\ OnlyOverlappedFilesDetach

LEMMA FolderKeeps ==
    ASSUME IInv, TreeTypeOK', NEW F \in Folders,
           (\E p \in Folders \cup {Root}, n \in Names : CreateRead(F, p, n)) \/ CreateInsert(F)
    PROVE  Kept'
<1> USE DEF IInv, Kept, TreeTypeOK, PathExtendsParent, ForeignKeys, SelectionIsComplete,
        OnlyOverlappedFilesDetach, Live
<1>1. ASSUME NEW p \in Folders \cup {Root}, NEW n \in Names, CreateRead(F, p, n)
      PROVE  Kept'
  <2>1. p \in Folders => IsPrefix(path[p], path'[F])
    BY <1>1, NamesAssumption, PrefixConcat DEF CreateRead
  <2>2. /\ creating[F] = Absent /\ parent[F] = Absent /\ creating'[F] = p /\ p # F
        /\ p \in Folders => creating[p] # Absent
        /\ parent' = parent /\ home' = home /\ del' = del
        /\ chosen' = chosen /\ overlapped' = overlapped
        /\ \A G \in Folders \ {F} : path'[G] = path[G] /\ creating'[G] = creating[G]
    BY <1>1 DEF CreateRead
  <2>3. PathExtendsParent'
    <3>1. \A G \in Folders : creating[G] # F
      BY <2>2
    <3>2. ASSUME NEW G \in Folders \ {F}, creating[G] \in Folders
          PROVE  /\ creating'[creating'[G]] # Absent
                 /\ IsPrefix(path'[creating'[G]], path'[G])
      BY <2>2, <3>1, <3>2
    <3>3. creating'[F] \in Folders => /\ creating'[creating'[F]] # Absent
                                      /\ IsPrefix(path'[creating'[F]], path'[F])
      BY <2>1, <2>2
    <3>4. \A G \in Folders :
             /\ parent'[G] # Absent => creating'[G] # Absent
             /\ parent'[G] \in Folders \cup {Root} => parent'[G] = creating'[G]
      BY <2>2
    <3>5. QED
      BY <2>2, <3>2, <3>3, <3>4
  <2>4. ForeignKeys'
    BY <2>2
  <2>5. SelectionIsComplete'
    <3>1. \A f \in Files : home[f] # F
      <4>1. F \notin Live
        BY <2>2
      <4>2. QED
        BY <4>1
    <3>2. \A d \in Deleters : del[d].stage # "idle" => del[d].target # F
      BY <2>2
    <3>3. QED
      BY <2>2, <3>1, <3>2
  <2>6. QED
    BY <2>2, <2>3, <2>4, <2>5
<1>2. CASE CreateInsert(F)
  <2>1. /\ creating[F] # Absent /\ parent[F] = Absent
        /\ parent'[F] \in {creating[F], Gone}
        /\ parent'[F] \in Folders => parent'[F] \in Live
        /\ path' = path /\ creating' = creating /\ home' = home /\ del' = del
        /\ chosen' = chosen /\ overlapped' = overlapped
        /\ \A G \in Folders \ {F} : parent'[G] = parent[G]
    BY <1>2 DEF CreateInsert
  <2>2. F \notin Live
    BY <2>1
  <2>3. PathExtendsParent'
    BY <2>1
  <2>4. Live \subseteq Live' /\ (F \in Live' => parent'[F] \in Live \cup {Root})
    BY <2>1
  <2>5. ForeignKeys'
    <3>1. ASSUME NEW G \in Live', parent'[G] \in Folders PROVE parent'[G] \in Live'
      <4>1. CASE G = F
        BY <2>1, <2>4, <3>1, <4>1
      <4>2. CASE G # F
        <5>1. G \in Live /\ parent'[G] = parent[G]
          BY <2>1, <4>2
        <5>2. parent[G] \in Live
          BY <3>1, <5>1
        <5>3. QED
          BY <2>4, <5>1, <5>2
      <4>3. QED
        BY <4>1, <4>2
    <3>2. QED
      BY <2>1, <2>4, <3>1
  <2>6. SelectionIsComplete'
    BY <2>1
  <2>7. QED
    BY <2>1, <2>3, <2>5, <2>6
<1>3. QED
  BY <1>1, <1>2

LEMMA FileKeeps ==
    ASSUME IInv, TreeTypeOK', NEW f \in Files,
           (\E p \in Folders \cup {Root} : UploadCheck(f, p)) \/ UploadInsert(f)
    PROVE  Kept'
<1> USE DEF IInv, Kept, TreeTypeOK, PathExtendsParent, ForeignKeys, SelectionIsComplete,
        OnlyOverlappedFilesDetach, Live
<1>1. ASSUME NEW p \in Folders \cup {Root}, UploadCheck(f, p)
      PROVE  Kept'
  <2>1. home[f] = Absent
    BY <1>1 DEF UploadCheck
  <2>2. QED
    BY <1>1, <2>1 DEF UploadCheck
<1>2. CASE UploadInsert(f)
  <2>1. /\ home'[f] \in {chosen[f], Gone} /\ chosen[f] # Absent
        /\ home'[f] \in Folders => home'[f] \in Live
    BY <1>2 DEF UploadInsert
  <2> PICK busy \in BOOLEAN : busy <=> \E d \in Deleters : del[d].stage # "idle"
    OBVIOUS
  <2>0. busy = (Deleting # {})
    BY DEF Deleting
  <2>2. /\ overlapped' = [overlapped EXCEPT ![f] = busy]
        /\ parent' = parent /\ path' = path /\ creating' = creating /\ del' = del
        /\ chosen' = chosen
        /\ \A g \in Files \ {f} : home'[g] = home[g]
    BY <1>2, <2>0 DEF UploadInsert
  <2>3. ForeignKeys'
    <3>1. Live' = Live
      BY <2>2
    <3>2. \A g \in Files \ {f} : /\ home'[g] \in Folders => home'[g] \in Live
                                /\ home'[g] = home[g]
      BY <2>2
    <3>3. QED
      BY <2>1, <2>2, <3>1, <3>2
  <2>4. SelectionIsComplete'
    <3>1. ASSUME NEW d \in Deleters, ~overlapped'[f] PROVE del[d].stage = "idle"
      BY <2>2, <3>1
    <3>2. QED
      BY <2>1, <2>2, <3>1
  <2>5. QED
    BY <2>1, <2>2, <2>3, <2>4
<1>3. QED
  BY <1>1, <1>2

LEMMA DeleterKeeps ==
    ASSUME IInv, TreeTypeOK', NEW d \in Deleters,
           \/ \E T \in Folders : DeleteReadFolders(d, T)
           \/ DeleteReadFiles(d) \/ DeleteCommit(d) \/ DeleteAbort(d)
    PROVE  Kept'
<1> USE DEF IInv, Kept, TreeTypeOK, PathExtendsParent, ForeignKeys, SelectionIsComplete,
        OnlyOverlappedFilesDetach
<1>1. ASSUME NEW T \in Folders, DeleteReadFolders(d, T)
      PROVE  Kept'
  <2>1. T \in Live /\ creating[T] # Absent
    BY <1>1 DEF DeleteReadFolders, Live
  <2>2. QED
    BY <1>1, <2>1 DEF DeleteReadFolders, Under, Live
<1>2. CASE DeleteReadFiles(d)
  BY <1>2 DEF DeleteReadFiles, Live
<1>3. CASE DeleteCommit(d)
  <2> PICK doomed \in SUBSET Live : doomed = Subtree(del[d].target)
    BY DEF Subtree
  <2>1. /\ parent' = [F \in Folders |-> IF F \in doomed THEN Gone ELSE parent[F]]
        /\ home' = [f \in Files |-> IF f \in del[d].files THEN Gone
                                     ELSE IF home[f] \in doomed THEN Root ELSE home[f]]
        /\ del' = [del EXCEPT ![d] = Idle]
        /\ path' = path /\ creating' = creating /\ chosen' = chosen
        /\ overlapped' = overlapped /\ del[d].stage = "files" /\ del[d].target \in Folders
    BY <1>3 DEF DeleteCommit
  <2>2. Live' = Live \ doomed
    BY <2>1 DEF Live
  <2>3. \A F \in doomed : IsPrefix(del[d].path, path[F])
    <3>1. CASE del[d].target \in Live
      BY <2>1, <3>1, SubtreeUnderPath DEF Under
    <3>2. CASE del[d].target \notin Live
      BY <2>1, <3>2, DeadSubtree
    <3>3. QED
      BY <3>1, <3>2
  <2>4. PathExtendsParent'
    BY <2>1 DEF Live
  <2>5. ForeignKeys'
    <3>1. \A G \in Live : parent[G] \in doomed => G \in doomed
      BY <2>1, SubtreeClosed
    <3>2. \A f \in Files : home'[f] \in Folders =>
                home'[f] = home[f] /\ home[f] \in Live \ doomed
      BY <2>1
    <3>3. \A F \in Live' : parent'[F] = parent[F]
      BY <2>1, <2>2 DEF Live
    <3>4. \A F \in Live' : parent'[F] \in Folders => parent'[F] \in Live'
      BY <2>2, <3>1, <3>3
    <3>5. \A f \in Files : home'[f] # Absent => chosen'[f] # Absent
      <4>1. \A f \in Files : home[f] = Absent => f \notin del[d].files /\ home[f] \notin doomed
        BY DEF Live
      <4>2. \A f \in Files : home[f] = Absent => home'[f] = Absent
        BY <2>1, <4>1
      <4>3. QED
        BY <2>1, <4>2
    <3>6. QED
      BY <2>1, <2>2, <3>2, <3>4, <3>5
  <2>6. SelectionIsComplete'
    BY <2>1 DEF Live
  <2>7. OnlyOverlappedFilesDetach'
    <3>1. ASSUME NEW f \in Files, f \notin del[d].files, home[f] \in doomed
          PROVE  overlapped[f]
      BY <2>1, <2>3, <3>1 DEF Live
    <3>2. QED
      BY <2>1, <3>1
  <2>8. QED
    BY <2>4, <2>5, <2>6, <2>7
<1>4. CASE DeleteAbort(d)
  BY <1>4 DEF DeleteAbort, Live
<1>5. QED
  BY <1>1, <1>2, <1>3, <1>4

LEMMA IInvStep == IInv /\ [TreeNext]_treeVars => IInv'
<1> SUFFICES ASSUME IInv, [TreeNext]_treeVars PROVE IInv'
  OBVIOUS
<1>1. TreeTypeOK'
  BY TypeOKStep DEF IInv
<1>2. CASE UNCHANGED treeVars
  BY <1>1, <1>2 DEF treeVars, IInv, PathExtendsParent, ForeignKeys, SelectionIsComplete,
     OnlyOverlappedFilesDetach, Live
<1>3. CASE TreeNext
  <2>1. Kept'
    BY <1>1, <1>3, FolderKeeps, FileKeeps, DeleterKeeps DEF TreeNext
  <2>2. QED
    BY <1>1, <2>1 DEF IInv, Kept
<1>4. QED
  BY <1>2, <1>3

LEMMA IInvHolds == TreeSpec => []IInv
<1>1. TreeInit => IInv
  BY DEF TreeInit, IInv, TreeTypeOK, PathExtendsParent, ForeignKeys, SelectionIsComplete,
     OnlyOverlappedFilesDetach, Live
<1>2. QED
  BY <1>1, IInvStep, PTL DEF TreeSpec

(* Type correctness. *)
THEOREM TypeCorrect == TreeSpec => []TreeTypeOK
  BY IInvHolds, PTL DEF IInv

(* delete_folder: the rows that ON DELETE CASCADE takes lie under the path *)
(* by which the files were selected.                                       *)
THEOREM CascadeUnderPath == TreeSpec => []CascadeStaysUnderPath
<1>1. IInv => CascadeStaysUnderPath
  BY SubtreeUnderPath DEF IInv, CascadeStaysUnderPath
<1>2. QED
  BY <1>1, IInvHolds, PTL

(* delete_folder: a file that was uploaded before the delete goes with its *)
(* folder, or stays in it; it is never cut loose.                          *)
THEOREM NoFileLeftBehind == TreeSpec => []OnlyOverlappedFilesDetach
  BY IInvHolds, PTL DEF IInv
=============================================================================
