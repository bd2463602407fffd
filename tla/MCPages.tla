------------------------------ MODULE MCPages ------------------------------
(***************************************************************************)
(* The two pages of the browser and the uploads in parts.  They share no   *)
(* state, so that each behaviour is of one of them (`scene') and the state *)
(* space is their sum: two files of one folder, of which one page holds    *)
(* one; an upload of one part and one of two, in a folder, and two         *)
(* completions; one past conversation, one that may be created, and two    *)
(* turns ("chat"), of which the first may leave its question alone, or all *)
(* turns but the last and the menu that deletes a conversation ("menu").   *)
(***************************************************************************)
EXTENDS FilesPage, MultipartUpload, ChatPage

CONSTANTS
    Past    \* the conversation that exists when the page is opened

VARIABLES scene

allVars == <<scene, pageVars, uploadVars, chatVars>>

MCFolderOf == [f \in Files |-> CHOOSE k \in Folders : TRUE]
MCFileSize == [u \in Uploads |-> IF u \in InFolder THEN 3 ELSE 2]

Scenes == {"files", "uploads", "chat", "menu"}

Init ==
    /\ scene \in Scenes
    /\ PageInit
    /\ scene # "files" => selected \in Folders /\ \A f \in Files : server[f] = "none"
    /\ UploadsInit
    /\ ChatInit
    /\ Existing = {Past}

Next ==
    \/ scene = "files" /\ PageNext /\ UNCHANGED <<scene, uploadVars, chatVars>>
    \/ scene = "uploads" /\ UploadsNext /\ UNCHANGED <<scene, pageVars, chatVars>>
    \/ /\ scene = "chat" /\ UNCHANGED removing
       /\ ChatNext
       /\ turn'[MaxTurns] # turn[MaxTurns] => \A c \in Existing : rows'[c] # rows[c] + 1
       /\ UNCHANGED <<scene, pageVars, uploadVars>>
    \/ /\ scene = "menu"
       /\ ChatNext /\ turn'[MaxTurns].step = "new"
       /\ UNCHANGED <<scene, pageVars, uploadVars>>

Spec == Init /\ [][Next]_allVars
=============================================================================
