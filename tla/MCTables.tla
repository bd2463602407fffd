------------------------------ MODULE MCTables ------------------------------
(***************************************************************************)
(* Two groups of tables that concurrent requests write: the codes and      *)
(* users of EmailVerification, the folders of FolderTree.  They share no   *)
(* state, so that each behaviour is of one of them (`scene').              *)
(*                                                                         *)
(* "codes": two sends and two registrations at a time, four rows.  With a  *)
(* limit of two codes in two ticks and one tick between codes both limits  *)
(* bite, a code can expire before and after its successor exists, and two  *)
(* registrations may hold the same code or different ones.                 *)
(*                                                                         *)
(* "folders": three folders, one file and two deletes.  A chain of three,  *)
(* a delete of its top against one of its middle, twins of one name, and a *)
(* folder named "a/b" that shares its path with b inside a.                *)
(***************************************************************************)
EXTENDS EmailVerification, FolderTree

CONSTANTS Scenes

VARIABLES scene

PathNames == {<<"a">>, <<"b">>, <<"a", "b">>}
OneName == {<<"a">>}

Init == scene \in Scenes /\ EmailInit /\ TreeInit

(* Rows are numbered as they are inserted, which saves their permutations. *)
InOrder == \A c \in Codes : created[c] = -1 => \A d \in Codes : d > c => created'[d] = -1

Next ==
    \/ scene = "codes" /\ EmailNext /\ InOrder /\ UNCHANGED <<scene, treeVars>>
    \/ scene = "folders" /\ TreeNext /\ UNCHANGED <<scene, emailVars>>

Spec == Init /\ [][Next]_<<scene, emailVars, treeVars>>

Symmetry ==
    Permutations(Senders) \cup Permutations(Registrants) \cup Permutations(Folders)

(* `tries' serves AttemptsAreLimited alone. *)
View == <<scene, clock, rows, sending, stage, tx, treeVars>>
=============================================================================
