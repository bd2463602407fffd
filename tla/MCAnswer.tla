------------------------------ MODULE MCAnswer -------------------------------
(***************************************************************************)
(* Two chunks reach the prompt out of three candidates out of five chunks; *)
(* quotes are of both.  A folder with a subfolder, a third whose path only *)
(* begins alike, and another user's file.                                  *)
(* The model answers in one or two lines of one or two sentences, each     *)
(* with no citation, one in range, one of two chunks, one out of range at  *)
(* either end.                                                             *)
(* And the vector store that is searched: as the two share no state, each  *)
(* behaviour is of one of them (`scene') and the state space is their sum. *)
(***************************************************************************)
EXTENDS Retrieval, VectorStore

CONSTANTS c1, c2, c3, c4, c5, notes, draft, minutes, alien, work, plans, workshop, gone

LinesOf(sentences) == [units : BoundedSeq(sentences, 2) \ {<<>>}, stop : BOOLEAN]

AnswerLines == LinesOf({{}, {1}, {2}, {1, 2}, {0}, {3}})
SecondLines == {l \in LinesOf({{}, {2}}) : Len(l.units) = 1}

Answers ==
    {<<>>} \cup {<<l>> : l \in AnswerLines}
           \cup {<<l, m>> : l \in AnswerLines, m \in SecondLines}

(* A chunk may itself hold something like [3]. *)
ChunkLines == {[units |-> <<>>, stop |-> FALSE]} \cup
              {[units |-> u, stop |-> s] : u \in {<<{}>>, <<{}, {}>>, <<{3}>>}, s \in BOOLEAN}

OwnFiles == {notes, draft, minutes}
ChunkFiles == c1 :> notes @@ c2 :> notes @@ c3 :> draft @@ c4 :> minutes @@ c5 :> alien
FileFolders == notes :> work @@ draft :> plans @@ minutes :> workshop @@ alien :> gone
Subtrees == work :> {work, plans} @@ plans :> {plans} @@ workshop :> {workshop} @@ gone :> {}
Namesakes == work :> {workshop} @@ plans :> {} @@ workshop :> {} @@ gone :> {}

Questions ==
    {[type |-> "global", ids |-> <<>>], [type |-> "file", ids |-> <<notes, alien>>]}
        \cup {[type |-> "folder", ids |-> i] : i \in {<<>>, <<work>>, <<plans>>, <<gone>>}}

Symmetry == Permutations({c1, c2})

-----------------------------------------------------------------------------
VARIABLES scene

MCInit ==
    /\ RetrievalInit /\ VectorInit
    /\ \/ scene = "question" /\ environment = "production" /\ installed /\ collection
       \/ scene = "store" /\ request.type = "global" /\ plan = NoPlan /\ ~hybrid

MCNext ==
    \/ scene = "question" /\ RetrievalNext /\ UNCHANGED <<scene, vectorVars>>
    \/ scene = "store" /\ VectorNext /\ UNCHANGED <<scene, allVars>>

MCSpec == MCInit /\ [][MCNext]_<<scene, vectorVars, allVars>>
==============================================================================
