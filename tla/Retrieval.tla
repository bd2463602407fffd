------------------------------ MODULE Retrieval ------------------------------
(***************************************************************************)
(* The search of AnswerFlow in detail: RAGRetriever from the scope of the  *)
(* question to the candidates, one step per call of Qdrant or PostgreSQL.  *)
(*                                                                         *)
(* A ranked list is a sequence of distinct chunks; which chunks a search   *)
(* finds, and in which order, is up to the embeddings and to BM25.  What   *)
(* the code does with the ranks is exact: the reciprocal 1/(RRF_K + rank)  *)
(* is kept as a multiple of 1/Scale.  The scores that decide between equal *)
(* sums, a cosine here and a BM25 score there, are left out: such          *)
(* candidates stand in any order.                                          *)
(***************************************************************************)
EXTENDS AnswerFlow, FiniteSetsExt

CONSTANTS
    Files, Folders,
    Own,            \* the files of the user who asks
    FileOf,         \* chunk -> file_id
    FolderOf,       \* file -> folder_id
    Within,         \* folder -> the folders of its subtree, none if it is gone
    Likewise,       \* folder -> others whose path begins like its own
    Requests,       \* scope_type and scope_ids of a question
    MaxVariants,    \* variants[:3]
    VectorTopK, KeywordTopK, MaxFusion, Scale

RRF_K == 60

ASSUME RanksAssumption ==
    /\ VectorTopK \in Nat /\ KeywordTopK \in Nat /\ Scale \in Nat \ {0}
    /\ \A k \in 1..VectorTopK \cup 1..KeywordTopK : Scale % (RRF_K + k) = 0
ASSUME FusionAssumption == MaxFusion \in Nat
ASSUME ScopesAssumption ==
    /\ Own \subseteq Files
    /\ FileOf \in [Chunks -> Files]
    /\ \A f \in Folders : Within[f] \subseteq Folders /\ Likewise[f] \subseteq Folders

VARIABLES
    request,    \* what is asked for, kept in AgentState
    plan,       \* QueryPlan: how many variants, and whether there are keywords
    scope,      \* file_ids
    lists       \* the hits of the variants, then those of the keywords

retrieval == <<request, plan, scope, lists>>
allVars == <<vars, retrieval>>

-----------------------------------------------------------------------------
(* query.py and the scope.                                                 *)

(* The question as it is, its keywords when they read differently, and the *)
(* intent unless it is spelled out.  A question of white space or of       *)
(* fillers has no variant, one of signs no keywords.                       *)
QueryPlans ==
    {[variants |-> 0, keywords |-> FALSE], [variants |-> 2, keywords |-> FALSE]}
        \cup [variants : 1..MaxVariants, keywords : {TRUE}]

NoPlan == [variants |-> 0, keywords |-> FALSE]

(* None, which stands for no filter; [] filters all. *)
Everywhere == Files

LikePath(folder) == Within[folder] \cup Likewise[folder]

\* Mutant: a folder scope without a folder is no filter.
ResolveUnlessEmpty(r) ==
    IF r.type = "file" THEN Range(r.ids)
    ELSE IF r.type = "folder" /\ r.ids # <<>>
         THEN {f \in Own : FolderOf[f] \in LikePath(r.ids[1])}
    ELSE Everywhere

(* The files of a folder are those of every folder LIKE 'path%'. *)
Resolve(r) ==
    IF r.type = "file" THEN Range(r.ids)
    ELSE IF r.type = "folder"
         THEN {f \in Own : r.ids # <<>> /\ FolderOf[f] \in LikePath(r.ids[1])}
    ELSE Everywhere

RetrievalInit ==
    /\ Init
    /\ request \in Requests
    /\ plan \in QueryPlans
    /\ scope = {}
    /\ lists = <<>>

(* Nothing is in scope: nothing is searched. *)
ResolveScope ==
    /\ stage = "asked" /\ scope = {}
    /\ scope' = Resolve(request)
    /\ stage' = IF scope' = {} THEN "found" ELSE "asked"
    /\ UNCHANGED <<hybrid, chunks, number, generated, outcome, request, plan, lists>>

-----------------------------------------------------------------------------
(* The searches.                                                           *)

(* Both filter by user and file. *)
Searchable == {c \in Chunks : FileOf[c] \in Own \cap scope}

RankedLists(found, limit) ==
    {s \in HitLists : Len(s) <= limit /\ Range(s) \subseteq found}

Vectors == IF hybrid THEN plan.variants ELSE 1
AllSearched == Len(lists) = Vectors + (IF hybrid /\ plan.keywords THEN 1 ELSE 0)

VectorSearch ==
    /\ stage = "asked" /\ scope # {} /\ Len(lists) < Vectors
    /\ \E hits \in RankedLists(Searchable, IF hybrid THEN VectorTopK ELSE ContextLimit) :
          lists' = Append(lists, hits)
    /\ UNCHANGED <<vars, request, plan, scope>>

(* Rows that hold a keyword, best BM25 score first. *)
KeywordSearch ==
    /\ stage = "asked" /\ scope # {} /\ Len(lists) = Vectors
    /\ hybrid /\ plan.keywords
    /\ \E hits \in RankedLists(Searchable, KeywordTopK) : lists' = Append(lists, hits)
    /\ UNCHANGED <<vars, request, plan, scope>>

-----------------------------------------------------------------------------
(* Fusion.                                                                 *)

Found == UNION {Range(lists[i]) : i \in DOMAIN lists}
Place(c, list) == CHOOSE i \in DOMAIN list : list[i] = c
FoundIn(c) == {i \in DOMAIN lists : c \in Range(lists[i])}
Share(c, i) == Scale \div (RRF_K + Place(c, lists[i]))

\* Mutant: the sum is overwritten, not added to.
RRFOfLastList(c) == Share(c, Max(FoundIn(c)))

Total(shares) ==
    LET sum[n \in 0..Len(shares)] == IF n = 0 THEN 0 ELSE sum[n - 1] + shares[n]
    IN  sum[Len(shares)]

(* rrf_score: each list adds its share. *)
RRF(c) == Total([i \in DOMAIN lists |-> IF i \in FoundIn(c) THEN Share(c, i) ELSE 0])

(* The candidates, greatest sum first.  A single vector search is left in  *)
(* its own order.                                                          *)
Rankings ==
    {s \in HitLists : /\ Range(s) = Found
                      /\ \A i, j \in DOMAIN s : i < j => RRF(s[i]) >= RRF(s[j])}

\* Mutant: the hits are strung together, not merged by chunk.
FuseAppended ==
    /\ stage = "asked" /\ scope # {} /\ AllSearched
    /\ chunks' = FirstOf(IF hybrid THEN MaxFusion ELSE ContextLimit, FlattenSeq(lists))
    /\ stage' = "found"
    /\ UNCHANGED <<hybrid, number, generated, outcome, retrieval>>

Fuse ==
    /\ stage = "asked" /\ scope # {} /\ AllSearched
    /\ \E ranking \in Rankings :
          chunks' = FirstOf(IF hybrid THEN MaxFusion ELSE ContextLimit, ranking)
    /\ stage' = "found"
    /\ UNCHANGED <<hybrid, number, generated, outcome, retrieval>>

(* The query plan, the scope and the hits are not read after this. *)
HydrateFound ==
    /\ \E places \in Subsequences(Len(chunks)) : Hydrate(places)
    /\ plan' = NoPlan /\ scope' = {} /\ lists' = <<>>
    /\ UNCHANGED request

RetrievalNext ==
    \/ ResolveScope \/ VectorSearch \/ KeywordSearch \/ Fuse \/ HydrateFound
    \/ (Rerank \/ Generate \/ Validate \/ Fail) /\ UNCHANGED retrieval

RetrievalSpec == RetrievalInit /\ [][RetrievalNext]_allVars

-----------------------------------------------------------------------------
(* Properties.                                                             *)

(* The searches, the fusion and its cut are one Search of AnswerFlow:      *)
(* distinct chunks, handed over once, before any is hydrated.              *)
ImplementsAnswerFlow == Spec

(* rag-design.md 4: whatever was searched, and in whichever order the      *)
(* rows vanished since, a cited chunk is of the user's own and of the      *)
(* files or the folder asked about.  Folders that merely begin alike are   *)
(* searched too; where there are none, it is of the subtree.               *)
CitedIsInScope ==
    stage = "answered" =>
        \A i \in DOMAIN citations :
            LET file == FileOf[citations[i].chunk]
            IN  /\ file \in Own
                /\ request.type = "file" => file \in Range(request.ids)
                /\ request.type = "folder" =>
                       /\ request.ids # <<>>
                       /\ Likewise[request.ids[1]] = {} => FolderOf[file] \in Within[request.ids[1]]

(* A chunk that stands behind another in no list, and before it in one, is *)
(* before it among the candidates, and is not cut while the other stays.   *)
BetterPlacedComesFirst ==
    stage = "found" /\ hybrid =>
        \A a, b \in Found :
            LET Before(l) == a \in Range(l) /\ (b \in Range(l) => Place(a, l) < Place(b, l))
            IN  /\ \A i \in DOMAIN lists : Before(lists[i]) \/ b \notin Range(lists[i])
                /\ \E i \in DOMAIN lists : Before(lists[i])
                /\ b \in Range(chunks)
                => a \in Range(chunks) /\ Place(a, chunks) < Place(b, chunks)
=============================================================================
