----------------------------- MODULE AnswerFlow ------------------------------
(***************************************************************************)
(* One question through QAAgentWorkflow: retrieve, generate, validate.     *)
(*                                                                         *)
(* Of a text only the citations count.  An answer is a sequence of lines;  *)
(* a line is the sequence of its units (the pieces _split_units cuts it    *)
(* into, where white space follows one of 。！？.!?), each the set of the  *)
(* numbers n it cites as [n], and says whether it ends in such a stop.     *)
(* Blank lines are left out: NOT_FOUND_ANSWER and a blank answer, which    *)
(* every node treats alike, are <<>>.                                      *)
(*                                                                         *)
(* Scores, ranks and metadata are reduced to the order of the chunks; the  *)
(* text of the prompt, with the neighbours of each chunk, is left out.     *)
(***************************************************************************)
EXTENDS SequencesExt

CONSTANTS
    Chunks,         \* rows of file_chunks, or what is left of them in Qdrant
    ContextLimit,   \* _context_limit, top_k
    Extracted,      \* _extractive_answer takes so many chunks
    LLMAnswers,     \* what the model may answer
    Contents        \* what a chunk may hold, as one line; no units: blank

Lines == [units : Seq(SUBSET Nat), stop : BOOLEAN]
Texts == Seq(Lines)

ASSUME ChunksAssumption == IsFiniteSet(Chunks)
ASSUME LimitsAssumption == ContextLimit \in Nat \ {0} /\ Extracted \in Nat
ASSUME TextsAssumption == LLMAnswers \subseteq Texts /\ Contents \subseteq Lines

VARIABLES
    hybrid,     \* settings.RAG_HYBRID_SEARCH
    stage,      \* what has been done so far
    chunks,     \* the chunks found, then those hydrated, then those selected
    number,     \* chunk -> RetrievedChunk.index, 0 before it has one
    generated,  \* generated_answer
    answer, citations, status   \* what `validate' returns

vars == <<hybrid, stage, chunks, number, generated, answer, citations, status>>
outcome == <<answer, citations, status>>

Stages == {"asked", "found", "hydrated", "retrieved", "generated", "answered", "failed"}
Statuses == {"unknown", "valid", "repaired", "degraded"}
NotFound == <<>>

-----------------------------------------------------------------------------
(* services/citation_validator.py.                                         *)

Cited(line) == UNION Range(line.units)
Units(text) == UNION {Range(text[i].units) : i \in DOMAIN text}

(* f"{line} [{n}]": after a stop, the citation is a unit of its own.       *)
Cite(line, n) ==
    [units |-> IF line.stop THEN Append(line.units, {n})
               ELSE [line.units EXCEPT ![Len(line.units)] = @ \cup {n}],
     stop |-> FALSE]

\* Mutant: [0] passes for a citation.
ValidFromZero(text, max) ==
    text # NotFound /\ \A u \in Units(text) : u # {} /\ u \subseteq 0..max

Valid(text, max) ==
    text # NotFound /\ \A u \in Units(text) : u # {} /\ u \subseteq 1..max

\* Mutant: the last line is missed.
RepairButLast(text) ==
    [i \in DOMAIN text |-> IF Cited(text[i]) = {} /\ i < Len(text) THEN Cite(text[i], 1)
                           ELSE text[i]]

(* Only a line that cites nothing at all is given [1]. *)
Repair(text) ==
    [i \in DOMAIN text |-> IF Cited(text[i]) = {} THEN Cite(text[i], 1) ELSE text[i]]

-----------------------------------------------------------------------------
(* RAGRetriever.                                                           *)

FirstOf(n, s) == SubSeq(s, 1, IF n < Len(s) THEN n ELSE Len(s))

(* The places 1..n in order, any of them left out. *)
Subsequences(n) ==
    {s \in SeqOf(1..n, n) : \A i, j \in DOMAIN s : i < j => s[i] < s[j]}

(* Where each chunk of s stands; a chunk that stands twice is one object,  *)
(* numbered twice, and keeps the later number.                             *)
Numbering(s) ==
    [c \in Chunks |-> IF c \in Range(s) THEN CHOOSE i \in DOMAIN s :
                          s[i] = c /\ \A j \in DOMAIN s : s[j] = c => j <= i
                      ELSE 0]

Init ==
    /\ hybrid \in BOOLEAN
    /\ stage = "asked"
    /\ chunks = <<>>
    /\ number = [c \in Chunks |-> 0]
    /\ generated = NotFound
    /\ answer = NotFound /\ citations = <<>> /\ status = "unknown"

(* Distinct chunks, in some order. *)
HitLists == SetToAllKPermutations(Chunks)

(* Vector hits alone, or fused with the BM25 hits: distinct chunks, in any *)
(* order.  No hit, or no file in scope: nothing.                           *)
Search(hits) ==
    /\ stage = "asked"
    /\ chunks' = IF hybrid THEN hits ELSE FirstOf(ContextLimit, hits)
    /\ stage' = "found"
    /\ UNCHANGED <<hybrid, number, generated, outcome>>

(* A point whose row is gone is dropped; the others, at these places of    *)
(* `chunks', are numbered.                                                 *)
Hydrate(places) ==
    /\ stage = "found"
    /\ chunks' = [i \in DOMAIN places |-> chunks[places[i]]]
    /\ number' = Numbering(chunks')
    /\ stage' = IF hybrid THEN "hydrated" ELSE "retrieved"
    /\ UNCHANGED <<hybrid, generated, outcome>>

\* Mutant: the limit is tested before the append.
SelectOneMore(results) ==
    /\ stage = "hydrated"
    /\ chunks' = FirstOf(ContextLimit + 1, [i \in DOMAIN results |-> chunks[results[i]]])
    /\ number' = Numbering(chunks')
    /\ stage' = "retrieved"
    /\ UNCHANGED <<hybrid, generated, outcome>>

\* Mutant: no _renumber.
SelectNotRenumbered(results) ==
    /\ stage = "hydrated"
    /\ chunks' = FirstOf(ContextLimit, [i \in DOMAIN results |-> chunks[results[i]]])
    /\ stage' = "retrieved"
    /\ UNCHANGED <<hybrid, number, generated, outcome>>

(* results: the places in `chunks' of the documents that the provider      *)
(* ranked above the threshold, in its order.                               *)
Select(results) ==
    /\ stage = "hydrated"
    /\ chunks' = FirstOf(ContextLimit, [i \in DOMAIN results |-> chunks[results[i]]])
    /\ number' = Numbering(chunks')
    /\ stage' = "retrieved"
    /\ UNCHANGED <<hybrid, generated, outcome>>

(* The provider may rank few of the documents, or one twice; no threshold  *)
(* and the order of fusion when it fails or ranks none.                    *)
Rerank ==
    \/ \E results \in SeqOf(1..Len(chunks), Len(chunks)) : Select(results)
    \/ Select([i \in DOMAIN chunks |-> i])

-----------------------------------------------------------------------------
(* RAGGenerator.generate.                                                  *)

(* The first chunks, without the blank ones, one line each. *)
Extract ==
    LET first == FirstOf(Extracted, chunks)
    IN  \E content \in [Range(chunks) -> Contents], quoted \in Subsequences(Len(first)) :
            /\ Range(quoted) = {i \in DOMAIN first : content[first[i]].units # <<>>}
            /\ generated' = [i \in DOMAIN quoted |->
                                Cite(content[first[quoted[i]]], number[first[quoted[i]]])]

(* The model answers; or there is no key, or it fails, and the chunks are  *)
(* quoted.                                                                 *)
Generate ==
    /\ stage = "retrieved"
    /\ \/ chunks = <<>> /\ generated' = NotFound
       \/ chunks # <<>> /\ generated' \in LLMAnswers
       \/ chunks # <<>> /\ Extract
    /\ stage' = "generated"
    /\ UNCHANGED <<hybrid, chunks, number, outcome>>

-----------------------------------------------------------------------------
(* QAAgentWorkflow._validate, with _build_citations.                       *)

Sources == [i \in DOMAIN chunks |-> [index |-> number[chunks[i]], chunk |-> chunks[i]]]

Accept(text, verdict) ==
    answer' = text /\ citations' = Sources /\ status' = verdict

Degrade ==
    answer' = NotFound /\ citations' = <<>> /\ status' = "degraded"

Validate ==
    /\ stage = "generated"
    /\ LET max == Len(Sources)
           repaired == Repair(generated)
       IN  IF generated = NotFound \/ max < 1 THEN Degrade
           ELSE IF Valid(generated, max) THEN Accept(generated, "valid")
           ELSE IF Valid(repaired, max) THEN Accept(repaired, "repaired")
           ELSE Degrade
    /\ stage' = "answered"
    /\ UNCHANGED <<hybrid, chunks, number, generated>>

(* The database, Qdrant or the embeddings fail: the question is answered   *)
(* 500.                                                                    *)
Fail ==
    /\ stage \in {"asked", "found", "hydrated"}
    /\ stage' = "failed"
    /\ UNCHANGED <<hybrid, chunks, number, generated, outcome>>

Next ==
    \/ \E hits \in HitLists : Search(hits)
    \/ \E places \in Subsequences(Len(chunks)) : Hydrate(places)
    \/ Rerank \/ Generate \/ Validate \/ Fail

Spec == Init /\ [][Next]_vars

-----------------------------------------------------------------------------
(* Properties.                                                             *)

TypeOK ==
    /\ hybrid \in BOOLEAN
    /\ stage \in Stages
    /\ chunks \in Seq(Chunks)
    /\ stage \in {"retrieved", "generated", "answered"} => Len(chunks) <= ContextLimit
    /\ number \in [Chunks -> Nat]
    /\ generated \in Texts
    /\ answer \in Texts
    /\ citations \in Seq([index : Nat, chunk : Chunks])
    /\ status \in Statuses

(* docs/backend/rag-design.md 8.1: whatever the model says and however     *)
(* little was found, an answer is NOT_FOUND without citations, or each of  *)
(* its sentences cites something, and nothing beyond the last citation.    *)
AnswerIsCited ==
    stage = "answered" =>
        \/ answer = NotFound /\ citations = <<>>
        \/ /\ answer # NotFound
           /\ \A u \in Units(answer) : u # {} /\ u \subseteq 1..Len(citations)

(* And each [n] of the answer leads to exactly one citation, that of the   *)
(* chunk the prompt had under n; through the search, the rows dropped, the *)
(* reranking and the limit.  Unless the provider ranked a document twice.  *)
CitationsResolve ==
    stage = "answered" /\ IsInjective(chunks) =>
        \A u \in Units(answer) : \A n \in u :
            \E i \in DOMAIN citations :
                /\ citations[i].chunk = chunks[n]
                /\ \A j \in DOMAIN citations : citations[j].index = n <=> j = i

(* What repair cannot mend: a line that cites in some sentence and not in  *)
(* another, and a line without citation that ends in a stop or has two     *)
(* sentences.                                                              *)
Mendable(line) ==
    \/ {} \notin Range(line.units)
    \/ Len(line.units) = 1 /\ ~line.stop

(* No answer is thrown away without a reason: something was found and      *)
(* said, no citation is out of range, each line is complete or mendable;   *)
(* then it is emitted, line for line.                                      *)
DegradedForAReason ==
    stage = "answered" /\ status = "degraded" =>
        \/ chunks = <<>> \/ generated = NotFound
        \/ \E u \in Units(generated) : ~ u \subseteq 1..Len(chunks)
        \/ \E i \in DOMAIN generated : ~Mendable(generated[i])
=============================================================================
