-------------------------- MODULE RetrievalProofs ---------------------------
(***************************************************************************)
(* Question answering, for every model, provider, search result, number of *)
(* chunks and limit.  First AnswerFlow: the numbers of the chunks, what    *)
(* leaves the validator, and why it degrades an answer.  Then Retrieval:   *)
(* its search implements that of AnswerFlow, stays in its scope and keeps  *)
(* the order of the lists in their fusion.  And the vector store: it       *)
(* implements PointStore, for any files and calls.                         *)
(***************************************************************************)
EXTENDS Retrieval, VectorStore, FiniteSetTheorems, WellFoundedInduction, TLAPS

(* The order of the natural numbers is well founded. *)
LEMMA HasLeast ==
  ASSUME NEW T \in SUBSET Nat, T # {}
  PROVE  \E x \in T : \A y \in T : x <= y
<1>1. PICK R : R = OpToRel(<, Nat)
  OBVIOUS
<1>2. IsWellFoundedOn(R, Nat)
  BY <1>1, NatLessThanWellFounded
<1>3. \A x, y \in Nat : y < x => <<y, x>> \in R
  BY <1>1 DEF OpToRel
<1>4. PICK x \in T : \A y \in T : ~(<<y, x>> \in R)
  BY <1>2, WFMin
<1>5. \A y \in T : ~(y < x)
  BY <1>3, <1>4
<1>6. QED
  BY <1>4, <1>5

(* A chunk of s has a last place in s. *)
LEMMA HasLastPlace ==
  ASSUME NEW s \in Seq(Chunks), NEW c \in Range(s)
  PROVE  \E i \in DOMAIN s : s[i] = c /\ \A j \in DOMAIN s : s[j] = c => j <= i
<1> DEFINE T == {Len(s) - i : i \in {j \in 1..Len(s) : s[j] = c}}
<1>1. T \in SUBSET Nat /\ T # {}
  BY DEF Range
<1>2. PICK x \in T : \A y \in T : x <= y
  <2> HIDE DEF T
  <2> QED
    BY <1>1, HasLeast
<1>3. PICK i \in 1..Len(s) : s[i] = c /\ x = Len(s) - i
  BY <1>2
<1>4. ASSUME NEW j \in DOMAIN s, s[j] = c
      PROVE  j <= i
  <2>1. j \in 1..Len(s) /\ Len(s) \in Nat
    OBVIOUS
  <2>2. Len(s) - j \in T
    BY <1>4, <2>1
  <2>3. Len(s) - i <= Len(s) - j
    BY <1>2, <1>3, <2>2
  <2>4. QED
    BY <1>3, <2>1, <2>3
<1>5. QED
  BY <1>3, <1>4

LEMMA NumberingType ==
  ASSUME NEW s \in Seq(Chunks)
  PROVE  Numbering(s) \in [Chunks -> Nat]
<1>1. ASSUME NEW c \in Chunks
      PROVE  Numbering(s)[c] \in Nat
  <2>1. CASE c \in Range(s)
    <3>1. Numbering(s)[c] \in DOMAIN s
      BY <2>1, HasLastPlace DEF Numbering
    <3>2. QED
      BY <3>1
  <2>2. CASE c \notin Range(s)
    BY <2>2 DEF Numbering
  <2>3. QED
    BY <2>1, <2>2
<1>2. QED
  BY <1>1 DEF Numbering

(* Where no chunk stands twice, each has the number of its place. *)
LEMMA NumberIsPlace ==
  ASSUME NEW s \in Seq(Chunks), IsInjective(s), NEW i \in DOMAIN s
  PROVE  Numbering(s)[s[i]] = i
<1>1. s[i] \in Range(s) /\ s[i] \in Chunks
  BY DEF Range
<1>2. \A j \in DOMAIN s : s[j] = s[i] => j = i
  BY DEF IsInjective
<1>3. QED
  BY <1>1, <1>2 DEF Numbering

LEMMA IsSequence ==
  ASSUME NEW S, NEW m \in Nat, NEW s \in [1..m -> S]
  PROVE  s \in Seq(S)
  OBVIOUS

LEMMA FirstOfType ==
  ASSUME NEW S, NEW s \in Seq(S), NEW n \in Nat
  PROVE  /\ FirstOf(n, s) \in Seq(S)
         /\ Len(FirstOf(n, s)) <= n /\ Len(FirstOf(n, s)) <= Len(s)
  BY DEF FirstOf

(* What is left of a sequence at some of its places, in any order. *)
LEMMA PlacesType ==
  ASSUME NEW S, NEW s \in Seq(S), NEW n \in Nat, NEW p \in SeqOf(1..Len(s), n)
  PROVE  /\ [i \in DOMAIN p |-> s[p[i]]] \in Seq(S)
         /\ Len([i \in DOMAIN p |-> s[p[i]]]) <= n
<1>1. PICK m \in 0..n : p \in [1..m -> 1..Len(s)]
  BY DEF SeqOf
<1>2. [i \in DOMAIN p |-> s[p[i]]] \in [1..m -> S]
  BY <1>1
<1>3. QED
  BY <1>1, <1>2

LEMMA HitListType ==
  ASSUME NEW s \in HitLists
  PROVE  s \in Seq(Chunks)
<1>1. PICK T \in SUBSET Chunks : s \in SetToSeqs(T)
  BY DEF HitLists, SetToAllKPermutations
<1>2. Cardinality(T) \in Nat
  BY FS_Subset, FS_CardinalityType, ChunksAssumption
<1>3. s \in [1..Cardinality(T) -> T]
  BY <1>1 DEF SetToSeqs
<1>4. QED
  BY <1>2, <1>3

(* One line more is cited, and stays a line. *)
LEMMA CiteType ==
  ASSUME NEW line \in Lines, NEW n \in Nat
  PROVE  Cite(line, n) \in Lines
<1>1. line.units \in Seq(SUBSET Nat)
  BY DEF Lines
<1>2. Append(line.units, {n}) \in Seq(SUBSET Nat)
  BY <1>1
<1>3. [line.units EXCEPT ![Len(line.units)] = @ \cup {n}] \in Seq(SUBSET Nat)
  <2> DEFINE u == line.units
             v == [u EXCEPT ![Len(u)] = u[Len(u)] \cup {n}]
  <2>1. u \in [1..Len(u) -> SUBSET Nat] /\ Len(u) \in Nat
    BY <1>1
  <2>2. v \in [1..Len(u) -> SUBSET Nat]
    <3>1. ASSUME NEW i \in 1..Len(u)
          PROVE  v[i] \in SUBSET Nat
      <4>1. u[i] \in SUBSET Nat
        BY <2>1
      <4> HIDE DEF u
      <4>2. CASE i = Len(u)
        BY <2>1, <4>1, <4>2
      <4>3. CASE i # Len(u)
        <5>1. v[i] = u[i]
          BY <2>1, <4>3, Zenon
        <5>2. QED
          BY <4>1, <5>1, Zenon
      <4>4. QED
        BY <4>2, <4>3
    <3>2. QED
      BY <2>1, <3>1
  <2>3. QED
    BY <2>1, <2>2
<1>4. QED
  BY <1>2, <1>3 DEF Cite, Lines

LEMMA RepairType ==
  ASSUME NEW text \in Texts
  PROVE  Repair(text) \in Texts
<1>1. ASSUME NEW i \in DOMAIN text
      PROVE  Repair(text)[i] \in Lines
  <2>1. text[i] \in Lines
    BY DEF Texts
  <2>2. Cite(text[i], 1) \in Lines
    BY <2>1, CiteType
  <2>3. QED
    BY <2>1, <2>2 DEF Repair
<1>2. Repair(text) \in [1..Len(text) -> Lines]
  BY <1>1 DEF Repair, Texts
<1>3. QED
  BY <1>2 DEF Texts

-----------------------------------------------------------------------------
(* Validation.                                                             *)

(* Before `validate' has returned, nothing is claimed. *)
LEMMA NotAnswered == (stage' # "answered") => AnswerIsCited'
  BY DEF AnswerIsCited

(* What `validate' accepts has passed Valid with the citations it returns. *)
LEMMA AcceptedIsCited ==
  ASSUME NEW text, NEW verdict, Valid(text, Len(Sources)), Accept(text, verdict)
  PROVE  AnswerIsCited'
  BY DEF Valid, Accept, AnswerIsCited, Units

(* What it does not accept becomes NOT_FOUND, without citations. *)
LEMMA DegradedIsCited == Degrade => AnswerIsCited'
  BY DEF Degrade, AnswerIsCited

(* Every way through Validate. *)
LEMMA ValidateKeepsCited == Validate => AnswerIsCited'
<1> SUFFICES ASSUME Validate PROVE AnswerIsCited'
  OBVIOUS
<1> DEFINE max == Len(Sources)
           repaired == Repair(generated)
<1>1. CASE generated = NotFound \/ max < 1
  <2>1. Degrade
    BY <1>1 DEF Validate
  <2>2. QED
    BY <2>1, DegradedIsCited
<1>2. CASE ~(generated = NotFound \/ max < 1) /\ Valid(generated, max)
  <2>1. Accept(generated, "valid")
    BY <1>2 DEF Validate
  <2>2. QED
    BY <1>2, <2>1, AcceptedIsCited
<1>3. CASE /\ ~(generated = NotFound \/ max < 1)
           /\ ~Valid(generated, max) /\ Valid(repaired, max)
  <2>1. Accept(repaired, "repaired")
    BY <1>3 DEF Validate
  <2>2. QED
    BY <1>3, <2>1, AcceptedIsCited
<1>4. CASE /\ ~(generated = NotFound \/ max < 1)
           /\ ~Valid(generated, max) /\ ~Valid(repaired, max)
  <2>1. Degrade
    BY <1>4 DEF Validate
  <2>2. QED
    BY <2>1, DegradedIsCited
<1>5. QED
  BY <1>1, <1>2, <1>3, <1>4

(* What is accepted has the citations of the chunks, and cites no other.  *)
Resolved ==
    stage = "answered" =>
        \/ answer = NotFound
        \/ /\ citations = Sources
           /\ \A u \in Units(answer) : u \subseteq 1..Len(chunks)

LEMMA SourcesLength == TypeOK => Len(Sources) = Len(chunks)
  BY DEF TypeOK, Sources

LEMMA ValidateResolves == TypeOK /\ Validate => Resolved'
<1> SUFFICES ASSUME TypeOK, Validate PROVE Resolved'
  OBVIOUS
<1>1. Sources' = Sources /\ UNCHANGED chunks
  BY DEF Validate, Sources
<1>2. ASSUME NEW text, NEW verdict, Accept(text, verdict), Valid(text, Len(Sources))
      PROVE  Resolved'
  <2>1. \A u \in Units(answer') : u \subseteq 1..Len(chunks)
    BY <1>2, SourcesLength DEF Accept, Valid
  <2>2. Units(answer)' = Units(answer')
    BY DEF Units
  <2>3. QED
    BY <1>1, <1>2, <2>1, <2>2 DEF Accept, Resolved
<1>3. Degrade => Resolved'
  BY DEF Degrade, Resolved
<1>4. QED
  BY <1>2, <1>3 DEF Validate

(* A line that is mendable and within range is valid once repaired.        *)
LEMMA MendedIsValid ==
  ASSUME NEW line \in Lines, NEW max \in Nat, max >= 1, Mendable(line),
         \A u \in Range(line.units) : u \subseteq 1..max,
         NEW u \in Range((IF Cited(line) = {} THEN Cite(line, 1) ELSE line).units)
  PROVE  u # {} /\ u \subseteq 1..max
<1>1. line.units \in Seq(SUBSET Nat) /\ line.stop \in BOOLEAN
  BY DEF Lines
<1>2. CASE Cited(line) # {}
  <2>1. {} \notin Range(line.units)
    <3>1. ~(Len(line.units) = 1 /\ {} \in Range(line.units))
      <4> SUFFICES ASSUME Len(line.units) = 1, {} \in Range(line.units) PROVE Cited(line) = {}
        BY <1>2
      <4>1. Range(line.units) = {{}}
        <5>1. DOMAIN line.units = {1}
          BY <1>1
        <5>2. Range(line.units) = {line.units[1]}
          BY <5>1 DEF Range
        <5>3. QED
          BY <5>2
      <4>2. QED
        BY <4>1 DEF Cited
    <3>2. QED
      BY <3>1 DEF Mendable
  <2>2. QED
    BY <1>2, <2>1
<1>3. CASE Cited(line) = {}
  <2>1. \A w \in Range(line.units) : w = {}
    BY <1>3 DEF Cited
  <2>2. CASE line.stop
    <3>1. Range(line.units) = {}
      BY <2>1, <2>2 DEF Mendable
    <3>2. line.units = <<>>
      <4>1. \A i \in DOMAIN line.units : line.units[i] \in Range(line.units)
        BY DEF Range
      <4>2. Len(line.units) \in Nat /\ DOMAIN line.units = 1..Len(line.units)
        BY <1>1
      <4>3. Len(line.units) = 0
        BY <3>1, <4>1, <4>2
      <4>4. QED
        BY <1>1, <4>3
    <3>3. u \in Range(Append(line.units, {1}))
      BY <1>3, <2>2 DEF Cite
    <3>4. u = {1}
      BY <1>1, <3>2, <3>3 DEF Range
    <3>5. QED
      BY <3>4
  <2>3. CASE ~line.stop
    <3> DEFINE v == [line.units EXCEPT ![Len(line.units)] = @ \cup {1}]
    <3>1. u \in Range(v)
      BY <1>3, <2>3 DEF Cite
    <3>2. PICK i \in DOMAIN line.units : u = v[i]
      BY <3>1 DEF Range
    <3>3. Len(line.units) = 1
      <4>1. line.units[i] \in Range(line.units)
        BY <3>2 DEF Range
      <4>2. QED
        BY <2>1, <4>1 DEF Mendable
    <3>4. i = 1 /\ line.units[1] = {}
      <4>1. i = 1
        BY <1>1, <3>3
      <4>2. line.units[i] \in Range(line.units)
        BY <3>2 DEF Range
      <4>3. QED
        BY <2>1, <4>1, <4>2
    <3>5. u = {1}
      BY <3>2, <3>3, <3>4
    <3>6. QED
      BY <3>5
  <2>4. QED
    BY <1>1, <2>2, <2>3
<1>4. QED
  BY <1>2, <1>3

LEMMA ValidateHasAReason == TypeOK /\ Validate => DegradedForAReason'
<1> SUFFICES ASSUME TypeOK, Validate PROVE DegradedForAReason'
  OBVIOUS
<1> SUFFICES ASSUME status' = "degraded", chunks # <<>>, generated # NotFound,
                    \A u \in Units(generated) : u \subseteq 1..Len(chunks),
                    \A i \in DOMAIN generated : Mendable(generated[i])
             PROVE  FALSE
  <2>1. chunks' = chunks /\ generated' = generated
    BY DEF Validate
  <2>2. \A i : Mendable(generated'[i]) = Mendable(generated[i])
    BY <2>1
  <2>3. Units(generated') = Units(generated) /\ DOMAIN generated' = DOMAIN generated
    BY <2>1
  <2>4. QED
    BY <2>1, <2>2, <2>3 DEF DegradedForAReason, Units, NotFound
<1> DEFINE max == Len(Sources)
           repaired == Repair(generated)
<1>1. max = Len(chunks) /\ max \in Nat /\ max >= 1
  BY SourcesLength DEF TypeOK
<1>2. DOMAIN repaired = DOMAIN generated /\ repaired # NotFound
  BY DEF Repair, TypeOK, Texts, NotFound
<1>3. ASSUME NEW u \in Units(repaired)
      PROVE  u # {} /\ u \subseteq 1..max
  <2>1. PICK i \in DOMAIN generated : u \in Range(repaired[i].units)
    BY <1>2 DEF Units
  <2>2. generated[i] \in Lines
    BY DEF TypeOK, Texts
  <2>3. \A w \in Range(generated[i].units) : w \subseteq 1..max
    BY <1>1 DEF Units
  <2>4. repaired[i] = IF Cited(generated[i]) = {} THEN Cite(generated[i], 1) ELSE generated[i]
    BY DEF Repair
  <2> HIDE DEF max, repaired
  <2>5. QED
    BY <1>1, <2>1, <2>2, <2>3, <2>4, MendedIsValid
<1>4. Valid(repaired, max)
  BY <1>2, <1>3 DEF Valid
<1>5. status' # "degraded"
  <2> HIDE DEF repaired
  <2>1. ~(generated = NotFound \/ max < 1)
    BY <1>1
  <2>2. QED
    BY <1>4, <2>1 DEF Validate, Accept, repaired
<1>6. QED
  BY <1>5

-----------------------------------------------------------------------------
(* The invariant.                                                          *)

(* A vector search has its limit from the start. *)
Limited == stage = "found" /\ ~hybrid => Len(chunks) <= ContextLimit

(* From hydration on, the numbers are those of the chunks as they stand.   *)
Numbered ==
    stage \in {"hydrated", "retrieved", "generated", "answered"} => number = Numbering(chunks)

IInv == TypeOK /\ Limited /\ Numbered /\ Resolved /\ AnswerIsCited /\ DegradedForAReason

(* Before the answer, the last three claim nothing. *)
LEMMA NothingClaimed ==
  (stage' # "answered") => Resolved' /\ AnswerIsCited' /\ DegradedForAReason'
  BY DEF Resolved, AnswerIsCited, DegradedForAReason

LEMMA SearchStep ==
  ASSUME IInv, NEW hits \in HitLists, Search(hits)
  PROVE  IInv'
<1>1. hits \in Seq(Chunks)
  BY HitListType
<1>2. chunks' \in Seq(Chunks) /\ (~hybrid' => Len(chunks') <= ContextLimit)
  BY <1>1, FirstOfType, LimitsAssumption DEF Search
<1>3. TypeOK' /\ Limited' /\ Numbered'
  BY <1>2 DEF IInv, TypeOK, Search, Stages, outcome, Limited, Numbered
<1>4. stage' # "answered"
  BY DEF Search
<1>5. QED
  BY <1>3, <1>4, NothingClaimed DEF IInv

LEMMA HydrateStep ==
  ASSUME IInv, NEW places \in Subsequences(Len(chunks)), Hydrate(places)
  PROVE  IInv'
<1>1. places \in SeqOf(1..Len(chunks), Len(chunks)) /\ chunks \in Seq(Chunks)
  BY DEF Subsequences, IInv, TypeOK
<1>2. chunks' \in Seq(Chunks) /\ Len(chunks') <= Len(chunks)
  <2>1. Len(chunks) \in Nat
    BY <1>1
  <2>2. QED
    BY <1>1, <2>1, PlacesType DEF Hydrate
<1>3. Numbering(chunks') \in [Chunks -> Nat]
  BY <1>2, NumberingType
<1>4. stage' = "retrieved" => Len(chunks') <= ContextLimit
  <2>1. stage' = "retrieved" => Len(chunks) <= ContextLimit
    BY DEF Hydrate, IInv, Limited
  <2>2. QED
    BY <1>1, <1>2, <2>1, LimitsAssumption
<1>5. stage' \in {"hydrated", "retrieved"} /\ number' = Numbering(chunks')
  BY DEF Hydrate
<1>6. UNCHANGED <<hybrid, generated, answer, citations, status>>
  BY DEF Hydrate, outcome
<1>7. TypeOK'
  BY <1>2, <1>3, <1>4, <1>5, <1>6 DEF IInv, TypeOK, Stages
<1>8. Limited' /\ Numbered'
  BY <1>5 DEF Limited, Numbered, Numbering
<1>9. QED
  BY <1>5, <1>7, <1>8, NothingClaimed DEF IInv

LEMMA SelectStep ==
  ASSUME IInv, NEW results \in SeqOf(1..Len(chunks), Len(chunks)), Select(results)
  PROVE  IInv'
<1> DEFINE ranked == [i \in DOMAIN results |-> chunks[results[i]]]
<1>1. chunks \in Seq(Chunks) /\ Len(chunks) \in Nat
  BY DEF IInv, TypeOK
<1>2. ranked \in Seq(Chunks)
  BY <1>1, PlacesType
<1>3. chunks' \in Seq(Chunks) /\ Len(chunks') <= ContextLimit
  <2> HIDE DEF ranked
  <2>1. chunks' = FirstOf(ContextLimit, ranked)
    BY DEF Select, ranked
  <2>2. QED
    BY <1>2, <2>1, FirstOfType, LimitsAssumption
<1>4. Numbering(chunks') \in [Chunks -> Nat]
  BY <1>3, NumberingType
<1>5. stage' = "retrieved" /\ number' = Numbering(chunks')
  BY DEF Select
<1>6. UNCHANGED <<hybrid, generated, answer, citations, status>>
  BY DEF Select, outcome
<1>7. TypeOK'
  BY <1>3, <1>4, <1>5, <1>6 DEF IInv, TypeOK, Stages
<1>8. Limited' /\ Numbered'
  BY <1>5 DEF Limited, Numbered, Numbering
<1>9. QED
  BY <1>5, <1>7, <1>8, NothingClaimed DEF IInv

(* The order of fusion is a result of the provider like others. *)
LEMMA InOrderIsAResult ==
  ASSUME NEW s \in Seq(Chunks)
  PROVE  [i \in DOMAIN s |-> i] \in SeqOf(1..Len(s), Len(s))
<1>1. [i \in DOMAIN s |-> i] \in [1..Len(s) -> 1..Len(s)]
  OBVIOUS
<1>2. Len(s) \in 0..Len(s)
  OBVIOUS
<1>3. QED
  BY <1>1, <1>2 DEF SeqOf

LEMMA RerankStep == IInv /\ Rerank => IInv'
<1> SUFFICES ASSUME IInv, Rerank PROVE IInv'
  OBVIOUS
<1>1. chunks \in Seq(Chunks) /\ Len(chunks) \in Nat
  BY DEF IInv, TypeOK
<1>2. PICK results \in SeqOf(1..Len(chunks), Len(chunks)) : Select(results)
  BY <1>1, InOrderIsAResult DEF Rerank
<1>3. QED
  BY <1>2, SelectStep

(* The quotes are lines, whatever the chunks hold. *)
LEMMA ExtractType == IInv /\ Extract => generated' \in Texts
<1> SUFFICES ASSUME IInv, Extract PROVE generated' \in Texts
  OBVIOUS
<1> DEFINE first == FirstOf(Extracted, chunks)
<1>1. first \in Seq(Chunks) /\ Len(first) <= Len(chunks) /\ chunks \in Seq(Chunks)
  BY FirstOfType, LimitsAssumption DEF IInv, TypeOK
<1>2. PICK content \in [Range(chunks) -> Contents], quoted \in Subsequences(Len(first)) :
          generated' = [i \in DOMAIN quoted |->
                          Cite(content[first[quoted[i]]], number[first[quoted[i]]])]
  BY DEF Extract
<1>3. PICK m \in 0..Len(first) : quoted \in [1..m -> 1..Len(first)]
  BY <1>2 DEF Subsequences, SeqOf
<1>4. ASSUME NEW i \in 1..m
      PROVE  generated'[i] \in Lines
  <2>1. quoted[i] \in 1..Len(first)
    BY <1>3
  <2>2. first[quoted[i]] \in Chunks /\ first[quoted[i]] \in Range(chunks)
    <3>1. first[quoted[i]] = chunks[quoted[i]]
      BY <1>1, <2>1 DEF FirstOf, IInv, TypeOK
    <3>2. quoted[i] \in DOMAIN chunks
      BY <1>1, <2>1
    <3>3. QED
      BY <1>1, <3>1, <3>2 DEF Range
  <2>3. content[first[quoted[i]]] \in Lines /\ number[first[quoted[i]]] \in Nat
    BY <1>2, <2>2, TextsAssumption DEF IInv, TypeOK
  <2>4. Cite(content[first[quoted[i]]], number[first[quoted[i]]]) \in Lines
    BY <2>3, CiteType
  <2>5. QED
    BY <1>2, <1>3, <2>4
<1>5. generated' \in [1..m -> Lines]
  BY <1>2, <1>3, <1>4
<1>6. m \in Nat
  BY <1>1
<1>7. QED
  BY <1>5, <1>6 DEF Texts

LEMMA GenerateStep == IInv /\ Generate => IInv'
<1> SUFFICES ASSUME IInv, Generate PROVE IInv'
  OBVIOUS
<1>1. generated' \in Texts
  <2>1. CASE generated' = NotFound
    BY <2>1 DEF NotFound, Texts
  <2>2. CASE generated' \in LLMAnswers
    BY <2>2, TextsAssumption
  <2>3. CASE Extract
    BY <2>3, ExtractType
  <2>4. QED
    BY <2>1, <2>2, <2>3 DEF Generate
<1>2. stage = "retrieved" /\ stage' = "generated"
      /\ UNCHANGED <<hybrid, chunks, number, answer, citations, status>>
  BY DEF Generate, outcome
<1>3. TypeOK'
  BY <1>1, <1>2 DEF IInv, TypeOK, Stages
<1>4. Limited' /\ Numbered'
  BY <1>2 DEF IInv, Limited, Numbered, Numbering
<1>5. QED
  BY <1>2, <1>3, <1>4, NothingClaimed DEF IInv

LEMMA ValidateStep == IInv /\ Validate => IInv'
<1> SUFFICES ASSUME IInv, Validate PROVE IInv'
  OBVIOUS
<1>1. Resolved' /\ AnswerIsCited' /\ DegradedForAReason'
  BY ValidateResolves, ValidateKeepsCited, ValidateHasAReason DEF IInv
<1>2. stage = "generated" /\ stage' = "answered"
      /\ UNCHANGED <<hybrid, chunks, number, generated>>
  BY DEF Validate
<1>3. Sources \in Seq([index : Nat, chunk : Chunks])
  <2>1. chunks \in Seq(Chunks) /\ number \in [Chunks -> Nat]
    BY DEF IInv, TypeOK
  <2>2. ASSUME NEW i \in DOMAIN chunks
        PROVE  Sources[i] \in [index : Nat, chunk : Chunks]
    BY <2>1 DEF Sources
  <2>3. Sources \in [1..Len(chunks) -> [index : Nat, chunk : Chunks]]
    BY <2>1, <2>2 DEF Sources
  <2>4. Len(chunks) \in Nat
    BY <2>1
  <2> HIDE DEF Sources
  <2>5. QED
    BY <2>3, <2>4, IsSequence
<1>4. answer' \in Texts /\ citations' \in Seq([index : Nat, chunk : Chunks]) /\ status' \in Statuses
  <2>1. generated \in Texts /\ Repair(generated) \in Texts
    BY RepairType DEF IInv, TypeOK
  <2>2. CASE Degrade
    BY <2>2 DEF Degrade, NotFound, Texts, Statuses
  <2>3. CASE Accept(generated, "valid") \/ Accept(Repair(generated), "repaired")
    BY <1>3, <2>1, <2>3 DEF Accept, Statuses
  <2>4. QED
    BY <2>2, <2>3 DEF Validate
<1>5. TypeOK'
  BY <1>2, <1>4 DEF IInv, TypeOK, Stages
<1>6. Limited' /\ Numbered'
  BY <1>2 DEF IInv, Limited, Numbered, Numbering
<1>7. QED
  BY <1>1, <1>5, <1>6 DEF IInv

LEMMA FailStep == IInv /\ Fail => IInv'
<1> SUFFICES ASSUME IInv, Fail PROVE IInv'
  OBVIOUS
<1>1. stage' = "failed" /\ UNCHANGED <<hybrid, chunks, number, generated, outcome>>
  BY DEF Fail
<1>2. TypeOK' /\ Limited' /\ Numbered'
  BY <1>1 DEF IInv, TypeOK, Stages, outcome, Limited, Numbered
<1>3. QED
  BY <1>1, <1>2, NothingClaimed DEF IInv

LEMMA Invariance == Spec => []IInv
<1>1. Init => IInv
  <2> SUFFICES ASSUME Init PROVE IInv
    OBVIOUS
  <2>1. TypeOK
    BY DEF Init, TypeOK, Stages, Texts, NotFound, Statuses
  <2>2. QED
    BY <2>1 DEF Init, IInv, Limited, Numbered, Resolved, AnswerIsCited, DegradedForAReason
<1>2. IInv /\ [Next]_vars => IInv'
  <2> SUFFICES ASSUME IInv, [Next]_vars PROVE IInv'
    OBVIOUS
  <2>1. CASE \E hits \in HitLists : Search(hits)
    BY <2>1, SearchStep
  <2>2. CASE \E places \in Subsequences(Len(chunks)) : Hydrate(places)
    BY <2>2, HydrateStep
  <2>3. CASE Rerank
    BY <2>3, RerankStep
  <2>4. CASE Generate
    BY <2>4, GenerateStep
  <2>5. CASE Validate
    BY <2>5, ValidateStep
  <2>6. CASE Fail
    BY <2>6, FailStep
  <2>7. CASE UNCHANGED vars
    <3>1. TypeOK' /\ Limited' /\ Numbered'
      BY <2>7 DEF vars, outcome, IInv, TypeOK, Limited, Numbered, Numbering
    <3>2. Resolved' /\ AnswerIsCited' /\ DegradedForAReason'
      BY <2>7 DEF vars, outcome, IInv, Resolved, AnswerIsCited, DegradedForAReason,
                  Sources, Units
    <3>3. QED
      BY <3>1, <3>2 DEF IInv
  <2>8. QED
    BY <2>1, <2>2, <2>3, <2>4, <2>5, <2>6, <2>7 DEF Next
<1>3. QED
  BY <1>1, <1>2, PTL DEF Spec

-----------------------------------------------------------------------------
(* The properties.                                                         *)

(* The variables of a question keep their types, and never more chunks     *)
(* reach the prompt than the limit allows.                                 *)
THEOREM TypeCorrect == Spec => []TypeOK
<1>1. IInv => TypeOK
  BY DEF IInv
<1>2. QED
  BY <1>1, Invariance, PTL

(* An answer is NOT_FOUND without citations, or every sentence of it cites *)
(* something and nothing beyond the last citation: what                    *)
(* QAAgentWorkflow._validate returns, whatever model and retriever gave.   *)
THEOREM AnsweredIsCited == Spec => []AnswerIsCited
<1>1. IInv => AnswerIsCited
  BY DEF IInv
<1>2. QED
  BY <1>1, Invariance, PTL

(* Each number of an answer leads to one citation, that of the chunk the   *)
(* prompt had under it, whichever rows were gone and whatever the provider *)
(* ranked, but for a document ranked twice.                                *)
THEOREM EveryCitationResolves == Spec => []CitationsResolve
<1>1. IInv => CitationsResolve
  <2> SUFFICES ASSUME IInv, stage = "answered", IsInjective(chunks),
                      NEW u \in Units(answer), NEW n \in u
               PROVE  \E i \in DOMAIN citations :
                          /\ citations[i].chunk = chunks[n]
                          /\ \A j \in DOMAIN citations : citations[j].index = n <=> j = i
    BY DEF CitationsResolve
  <2>1. answer # NotFound
    BY DEF Units, NotFound
  <2>2. citations = Sources /\ n \in 1..Len(chunks)
    BY <2>1 DEF IInv, Resolved
  <2>3. chunks \in Seq(Chunks) /\ number = Numbering(chunks)
    BY DEF IInv, TypeOK, Numbered
  <2>4. DOMAIN citations = 1..Len(chunks)
    BY <2>2, <2>3 DEF Sources
  <2>5. \A j \in 1..Len(chunks) : citations[j].index = j /\ citations[j].chunk = chunks[j]
    <3>1. \A j \in 1..Len(chunks) : Numbering(chunks)[chunks[j]] = j
      BY <2>3, NumberIsPlace
    <3>2. QED
      BY <2>2, <2>3, <3>1 DEF Sources
  <2>6. QED
    BY <2>2, <2>4, <2>5
<1>2. QED
  BY <1>1, Invariance, PTL

(* No answer is thrown away that is in range and complete or mendable line *)
(* by line: repair_missing_citations and the second validation keep it.    *)
THEOREM NothingDegradedInVain == Spec => []DegradedForAReason
<1>1. IInv => DegradedForAReason
  BY DEF IInv
<1>2. QED
  BY <1>1, Invariance, PTL

-----------------------------------------------------------------------------
(* The search.                                                             *)

(* The first n of distinct chunks are distinct chunks: `candidates[:40]'.  *)
LEMMA PrefixIsHitList ==
  ASSUME NEW s \in HitLists, NEW n \in Nat
  PROVE  FirstOf(n, s) \in HitLists
<1>1. PICK T \in SUBSET Chunks : s \in SetToSeqs(T)
  BY DEF HitLists, SetToAllKPermutations
<1> DEFINE m == Cardinality(T)
           k == IF n < m THEN n ELSE m
           R == {s[i] : i \in 1..k}
           p == SubSeq(s, 1, k)
<1>2. m \in Nat /\ k \in Nat /\ k <= m
  BY FS_Subset, FS_CardinalityType, ChunksAssumption
<1>3. s \in [1..m -> T] /\ \A i, j \in 1..m : i # j => s[i] # s[j]
  BY <1>1 DEF SetToSeqs
<1>4. s \in Seq(T) /\ Len(s) = m
  BY <1>2, <1>3
<1>5. FirstOf(n, s) = p
  BY <1>4 DEF FirstOf
<1>6. p = [i \in 1..k |-> s[i]]
  BY <1>2, <1>4
<1>7. p \in [1..k -> R] /\ \A i, j \in 1..k : i # j => p[i] # p[j]
  <2>1. 1..k \subseteq 1..m
    BY <1>2
  <2>2. \A i \in 1..k : p[i] = s[i] /\ s[i] \in R
    BY <1>6
  <2>3. p \in [1..k -> R]
    BY <1>6, <2>2
  <2>4. QED
    BY <1>3, <2>1, <2>2, <2>3
<1>8. Cardinality(R) = k
  <2>1. p \in Bijection(1..k, R)
    <3>1. p \in Injection(1..k, R)
      BY <1>7 DEF Injection, IsInjective
    <3>2. p \in Surjection(1..k, R)
      BY <1>6, <1>7 DEF Surjection
    <3>3. QED
      BY <3>1, <3>2 DEF Bijection
  <2>2. IsFiniteSet(1..k) /\ Cardinality(1..k) = k
    <3>1. /\ IsFiniteSet(1..k)
          /\ Cardinality(1..k) = IF 1 > k THEN 0 ELSE k - 1 + 1
      <4> HIDE DEF k
      <4>1. 1 \in Int /\ k \in Int
        BY <1>2
      <4>2. QED
        BY <4>1, FS_Interval
    <3>2. QED
      BY <1>2, <3>1
  <2>3. QED
    BY <2>1, <2>2, FS_Bijection DEF ExistsBijection
<1>9. R \in SUBSET Chunks
  BY <1>2, <1>3
<1>10. p \in SetToSeqs(R)
  BY <1>7, <1>8 DEF SetToSeqs
<1>11. QED
  BY <1>5, <1>9, <1>10 DEF HitLists, SetToAllKPermutations

LEMMA NothingIsAHitList == <<>> \in HitLists
<1>1. Cardinality({}) = 0
  BY FS_EmptySet
<1>2. <<>> \in SetToSeqs({})
  BY <1>1 DEF SetToSeqs
<1>3. QED
  BY <1>2 DEF HitLists, SetToAllKPermutations

(* While the search runs, AnswerFlow has not seen a chunk. *)
NothingYet == stage = "asked" => chunks = <<>>

LEMMA SearchShowsNothing == RetrievalSpec => []NothingYet
<1>1. RetrievalInit => NothingYet
  BY DEF RetrievalInit, Init, NothingYet
<1>2. NothingYet /\ [RetrievalNext]_allVars => NothingYet'
  <2> SUFFICES ASSUME NothingYet, [RetrievalNext]_allVars PROVE NothingYet'
    OBVIOUS
  <2>1. CASE ResolveScope
    BY <2>1 DEF ResolveScope, NothingYet
  <2>2. CASE VectorSearch
    BY <2>2 DEF VectorSearch, NothingYet, vars
  <2>3. CASE KeywordSearch
    BY <2>3 DEF KeywordSearch, NothingYet, vars
  <2>4. CASE Fuse
    BY <2>4 DEF Fuse, NothingYet
  <2>5. CASE HydrateFound
    <3>1. stage' # "asked"
      BY <2>5 DEF HydrateFound, Hydrate
    <3>2. QED
      BY <3>1 DEF NothingYet
  <2>6. CASE Rerank
    <3>1. stage' # "asked"
      BY <2>6 DEF Rerank, Select
    <3>2. QED
      BY <3>1 DEF NothingYet
  <2>7. CASE Generate
    BY <2>7 DEF Generate, NothingYet
  <2>8. CASE Validate
    BY <2>8 DEF Validate, NothingYet
  <2>9. CASE Fail
    BY <2>9 DEF Fail, NothingYet
  <2>10. CASE UNCHANGED allVars
    BY <2>10 DEF allVars, vars, NothingYet
  <2>11. QED
    BY <2>1, <2>2, <2>3, <2>4, <2>5, <2>6, <2>7, <2>8, <2>9, <2>10 DEF RetrievalNext
<1>3. QED
  BY <1>1, <1>2, PTL DEF RetrievalSpec

(* An empty scope is a search that finds nothing. *)
LEMMA ScopeStep == NothingYet /\ ResolveScope => [Next]_vars
<1> SUFFICES ASSUME NothingYet, ResolveScope PROVE [Next]_vars
  OBVIOUS
<1>1. stage = "asked" /\ chunks = <<>>
      /\ UNCHANGED <<hybrid, chunks, number, generated, outcome>>
  BY DEF ResolveScope, NothingYet
<1>2. CASE scope' = {}
  <2>1. stage' = "found"
    BY <1>2 DEF ResolveScope
  <2>2. FirstOf(ContextLimit, <<>>) = <<>>
    BY LimitsAssumption DEF FirstOf
  <2>3. Search(<<>>)
    BY <1>1, <2>1, <2>2 DEF Search
  <2>4. QED
    BY <2>3, NothingIsAHitList DEF Next
<1>3. CASE scope' # {}
  <2>1. stage' = "asked"
    BY <1>3 DEF ResolveScope
  <2>2. UNCHANGED vars
    BY <1>1, <2>1 DEF vars, outcome
  <2>3. QED
    BY <2>2
<1>4. QED
  BY <1>2, <1>3

(* The candidates that are kept are the hits of one search. *)
LEMMA FuseStep == Fuse => Next
<1> SUFFICES ASSUME Fuse PROVE Next
  OBVIOUS
<1>1. PICK ranking \in Rankings :
          chunks' = FirstOf(IF hybrid THEN MaxFusion ELSE ContextLimit, ranking)
  BY DEF Fuse
<1>2. ranking \in HitLists
  BY DEF Rankings
<1>3. /\ stage = "asked" /\ stage' = "found"
      /\ UNCHANGED <<hybrid, number, generated, outcome>>
  BY DEF Fuse
<1>4. CASE hybrid
  <2>1. Search(FirstOf(MaxFusion, ranking))
    BY <1>1, <1>3, <1>4 DEF Search
  <2>2. FirstOf(MaxFusion, ranking) \in HitLists
    BY <1>2, FusionAssumption, PrefixIsHitList
  <2>3. QED
    BY <2>1, <2>2 DEF Next
<1>5. CASE ~hybrid
  <2>1. Search(ranking)
    BY <1>1, <1>3, <1>5 DEF Search
  <2>2. QED
    BY <1>2, <2>1 DEF Next
<1>6. QED
  BY <1>4, <1>5

(* Scope, searches, fusion and cut implement the one Search of AnswerFlow, *)
(* and the rest of RAGRetriever.retrieve is its own: so every property of  *)
(* AnswerFlow, the citations first, holds of the detailed search.          *)
THEOREM SearchIsRefined == RetrievalSpec => ImplementsAnswerFlow
<1>1. RetrievalInit => Init
  BY DEF RetrievalInit
<1>2. NothingYet /\ [RetrievalNext]_allVars => [Next]_vars
  <2> SUFFICES ASSUME NothingYet, [RetrievalNext]_allVars PROVE [Next]_vars
    OBVIOUS
  <2>1. CASE ResolveScope
    BY <2>1, ScopeStep
  <2>2. CASE VectorSearch
    BY <2>2 DEF VectorSearch
  <2>3. CASE KeywordSearch
    BY <2>3 DEF KeywordSearch
  <2>4. CASE Fuse
    BY <2>4, FuseStep
  <2>5. CASE HydrateFound
    BY <2>5 DEF HydrateFound, Next
  <2>6. CASE Rerank \/ Generate \/ Validate \/ Fail
    BY <2>6 DEF Next
  <2>7. CASE UNCHANGED allVars
    BY <2>7 DEF allVars
  <2>8. QED
    BY <2>1, <2>2, <2>3, <2>4, <2>5, <2>6, <2>7 DEF RetrievalNext
<1>3. QED
  BY <1>1, <1>2, SearchShowsNothing, PTL DEF RetrievalSpec, Spec, ImplementsAnswerFlow

-----------------------------------------------------------------------------
(* The scope.                                                              *)

(* What CitedIsInScope says of the file of a cited chunk. *)
MayCite(file) ==
    /\ file \in Own
    /\ request.type = "file" => file \in Range(request.ids)
    /\ request.type = "folder" =>
           /\ request.ids # <<>>
           /\ Likewise[request.ids[1]] = {} => FolderOf[file] \in Within[request.ids[1]]

(* What is searched, found, handed on and cited is in scope. *)
StaysInScope ==
    /\ scope \subseteq Resolve(request)
    /\ lists \in Seq(HitLists)
    /\ \A i \in DOMAIN lists : \A c \in Range(lists[i]) : MayCite(FileOf[c])
    /\ \A c \in Range(chunks) : MayCite(FileOf[c])
    /\ stage = "answered" => \A i \in DOMAIN citations : MayCite(FileOf[citations[i].chunk])

LEMMA SearchableMayBeCited ==
  ASSUME scope \subseteq Resolve(request), NEW c \in Searchable
  PROVE  MayCite(FileOf[c])
<1>1. FileOf[c] \in Own /\ FileOf[c] \in Resolve(request)
  BY DEF Searchable
<1>2. QED
  BY <1>1 DEF Resolve, LikePath, MayCite

LEMMA FirstOfRange ==
  ASSUME NEW S, NEW s \in Seq(S), NEW n \in Nat
  PROVE  Range(FirstOf(n, s)) \subseteq Range(s)
<1>1. ASSUME NEW i \in DOMAIN FirstOf(n, s)
      PROVE  i \in DOMAIN s /\ FirstOf(n, s)[i] = s[i]
  BY DEF FirstOf
<1>2. QED
  BY <1>1 DEF Range

LEMMA PlacesRange ==
  ASSUME NEW S, NEW s \in Seq(S), NEW n \in Nat, NEW p \in SeqOf(1..Len(s), n)
  PROVE  Range([i \in DOMAIN p |-> s[p[i]]]) \subseteq Range(s)
<1>1. PICK m \in 0..n : p \in [1..m -> 1..Len(s)]
  BY DEF SeqOf
<1>2. QED
  BY <1>1 DEF Range

(* A search adds a list of what it may find. *)
LEMMA AppendInScope ==
  ASSUME StaysInScope, NEW limit, NEW hits \in RankedLists(Searchable, limit),
         lists' = Append(lists, hits), UNCHANGED <<vars, request, scope>>
  PROVE  StaysInScope'
<1>1. hits \in HitLists /\ \A c \in Range(hits) : MayCite(FileOf[c])
  BY SearchableMayBeCited DEF RankedLists, StaysInScope
<1>2. lists \in Seq(HitLists)
  BY DEF StaysInScope
<1>3. lists' \in Seq(HitLists)
  BY <1>1, <1>2
<1>4. \A i \in DOMAIN lists' : \A c \in Range(lists'[i]) : MayCite(FileOf[c])
  <2> SUFFICES ASSUME NEW i \in DOMAIN lists', NEW c \in Range(lists'[i])
               PROVE  MayCite(FileOf[c])
    OBVIOUS
  <2>1. CASE i \in DOMAIN lists
    <3>1. lists'[i] = lists[i]
      BY <1>2, <2>1
    <3>2. QED
      BY <2>1, <3>1 DEF StaysInScope
  <2>2. CASE i \notin DOMAIN lists
    <3>1. lists'[i] = hits
      BY <1>2, <2>2
    <3>2. QED
      BY <1>1, <3>1
  <2>3. QED
    BY <2>1, <2>2
<1>5. QED
  BY <1>3, <1>4 DEF StaysInScope, MayCite, Resolve, vars, outcome

(* What follows the search only takes from the chunks. *)
LEMMA TakenInScope ==
  ASSUME StaysInScope, \A c \in Range(chunks') : MayCite(FileOf[c]), stage' # "answered",
         UNCHANGED request, scope' \subseteq scope, lists' = lists \/ lists' = <<>>
  PROVE  StaysInScope'
<1>1. scope' \subseteq Resolve(request)'
  BY DEF StaysInScope, Resolve
<1>2. /\ lists' \in Seq(HitLists)
      /\ \A i \in DOMAIN lists' : \A c \in Range(lists'[i]) : MayCite(FileOf[c])
  <2>1. CASE lists' = lists
    BY <2>1 DEF StaysInScope
  <2>2. CASE lists' = <<>>
    BY <2>2
  <2>3. QED
    BY <2>1, <2>2
<1>3. \A file : MayCite(file)' = MayCite(file)
  BY DEF MayCite
<1>4. QED
  BY <1>1, <1>2, <1>3 DEF StaysInScope

LEMMA FuseInScope == IInv /\ StaysInScope /\ Fuse => StaysInScope'
<1> SUFFICES ASSUME IInv, StaysInScope, Fuse PROVE StaysInScope'
  OBVIOUS
<1> DEFINE limit == IF hybrid THEN MaxFusion ELSE ContextLimit
<1>1. limit \in Nat
  BY LimitsAssumption, FusionAssumption
<1> HIDE DEF limit
<1>2. PICK ranking \in Rankings : chunks' = FirstOf(limit, ranking)
  BY DEF Fuse, limit
<1>3. ranking \in Seq(Chunks) /\ Range(ranking) = Found
  BY <1>2, HitListType DEF Rankings
<1>4. Range(chunks') \subseteq Found
  BY <1>1, <1>2, <1>3, FirstOfRange
<1>5. \A c \in Range(chunks') : MayCite(FileOf[c])
  BY <1>4 DEF Found, StaysInScope
<1>6. QED
  BY <1>5, TakenInScope DEF Fuse, retrieval

LEMMA HydrateInScope == IInv /\ StaysInScope /\ HydrateFound => StaysInScope'
<1> SUFFICES ASSUME IInv, StaysInScope, HydrateFound PROVE StaysInScope'
  OBVIOUS
<1>1. PICK places \in Subsequences(Len(chunks)) : Hydrate(places)
  BY DEF HydrateFound
<1>2. chunks \in Seq(Chunks) /\ Len(chunks) \in Nat /\ places \in SeqOf(1..Len(chunks), Len(chunks))
  BY DEF IInv, TypeOK, Subsequences
<1>3. Range(chunks') \subseteq Range(chunks)
  BY <1>1, <1>2, PlacesRange DEF Hydrate
<1>4. \A c \in Range(chunks') : MayCite(FileOf[c])
  BY <1>3 DEF StaysInScope
<1>5. QED
  BY <1>1, <1>4, TakenInScope DEF HydrateFound, Hydrate

LEMMA RerankInScope ==
  IInv /\ StaysInScope /\ Rerank /\ UNCHANGED retrieval => StaysInScope'
<1> SUFFICES ASSUME IInv, StaysInScope, Rerank, UNCHANGED retrieval PROVE StaysInScope'
  OBVIOUS
<1>1. chunks \in Seq(Chunks) /\ Len(chunks) \in Nat
  BY DEF IInv, TypeOK
<1>2. PICK results \in SeqOf(1..Len(chunks), Len(chunks)) : Select(results)
  BY <1>1, InOrderIsAResult DEF Rerank
<1> DEFINE ranked == [i \in DOMAIN results |-> chunks[results[i]]]
<1>3. ranked \in Seq(Chunks) /\ Range(ranked) \subseteq Range(chunks)
  BY <1>1, PlacesType, PlacesRange
<1> HIDE DEF ranked
<1>4. chunks' = FirstOf(ContextLimit, ranked)
  BY <1>2 DEF Select, ranked
<1>5. Range(chunks') \subseteq Range(chunks)
  BY <1>3, <1>4, FirstOfRange, LimitsAssumption
<1>6. \A c \in Range(chunks') : MayCite(FileOf[c])
  BY <1>5 DEF StaysInScope
<1>7. QED
  BY <1>2, <1>6, TakenInScope DEF Select, retrieval

LEMMA ValidateInScope ==
  IInv /\ StaysInScope /\ Validate /\ UNCHANGED retrieval => StaysInScope'
<1> SUFFICES ASSUME IInv, StaysInScope, Validate, UNCHANGED retrieval PROVE StaysInScope'
  OBVIOUS
<1>1. citations' = <<>> \/ citations' = Sources
  BY DEF Validate, Accept, Degrade
<1>2. \A i \in DOMAIN citations' : citations'[i].chunk \in Range(chunks)
  <2>1. ASSUME NEW i \in DOMAIN Sources
        PROVE  Sources[i].chunk \in Range(chunks)
    BY DEF Sources, Range
  <2>2. QED
    BY <1>1, <2>1
<1>3. \A i \in DOMAIN citations' : MayCite(FileOf[citations'[i].chunk])
  BY <1>2 DEF StaysInScope
<1>4. UNCHANGED <<chunks, request, scope, lists>>
  BY DEF Validate, retrieval
<1>5. QED
  BY <1>3, <1>4 DEF StaysInScope, MayCite, Resolve

(* A cited chunk is of the asking user's own and of the files or folder    *)
(* asked about, whatever the searches found and the providers did.         *)
THEOREM CitationsStayInScope == RetrievalSpec => []CitedIsInScope
<1>1. RetrievalInit => StaysInScope
  BY DEF RetrievalInit, Init, StaysInScope, Range
<1>2. IInv /\ StaysInScope /\ [RetrievalNext]_allVars => StaysInScope'
  <2> SUFFICES ASSUME IInv, StaysInScope, [RetrievalNext]_allVars PROVE StaysInScope'
    OBVIOUS
  <2>1. CASE ResolveScope
    <3>1. scope' = Resolve(request) /\ UNCHANGED <<request, lists, chunks>> /\ stage' # "answered"
      BY <2>1 DEF ResolveScope
    <3>2. QED
      BY <3>1 DEF StaysInScope, MayCite, Resolve
  <2>2. CASE VectorSearch
    BY <2>2, AppendInScope DEF VectorSearch
  <2>3. CASE KeywordSearch
    BY <2>3, AppendInScope DEF KeywordSearch
  <2>4. CASE Fuse
    BY <2>4, FuseInScope
  <2>5. CASE HydrateFound
    BY <2>5, HydrateInScope
  <2>6. CASE Rerank /\ UNCHANGED retrieval
    BY <2>6, RerankInScope
  <2>7. CASE Generate /\ UNCHANGED retrieval
    <3>1. UNCHANGED <<chunks, request, scope, lists>> /\ stage' # "answered"
      BY <2>7 DEF Generate, retrieval
    <3>2. QED
      BY <3>1 DEF StaysInScope, MayCite, Resolve
  <2>8. CASE Validate /\ UNCHANGED retrieval
    BY <2>8, ValidateInScope
  <2>9. CASE Fail /\ UNCHANGED retrieval
    <3>1. UNCHANGED <<chunks, request, scope, lists>> /\ stage' # "answered"
      BY <2>9 DEF Fail, retrieval
    <3>2. QED
      BY <3>1 DEF StaysInScope, MayCite, Resolve
  <2>10. CASE UNCHANGED allVars
    BY <2>10 DEF allVars, vars, retrieval, outcome, StaysInScope, MayCite, Resolve
  <2>11. QED
    BY <2>1, <2>2, <2>3, <2>4, <2>5, <2>6, <2>7, <2>8, <2>9, <2>10 DEF RetrievalNext
<1>3. RetrievalSpec => []IInv
  BY SearchIsRefined, Invariance, PTL DEF ImplementsAnswerFlow
<1>4. StaysInScope => CitedIsInScope
  BY DEF StaysInScope, CitedIsInScope, MayCite
<1>5. QED
  BY <1>1, <1>2, <1>3, <1>4, PTL DEF RetrievalSpec

-----------------------------------------------------------------------------
(* Fusion.                                                                 *)

(* f holds the sums of the first shares, up to n of them. *)
Sums(shares, n, f) ==
    f = [k \in 0..n |-> IF k = 0 THEN 0 ELSE f[k - 1] + shares[k]]

(* The recursion of Total has a solution. *)
LEMMA SumsExist ==
  ASSUME NEW shares \in Seq(Nat)
  PROVE  \E f : Sums(shares, Len(shares), f)
<1> DEFINE Wrong == {n \in 0..Len(shares) : \A f : ~Sums(shares, n, f)}
<1>0. Len(shares) \in Nat
  OBVIOUS
<1>1. Wrong = {}
  <2> SUFFICES ASSUME Wrong # {} PROVE FALSE
    OBVIOUS
  <2>1. Wrong \in SUBSET Nat
    BY <1>0
  <2>2. PICK n \in Wrong : \A m \in Wrong : n <= m
    <3> HIDE DEF Wrong
    <3>1. QED
      BY <2>1, HasLeast
  <2>3. n \in 0..Len(shares) /\ \A f : ~Sums(shares, n, f)
    OBVIOUS
  <2>4. n # 0
    <3>1. Sums(shares, 0, [k \in 0..0 |-> 0])
      BY DEF Sums
    <3>2. QED
      BY <2>3, <3>1
  <2>5. n - 1 \in 0..Len(shares) /\ ~(n <= n - 1)
    BY <1>0, <2>3, <2>4
  <2>6. n - 1 \notin Wrong
    BY <2>2, <2>5
  <2>7. PICK g : Sums(shares, n - 1, g)
    BY <2>5, <2>6
  <2> DEFINE h == [k \in 0..n |-> IF k = n THEN g[n - 1] + shares[n] ELSE g[k]]
  <2>8. ASSUME NEW k \in 0..n
        PROVE  h[k] = IF k = 0 THEN 0 ELSE h[k - 1] + shares[k]
    <3>1. CASE k = n
      <4>1. h[k - 1] = g[n - 1]
        BY <3>1, <2>3, <2>4, <1>0
      <4>2. QED
        BY <3>1, <4>1, <2>4
    <3>2. CASE k # n
      <4>1. k \in 0..(n - 1) /\ h[k] = g[k]
        BY <3>2, <2>3, <1>0
      <4>2. g[k] = IF k = 0 THEN 0 ELSE g[k - 1] + shares[k]
        BY <4>1, <2>7 DEF Sums
      <4>3. k # 0 => h[k - 1] = g[k - 1]
        BY <4>1, <2>3, <1>0
      <4>4. QED
        BY <4>1, <4>2, <4>3
    <3>3. QED
      BY <3>1, <3>2
  <2>9. h = [k \in 0..n |-> IF k = 0 THEN 0 ELSE h[k - 1] + shares[k]]
    <3>1. h = [k \in 0..n |-> h[k]]
      OBVIOUS
    <3> HIDE DEF h
    <3>2. QED
      BY <2>8, <3>1
  <2>10. Sums(shares, n, h)
    BY <2>9 DEF Sums
  <2>11. QED
    BY <2>3, <2>10
<1>2. Len(shares) \notin Wrong
  BY <1>1
<1>3. QED
  BY <1>0, <1>2

(* Total is the last of the sums. *)
LEMMA TotalIsASum ==
  ASSUME NEW shares \in Seq(Nat)
  PROVE  \E f : Sums(shares, Len(shares), f) /\ Total(shares) = f[Len(shares)]
<1> DEFINE f == CHOOSE g : g = [n \in 0..Len(shares) |-> IF n = 0 THEN 0 ELSE g[n - 1] + shares[n]]
<1>1. Sums(shares, Len(shares), f)
  BY SumsExist DEF Sums
<1>2. Total(shares) = f[Len(shares)]
  BY DEF Total
<1> HIDE DEF f
<1>3. QED
  BY <1>1, <1>2

LEMMA SumsType ==
  ASSUME NEW shares \in Seq(Nat), NEW f, Sums(shares, Len(shares), f)
  PROVE  /\ \A k \in 0..Len(shares) : f[k] \in Nat
         /\ f[0] = 0
         /\ \A k \in 1..Len(shares) : f[k] = f[k - 1] + shares[k]
<1> DEFINE Wrong == {n \in 0..Len(shares) : f[n] \notin Nat}
<1>0. Len(shares) \in Nat /\ \A k \in 1..Len(shares) : shares[k] \in Nat
  OBVIOUS
<1>1. \A k \in 0..Len(shares) : f[k] = IF k = 0 THEN 0 ELSE f[k - 1] + shares[k]
  BY DEF Sums
<1>2. Wrong = {}
  <2> SUFFICES ASSUME Wrong # {} PROVE FALSE
    OBVIOUS
  <2>1. Wrong \in SUBSET Nat
    BY <1>0
  <2>2. PICK n \in Wrong : \A m \in Wrong : n <= m
    <3> HIDE DEF Wrong
    <3>1. QED
      BY <2>1, HasLeast
  <2>3. n # 0 /\ n \in 0..Len(shares) /\ f[n] \notin Nat
    BY <1>0, <1>1
  <2>4. n - 1 \in 0..Len(shares) /\ ~(n <= n - 1) /\ n \in 1..Len(shares)
    BY <1>0, <2>3
  <2>5. f[n - 1] \in Nat
    BY <2>2, <2>4
  <2>6. f[n] = f[n - 1] + shares[n]
    BY <1>1, <2>3
  <2>7. QED
    BY <1>0, <2>3, <2>4, <2>5, <2>6
<1>3. 0 \in 0..Len(shares) /\ \A k \in 1..Len(shares) : k \in 0..Len(shares) /\ k # 0
  BY <1>0
<1>4. QED
  BY <1>1, <1>2, <1>3

LEMMA SumIsMonotone ==
  ASSUME NEW x \in Nat, NEW y \in Nat, NEW u \in Nat, NEW v \in Nat, x <= y, u <= v
  PROVE  /\ x + u <= y + v
         /\ x < y => x + u < y + v
         /\ u < v => x + u < y + v
  OBVIOUS

(* The same of the sums, one by one. *)
Adding(N, shares, f) ==
    /\ \A k \in 0..N : f[k] \in Nat
    /\ f[0] = 0
    /\ \A k \in 1..N : shares[k] \in Nat /\ f[k] = f[k - 1] + shares[k]

LessThan(N, less, more, i) ==
    i \in 1..N /\ less[i] < more[i] /\ \A k \in 1..N : less[k] <= more[k]

Behind(f, g, i, k) == f[k] <= g[k] /\ (i <= k => f[k] < g[k])

LEMMA SumsFallBehind ==
  ASSUME NEW N \in Nat, NEW less, NEW more, NEW f, NEW g, NEW i,
         Adding(N, less, f), Adding(N, more, g), LessThan(N, less, more, i)
  PROVE  \A k \in 0..N : Behind(f, g, i, k)
<1>1. i \in 1..N /\ less[i] < more[i]
  BY DEF LessThan
<1> DEFINE Wrong == {n \in 0..N : ~Behind(f, g, i, n)}
<1>2. ASSUME NEW n \in Wrong, \A m \in Wrong : n <= m
      PROVE  FALSE
  <2>1. n \in 0..N /\ ~Behind(f, g, i, n)
    OBVIOUS
  <2>2. n # 0
    <3>1. f[0] = 0 /\ g[0] = 0
      BY DEF Adding
    <3>2. Behind(f, g, i, 0)
      BY <1>1, <3>1 DEF Behind
    <3>3. QED
      BY <2>1, <3>2
  <2>3. n - 1 \in 0..N /\ ~(n <= n - 1) /\ n \in 1..N
    BY <2>1, <2>2
  <2>4. Behind(f, g, i, n - 1)
    BY <1>2, <2>3
  <2>5. PICK x \in Nat, u \in Nat : x = f[n - 1] /\ u = less[n] /\ f[n] = x + u
    BY <2>3 DEF Adding
  <2>6. PICK y \in Nat, v \in Nat : y = g[n - 1] /\ v = more[n] /\ g[n] = y + v
    BY <2>3 DEF Adding
  <2>7. u <= v
    BY <2>3, <2>5, <2>6 DEF LessThan
  <2>8. x <= y /\ (i <= n - 1 => x < y)
    BY <2>4, <2>5, <2>6 DEF Behind
  <2>9. /\ x + u <= y + v
        /\ x < y => x + u < y + v
        /\ u < v => x + u < y + v
    BY <2>7, <2>8, SumIsMonotone
  <2>10. i = n => u < v
    BY <1>1, <2>5, <2>6
  <2>11. i <= n => i <= n - 1 \/ i = n
    BY <1>1, <2>3
  <2>12. f[n] <= g[n] /\ (i <= n => f[n] < g[n])
    BY <2>5, <2>6, <2>8, <2>9, <2>10, <2>11
  <2>13. QED
    BY <2>1, <2>12 DEF Behind
<1>3. Wrong \in SUBSET Nat
  OBVIOUS
<1>4. Wrong = {}
  <2> HIDE DEF Wrong
  <2>1. QED
    BY <1>2, <1>3, HasLeast
<1>5. QED
  BY <1>4

LEMMA TotalAdds ==
  ASSUME NEW shares \in Seq(Nat)
  PROVE  \E f : Adding(Len(shares), shares, f) /\ Total(shares) = f[Len(shares)]
<1>1. PICK f : Sums(shares, Len(shares), f) /\ Total(shares) = f[Len(shares)]
  BY TotalIsASum
<1>2. \A k \in 1..Len(shares) : shares[k] \in Nat
  OBVIOUS
<1>3. Adding(Len(shares), shares, f)
  BY <1>1, <1>2, SumsType DEF Adding
<1>4. QED
  BY <1>1, <1>3

(* Nowhere less and somewhere more: more in all. *)
LEMMA MoreInTotal ==
  ASSUME NEW less \in Seq(Nat), NEW more \in Seq(Nat), Len(less) = Len(more),
         \A i \in DOMAIN less : less[i] <= more[i],
         \E i \in DOMAIN less : less[i] < more[i]
  PROVE  Total(less) \in Nat /\ Total(more) \in Nat /\ Total(less) < Total(more)
<1>1. PICK N \in Nat : N = Len(less) /\ DOMAIN less = 1..N
  OBVIOUS
<1>2. PICK f : Adding(N, less, f) /\ Total(less) = f[N]
  BY <1>1, TotalAdds
<1>3. PICK g : Adding(N, more, g) /\ Total(more) = g[N]
  BY <1>1, TotalAdds
<1>4. PICK i : LessThan(N, less, more, i)
  BY <1>1 DEF LessThan
<1>5. N \in 0..N /\ i <= N
  BY <1>1, <1>4 DEF LessThan
<1>6. f[N] < g[N]
  BY <1>2, <1>3, <1>4, <1>5, SumsFallBehind DEF Behind
<1>7. f[N] \in Nat /\ g[N] \in Nat
  BY <1>2, <1>3, <1>5 DEF Adding
<1>8. QED
  BY <1>2, <1>3, <1>6, <1>7

Ranks == 1..VectorTopK \cup 1..KeywordTopK

(* The share of a rank is positive, and that of a better rank greater. *)
LEMMA ShareFalls ==
  ASSUME NEW p \in Ranks
  PROVE  /\ Scale \div (RRF_K + p) \in Nat
         /\ Scale \div (RRF_K + p) > 0
         /\ \A q \in Ranks : p < q => Scale \div (RRF_K + q) < Scale \div (RRF_K + p)
<1>1. ASSUME NEW q \in Ranks
      PROVE  /\ q \in Nat /\ RRF_K + q > 0
             /\ Scale \div (RRF_K + q) \in Nat
             /\ Scale = (RRF_K + q) * (Scale \div (RRF_K + q))
  <2>1. q \in Nat /\ RRF_K + q \in Nat /\ RRF_K + q > 0
    BY RanksAssumption DEF Ranks, RRF_K
  <2>2. Scale % (RRF_K + q) = 0 /\ Scale \in Nat
    BY RanksAssumption DEF Ranks
  <2>3. PICK d : d = RRF_K + q
    OBVIOUS
  <2>4. Scale \div d \in Nat /\ Scale = d * (Scale \div d)
    BY <2>1, <2>2, <2>3
  <2>5. QED
    BY <2>1, <2>3, <2>4
<1>2. Scale \in Nat \ {0}
  BY RanksAssumption
<1>3. PICK x : x = Scale \div (RRF_K + p)
  OBVIOUS
<1>4. x \in Nat /\ Scale = (RRF_K + p) * x /\ p \in Nat
  BY <1>1, <1>3
<1>5. x > 0
  BY <1>2, <1>4 DEF RRF_K
<1>6. ASSUME NEW q \in Ranks, p < q
      PROVE  Scale \div (RRF_K + q) < x
  <2>1. PICK y : y = Scale \div (RRF_K + q)
    OBVIOUS
  <2>2. y \in Nat /\ Scale = (RRF_K + q) * y /\ q \in Nat
    BY <1>1, <2>1
  <2>3. PICK a \in Nat, b \in Nat : a = RRF_K + p /\ b = RRF_K + q
    BY <1>4, <2>2 DEF RRF_K
  <2>4. a < b /\ a * x = b * y /\ b > 0 /\ a > 0
    BY <1>4, <1>6, <2>2, <2>3 DEF RRF_K
  <2> SUFFICES ASSUME x <= y PROVE FALSE
    BY <1>4, <2>1, <2>2
  <2>6. a * x <= a * y
    BY <2>3, <1>4, <2>2
  <2>7. y > 0
    BY <1>4, <1>5, <2>2
  <2>8. a * y < b * y
    BY <2>2, <2>3, <2>4, <2>7
  <2>9. a * x \in Int /\ a * y \in Int /\ b * y \in Int
    BY <1>4, <2>2, <2>3
  <2>10. QED
    BY <2>4, <2>6, <2>8, <2>9
<1>7. QED
  BY <1>3, <1>4, <1>5, <1>6

(* In a list of hits each chunk has one place. *)
LEMMA OnePlace ==
  ASSUME NEW s \in HitLists, NEW i \in DOMAIN s
  PROVE  Place(s[i], s) = i
<1>1. PICK T \in SUBSET Chunks : s \in SetToSeqs(T)
  BY DEF HitLists, SetToAllKPermutations
<1>2. \A j \in DOMAIN s : j # i => s[j] # s[i]
  BY <1>1 DEF SetToSeqs
<1>3. QED
  BY <1>2 DEF Place

LEMMA PlaceOf ==
  ASSUME NEW s \in HitLists, NEW c \in Range(s)
  PROVE  Place(c, s) \in DOMAIN s /\ s[Place(c, s)] = c
<1>1. PICK i \in DOMAIN s : s[i] = c
  BY DEF Range
<1>2. Place(c, s) = i
  BY <1>1, OnePlace
<1>3. QED
  BY <1>1, <1>2

(* a stands in l, and before b if b does. *)
Ahead(a, b, l) == a \in Range(l) /\ (b \in Range(l) => Place(a, l) < Place(b, l))

(* a stands behind b in none of the lists, and before it in one. *)
BetterPlaced(ls, a, b) ==
    /\ \A i \in DOMAIN ls : Ahead(a, b, ls[i]) \/ b \notin Range(ls[i])
    /\ \E i \in DOMAIN ls : Ahead(a, b, ls[i])

(* BetterPlacedComesFirst, of the lists and the chunks they led to. *)
OrderIsKept(ls, cs) ==
    \A a, b \in UNION {Range(ls[i]) : i \in DOMAIN ls} :
        BetterPlaced(ls, a, b) /\ b \in Range(cs)
            => a \in Range(cs) /\ Place(a, cs) < Place(b, cs)

LEMMA OrderIsKeptIsTheProperty ==
  BetterPlacedComesFirst <=> (stage = "found" /\ hybrid => OrderIsKept(lists, chunks))
  BY DEF BetterPlacedComesFirst, OrderIsKept, BetterPlaced, Ahead, Found

(* No list is longer than its search may return. *)
Ranked == hybrid => \A i \in DOMAIN lists : DOMAIN lists[i] \subseteq Ranks

(* Nothing is searched before there is a scope. *)
ScopeComesFirst == stage = "asked" /\ scope = {} => lists = <<>>

(* What a list adds to the sum of a chunk. *)
Adds(c, i) == IF i \in FoundIn(c) THEN Share(c, i) ELSE 0

LEMMA SeqOfLength ==
  ASSUME NEW S, NEW n \in Nat, NEW s \in [1..n -> S]
  PROVE  s \in Seq(S) /\ Len(s) = n
  OBVIOUS

LEMMA AddsType ==
  ASSUME lists \in Seq(HitLists), Ranked, hybrid, NEW c, NEW i \in DOMAIN lists
  PROVE  /\ Adds(c, i) \in Nat
         /\ c \in Range(lists[i]) => Adds(c, i) > 0
         /\ c \notin Range(lists[i]) => Adds(c, i) = 0
<1>1. lists[i] \in HitLists
  OBVIOUS
<1>2. CASE c \in Range(lists[i])
  <2>1. Place(c, lists[i]) \in Ranks
    BY <1>1, <1>2, PlaceOf DEF Ranked
  <2>2. PICK p \in Ranks : p = Place(c, lists[i])
    BY <2>1
  <2>3. Adds(c, i) = Scale \div (RRF_K + p)
    BY <1>2, <2>2 DEF Adds, FoundIn, Share
  <2>4. QED
    BY <1>2, <2>3, ShareFalls
<1>3. CASE c \notin Range(lists[i])
  BY <1>3 DEF Adds, FoundIn
<1>4. QED
  BY <1>2, <1>3

LEMMA AheadAddsMore ==
  ASSUME lists \in Seq(HitLists), Ranked, hybrid, NEW a, NEW b, NEW i \in DOMAIN lists,
         Ahead(a, b, lists[i])
  PROVE  Adds(b, i) < Adds(a, i)
<1>1. lists[i] \in HitLists /\ a \in Range(lists[i])
  BY DEF Ahead
<1>2. CASE b \in Range(lists[i])
  <2>1. Place(a, lists[i]) \in Ranks /\ Place(b, lists[i]) \in Ranks
    BY <1>1, <1>2, PlaceOf DEF Ranked
  <2>2. PICK p \in Ranks, q \in Ranks : p = Place(a, lists[i]) /\ q = Place(b, lists[i])
    BY <2>1
  <2>3. p < q
    BY <1>2, <2>2 DEF Ahead
  <2>4. Adds(a, i) = Scale \div (RRF_K + p) /\ Adds(b, i) = Scale \div (RRF_K + q)
    BY <1>1, <1>2, <2>2 DEF Adds, FoundIn, Share
  <2>5. QED
    BY <2>3, <2>4, ShareFalls
<1>3. CASE b \notin Range(lists[i])
  <2>1. Adds(b, i) = 0 /\ Adds(a, i) > 0
    BY <1>1, <1>3, AddsType
  <2>2. QED
    BY <2>1
<1>4. QED
  BY <1>2, <1>3

(* The better placed of two chunks has the greater sum. *)
LEMMA BetterPlacedScoresMore ==
  ASSUME lists \in Seq(HitLists), Ranked, hybrid, NEW a, NEW b, BetterPlaced(lists, a, b)
  PROVE  RRF(b) \in Nat /\ RRF(a) \in Nat /\ RRF(b) < RRF(a)
<1>1. PICK less : less = [i \in DOMAIN lists |-> Adds(b, i)]
  OBVIOUS
<1>2. PICK more : more = [i \in DOMAIN lists |-> Adds(a, i)]
  OBVIOUS
<1>3. RRF(b) = Total(less) /\ RRF(a) = Total(more)
  BY <1>1, <1>2 DEF RRF, Adds
<1>4. DOMAIN lists = 1..Len(lists) /\ Len(lists) \in Nat
  OBVIOUS
<1>5. \A i \in DOMAIN lists : Adds(b, i) \in Nat /\ Adds(a, i) \in Nat
  BY AddsType
<1>6. \A i \in DOMAIN lists : Ahead(a, b, lists[i]) => Adds(b, i) < Adds(a, i)
  BY AheadAddsMore
<1>7. \A i \in DOMAIN lists : b \notin Range(lists[i]) => Adds(b, i) = 0
  BY AddsType
<1>8. \A i \in DOMAIN lists : Adds(b, i) <= Adds(a, i)
  <2> SUFFICES ASSUME NEW i \in DOMAIN lists
               PROVE  Adds(b, i) <= Adds(a, i)
    OBVIOUS
  <2>1. CASE Ahead(a, b, lists[i])
    BY <2>1, <1>5, <1>6
  <2>2. CASE b \notin Range(lists[i])
    BY <2>2, <1>5, <1>7
  <2>3. QED
    BY <2>1, <2>2 DEF BetterPlaced
<1>9. \E i \in DOMAIN lists : Adds(b, i) < Adds(a, i)
  BY <1>6 DEF BetterPlaced
<1>10. less \in [1..Len(lists) -> Nat] /\ more \in [1..Len(lists) -> Nat]
  BY <1>1, <1>2, <1>4, <1>5
<1>11. /\ less \in Seq(Nat) /\ more \in Seq(Nat)
       /\ Len(less) = Len(lists) /\ Len(more) = Len(lists)
  <2>1. PICK n \in Nat : n = Len(lists)
    BY <1>4
  <2>2. less \in [1..n -> Nat] /\ more \in [1..n -> Nat]
    BY <1>10, <2>1
  <2>3. QED
    BY <2>1, <2>2, SeqOfLength
<1>12. \A i \in DOMAIN less : less[i] <= more[i]
  BY <1>1, <1>2, <1>8
<1>13. \E i \in DOMAIN less : less[i] < more[i]
  BY <1>1, <1>2, <1>9
<1>14. QED
  BY <1>3, <1>11, <1>12, <1>13, MoreInTotal

(* A ranking by these sums, cut or not, keeps the order. *)
LEMMA FuseKeepsOrder ==
  lists \in Seq(HitLists) /\ Ranked /\ Fuse /\ hybrid => OrderIsKept(lists, chunks')
<1> SUFFICES ASSUME lists \in Seq(HitLists), Ranked, Fuse, hybrid,
                    NEW a \in Found, NEW b \in Found, BetterPlaced(lists, a, b),
                    b \in Range(chunks')
             PROVE  a \in Range(chunks') /\ Place(a, chunks') < Place(b, chunks')
  BY DEF OrderIsKept, Found
<1>1. PICK ranking \in Rankings : chunks' = FirstOf(MaxFusion, ranking)
  BY DEF Fuse
<1>2. /\ ranking \in HitLists /\ Range(ranking) = Found
      /\ \A i, j \in DOMAIN ranking : i < j => RRF(ranking[i]) >= RRF(ranking[j])
  BY <1>1 DEF Rankings
<1>3. PICK cs : cs = chunks'
  OBVIOUS
<1>4. cs \in HitLists /\ ranking \in Seq(Chunks) /\ cs = FirstOf(MaxFusion, ranking)
  BY <1>1, <1>2, <1>3, PrefixIsHitList, HitListType, FusionAssumption
<1>5. /\ Len(ranking) \in Nat /\ DOMAIN ranking = 1..Len(ranking)
      /\ Len(cs) \in Nat /\ DOMAIN cs = 1..Len(cs) /\ Len(cs) <= Len(ranking)
      /\ \A k \in DOMAIN cs : cs[k] = ranking[k]
  BY <1>4, FusionAssumption DEF FirstOf
<1>6. PICK j \in DOMAIN cs : cs[j] = b
  BY <1>3 DEF Range
<1>7. PICK i \in DOMAIN ranking : ranking[i] = a
  BY <1>2 DEF Range
<1>8. RRF(b) \in Nat /\ RRF(a) \in Nat /\ RRF(b) < RRF(a)
  BY BetterPlacedScoresMore
<1>9. j \in DOMAIN ranking /\ ranking[j] = b
  BY <1>5, <1>6
<1>10. i < j
  <2>1. ~(j < i)
    BY <1>2, <1>7, <1>8, <1>9
  <2>2. i # j
    BY <1>7, <1>8, <1>9
  <2>3. QED
    BY <1>5, <1>7, <1>9, <2>1, <2>2
<1>11. i \in DOMAIN cs /\ cs[i] = a
  BY <1>5, <1>6, <1>7, <1>10
<1>12. Place(a, cs) = i /\ Place(b, cs) = j
  BY <1>4, <1>6, <1>11, OnePlace
<1>13. a \in Range(cs)
  BY <1>11 DEF Range
<1>14. QED
  BY <1>3, <1>10, <1>12, <1>13

OrderInv ==
    /\ lists \in Seq(HitLists)
    /\ Ranked
    /\ ScopeComesFirst
    /\ stage = "found" /\ hybrid => OrderIsKept(lists, chunks)

(* A search adds a list, and nothing is fused yet. *)
LEMMA SearchKeepsOrder ==
  ASSUME OrderInv, stage = "asked", scope # {},
         NEW limit \in Nat, hybrid => 1..limit \subseteq Ranks,
         NEW found, NEW hits \in RankedLists(found, limit),
         lists' = Append(lists, hits), UNCHANGED <<vars, scope>>
  PROVE  OrderInv'
<1>1. hits \in HitLists /\ Len(hits) <= limit /\ lists \in Seq(HitLists)
  BY DEF RankedLists, OrderInv
<1>2. hits \in Seq(Chunks)
  BY <1>1, HitListType
<1>3. lists' \in Seq(HitLists)
  BY <1>1
<1>4. UNCHANGED <<stage, hybrid>>
  BY DEF vars
<1>5. Ranked'
  <2> SUFFICES ASSUME hybrid, NEW i \in DOMAIN lists'
               PROVE  DOMAIN lists'[i] \subseteq Ranks
    BY <1>4 DEF Ranked
  <2>1. CASE i \in DOMAIN lists
    <3>1. lists'[i] = lists[i]
      BY <1>1, <2>1
    <3>2. QED
      BY <2>1, <3>1 DEF OrderInv, Ranked
  <2>2. CASE i \notin DOMAIN lists
    <3>1. lists'[i] = hits
      BY <1>1, <2>2
    <3>2. DOMAIN hits = 1..Len(hits) /\ Len(hits) \in Nat
      BY <1>2
    <3>3. DOMAIN hits \subseteq 1..limit
      BY <1>1, <3>2
    <3>4. QED
      BY <3>1, <3>3
  <2>3. QED
    BY <2>1, <2>2
<1>6. stage' = "asked" /\ scope' # {}
  BY <1>4
<1>7. QED
  BY <1>3, <1>5, <1>6 DEF OrderInv, ScopeComesFirst

(* Past the search the lists are as they were, or gone. *)
LEMMA AfterSearch ==
  ASSUME OrderInv, stage' \notin {"asked", "found"}, UNCHANGED hybrid,
         lists' = lists \/ lists' = <<>>
  PROVE  OrderInv'
<1>1. lists' \in Seq(HitLists) /\ Ranked'
  <2>1. CASE lists' = lists
    BY <2>1 DEF OrderInv, Ranked
  <2>2. CASE lists' = <<>>
    BY <2>2 DEF Ranked
  <2>3. QED
    BY <2>1, <2>2
<1>2. QED
  BY <1>1 DEF OrderInv, ScopeComesFirst

(* What RRF promises of any number of searches, for any limits: a chunk    *)
(* that no list puts behind another, and one before it, is handed on       *)
(* before it, and is not what the cut to the candidates takes away.        *)
THEOREM FusionKeepsOrder == RetrievalSpec => []BetterPlacedComesFirst
<1>1. RetrievalInit => OrderInv
  BY DEF RetrievalInit, Init, OrderInv, Ranked, ScopeComesFirst
<1>2. OrderInv /\ [RetrievalNext]_allVars => OrderInv'
  <2> SUFFICES ASSUME OrderInv, [RetrievalNext]_allVars PROVE OrderInv'
    OBVIOUS
  <2>1. CASE ResolveScope
    <3>1. lists = <<>> /\ lists' = <<>> /\ (stage' = "asked" => scope' # {})
      BY <2>1 DEF ResolveScope, OrderInv, ScopeComesFirst
    <3>2. lists' \in Seq(HitLists) /\ Ranked' /\ ScopeComesFirst'
      BY <3>1 DEF Ranked, ScopeComesFirst
    <3>3. OrderIsKept(<<>>, chunks')
      BY DEF OrderIsKept
    <3>4. QED
      BY <3>1, <3>2, <3>3 DEF OrderInv
  <2>2. CASE VectorSearch
    <3>1. PICK limit \in Nat : limit = IF hybrid THEN VectorTopK ELSE ContextLimit
      BY RanksAssumption, LimitsAssumption
    <3>2. hybrid => 1..limit \subseteq Ranks
      BY <3>1 DEF Ranks
    <3>3. PICK hits \in RankedLists(Searchable, limit) : lists' = Append(lists, hits)
      BY <2>2, <3>1 DEF VectorSearch
    <3>4. stage = "asked" /\ scope # {} /\ UNCHANGED <<vars, scope>>
      BY <2>2 DEF VectorSearch
    <3>5. QED
      BY <3>2, <3>3, <3>4, SearchKeepsOrder
  <2>3. CASE KeywordSearch
    <3>1. KeywordTopK \in Nat /\ 1..KeywordTopK \subseteq Ranks
      BY RanksAssumption DEF Ranks
    <3>2. PICK hits \in RankedLists(Searchable, KeywordTopK) : lists' = Append(lists, hits)
      BY <2>3 DEF KeywordSearch
    <3>3. stage = "asked" /\ scope # {} /\ UNCHANGED <<vars, scope>>
      BY <2>3 DEF KeywordSearch
    <3>4. QED
      BY <3>1, <3>2, <3>3, SearchKeepsOrder
  <2>4. CASE Fuse
    <3>1. stage' = "found" /\ UNCHANGED <<hybrid, lists>>
      BY <2>4 DEF Fuse, retrieval
    <3>2. hybrid => OrderIsKept(lists, chunks')
      BY <2>4, FuseKeepsOrder DEF OrderInv
    <3>3. Ranked' /\ ScopeComesFirst' /\ lists' \in Seq(HitLists)
      BY <3>1 DEF OrderInv, Ranked, ScopeComesFirst
    <3>4. hybrid' => OrderIsKept(lists', chunks')
      BY <3>1, <3>2
    <3>5. QED
      BY <3>3, <3>4 DEF OrderInv
  <2>5. CASE HydrateFound
    <3>1. stage' \notin {"asked", "found"} /\ UNCHANGED hybrid /\ lists' = <<>>
      BY <2>5 DEF HydrateFound, Hydrate
    <3>2. QED
      BY <3>1, AfterSearch
  <2>6. CASE Rerank /\ UNCHANGED retrieval
    <3>1. stage' \notin {"asked", "found"} /\ UNCHANGED <<hybrid, lists>>
      BY <2>6 DEF Rerank, Select, retrieval
    <3>2. QED
      BY <3>1, AfterSearch
  <2>7. CASE Generate /\ UNCHANGED retrieval
    <3>1. stage' \notin {"asked", "found"} /\ UNCHANGED <<hybrid, lists>>
      BY <2>7 DEF Generate, retrieval
    <3>2. QED
      BY <3>1, AfterSearch
  <2>8. CASE Validate /\ UNCHANGED retrieval
    <3>1. stage' \notin {"asked", "found"} /\ UNCHANGED <<hybrid, lists>>
      BY <2>8 DEF Validate, retrieval
    <3>2. QED
      BY <3>1, AfterSearch
  <2>9. CASE Fail /\ UNCHANGED retrieval
    <3>1. stage' \notin {"asked", "found"} /\ UNCHANGED <<hybrid, lists>>
      BY <2>9 DEF Fail, retrieval
    <3>2. QED
      BY <3>1, AfterSearch
  <2>10. CASE UNCHANGED allVars
    BY <2>10 DEF allVars, vars, retrieval, OrderInv, Ranked, ScopeComesFirst
  <2>11. QED
    BY <2>1, <2>2, <2>3, <2>4, <2>5, <2>6, <2>7, <2>8, <2>9, <2>10 DEF RetrievalNext
<1>3. OrderInv => BetterPlacedComesFirst
  BY OrderIsKeptIsTheProperty DEF OrderInv
<1>4. QED
  BY <1>1, <1>2, <1>3, PTL DEF RetrievalSpec

----------------------------------------------------------------------------
(* The vector store. *)
Phases == AtRest \cup {"called", "ensuring", "creating", "sending", "sent", "done"}

CallType == [op : Ops, file : FileIds, phase : Phases, found : BOOLEAN, applied : BOOLEAN]

(* Production never uses the dictionary. *)
DictionaryIsForTests == environment = "production" => memory = {}

(* A call that Qdrant has answered, or the dictionary, has had its effect: *)
(* but for a delete outside production.                                    *)
Answered(r) ==
    /\ r.phase = "called" => ~r.applied /\ ~r.found
    /\ r.phase \in {"sent", "done"} =>
           r.applied \/ (r.op = "delete" /\ environment # "production")
    /\ r.found => r.op = "search"

AnsweredIsApplied == \A c \in Calls : Answered(call[c])

CallsInv ==
    /\ call \in [Calls -> CallType]
    /\ DictionaryIsForTests
    /\ AnsweredIsApplied

(* What the caller sees of one call, when another record takes its place.  *)
LEMMA AskedOfOne ==
  ASSUME call \in [Calls -> CallType], NEW c \in Calls, NEW new \in CallType,
         call' = [call EXCEPT ![c] = new]
  PROVE  Asked' = [Asked EXCEPT ![c] =
             [op |-> new.op, file |-> new.file, found |-> new.found,
              state |-> IF new.phase \in AtRest THEN new.phase
                        ELSE IF new.applied THEN "done" ELSE "asked"]]
<1>1. call' = [d \in Calls |-> IF d = c THEN new ELSE call[d]]
  OBVIOUS
<1>2. \A d \in Calls : State(d)' = IF d = c THEN IF new.phase \in AtRest THEN new.phase
                        ELSE IF new.applied THEN "done" ELSE "asked" ELSE State(d)
  BY <1>1 DEF State
<1>3. QED
  BY <1>1, <1>2 DEF Asked

Held == points \cup memory

LEMMA AskedType ==
  ASSUME call \in [Calls -> CallType]
  PROVE  /\ Asked \in [Calls -> [op : Ops, file : FileIds, found : BOOLEAN,
                                 state : AtRest \cup {"asked", "done"}]]
         /\ \A c \in Calls : /\ Asked[c].op = call[c].op
                             /\ Asked[c].file = call[c].file
                             /\ Asked[c].found = call[c].found
                             /\ Asked[c].state = State(c)
<1>1. \A c \in Calls : State(c) \in AtRest \cup {"asked", "done"}
  BY DEF State
<1>2. QED
  BY <1>1 DEF Asked, CallType

(* The steps of PointStore, of a call that becomes another record.         *)
LEMMA Effect ==
  ASSUME call \in [Calls -> CallType], NEW c \in Calls, NEW new \in CallType,
         call' = [call EXCEPT ![c] = new],
         new.op = call[c].op, new.file = call[c].file, new.found = call[c].found,
         call[c].phase \notin AtRest, new.phase \notin AtRest, new.applied,
         environment' = environment,
         \/ new.op = "upsert" /\ Held' = Held \cup {new.file}
         \/ new.op = "delete" /\ Held' = Held \ {new.file}
  PROVE  Store!TakeEffect(c)
<1>1. Asked' = [Asked EXCEPT ![c] = [Asked[c] EXCEPT !.state = "done"]]
  <2> DEFINE seen == [op |-> new.op, file |-> new.file, found |-> new.found,
                      state |-> IF new.phase \in AtRest THEN new.phase
                                ELSE IF new.applied THEN "done" ELSE "asked"]
  <2>1. Asked' = [Asked EXCEPT ![c] = seen]
    BY AskedOfOne
  <2>2. Asked[c] \in [op : Ops, file : FileIds, found : BOOLEAN, state : AtRest \cup {"asked", "done"}]
    BY AskedType
  <2>3. Asked[c].op = call[c].op /\ Asked[c].file = call[c].file /\ Asked[c].found = call[c].found
    BY AskedType
  <2>4. seen = [Asked[c] EXCEPT !.state = "done"]
    BY <2>2, <2>3
  <2> QED
    BY <2>1, <2>4
<1>2. Asked[c].state \in {"asked", "done"}
  BY AskedType DEF State, AtRest
<1>3. Asked[c].op = new.op /\ Asked[c].file = new.file
  BY AskedType
<1>4. QED
  BY <1>1, <1>2, <1>3 DEF Store!TakeEffect, Store!Open, Held

LEMMA Looking ==
  ASSUME call \in [Calls -> CallType], NEW c \in Calls, NEW new \in CallType,
         call' = [call EXCEPT ![c] = new],
         new.op = "search", call[c].op = "search", new.file = call[c].file,
         call[c].phase \notin AtRest, new.phase \notin AtRest, new.applied,
         environment' = environment, Held' = Held,
         new.found => new.file \in Held,
         environment = "production" => new.found = (new.file \in Held)
  PROVE  Store!Look(c)
<1>1. Asked' = [Asked EXCEPT ![c] = [op |-> "search", file |-> Asked[c].file,
                                        state |-> "done", found |-> new.found]]
  <2> DEFINE seen == [op |-> new.op, file |-> new.file, found |-> new.found,
                      state |-> IF new.phase \in AtRest THEN new.phase
                                ELSE IF new.applied THEN "done" ELSE "asked"]
  <2>1. Asked' = [Asked EXCEPT ![c] = seen]
    BY AskedOfOne
  <2>2. Asked[c] \in [op : Ops, file : FileIds, found : BOOLEAN, state : AtRest \cup {"asked", "done"}]
    BY AskedType
  <2>3. Asked[c].op = call[c].op /\ Asked[c].file = call[c].file /\ Asked[c].found = call[c].found
    BY AskedType
  <2>4. seen = [op |-> "search", file |-> Asked[c].file, state |-> "done", found |-> new.found]
    BY <2>3
  <2> QED
    BY <2>1, <2>4
<1>2. Asked[c].state \in {"asked", "done"}
  BY AskedType DEF State, AtRest
<1>3. Asked[c].op = "search" /\ Asked[c].file = new.file /\ new.found \in BOOLEAN
  BY AskedType DEF CallType
<1>4. QED
  BY <1>1, <1>2, <1>3 DEF Store!Look, Store!Open, Held

LEMMA Failing ==
  ASSUME call \in [Calls -> CallType], NEW c \in Calls, NEW new \in CallType,
         call' = [call EXCEPT ![c] = new],
         new.op = call[c].op, new.file = call[c].file, new.found = call[c].found,
         call[c].phase \notin AtRest, new.phase = "failed",
         environment' = environment, Held' = Held
  PROVE  Store!Fail(c)
<1>1. Asked' = [Asked EXCEPT ![c] = [Asked[c] EXCEPT !.state = "failed"]]
  <2> DEFINE seen == [op |-> new.op, file |-> new.file, found |-> new.found,
                      state |-> IF new.phase \in AtRest THEN new.phase
                                ELSE IF new.applied THEN "done" ELSE "asked"]
  <2>1. Asked' = [Asked EXCEPT ![c] = seen]
    BY AskedOfOne
  <2>2. Asked[c] \in [op : Ops, file : FileIds, found : BOOLEAN, state : AtRest \cup {"asked", "done"}]
    BY AskedType
  <2>3. Asked[c].op = call[c].op /\ Asked[c].file = call[c].file /\ Asked[c].found = call[c].found
    BY AskedType
  <2>4. seen = [Asked[c] EXCEPT !.state = "failed"]
    BY <2>2, <2>3 DEF AtRest
  <2> QED
    BY <2>1, <2>4
<1>2. Asked[c].state \in {"asked", "done"}
  BY AskedType DEF State, AtRest
<1>3. QED
  BY <1>1, <1>2 DEF Store!Fail, Store!Open, Held

(* A call that moves on, and has no more effect than it had.               *)
LEMMA MovesOn ==
  ASSUME call \in [Calls -> CallType], NEW c \in Calls, NEW new \in CallType,
         call' = [call EXCEPT ![c] = new],
         new.op = call[c].op, new.file = call[c].file, new.found = call[c].found,
         new.applied = call[c].applied,
         call[c].phase \notin AtRest, new.phase \notin AtRest
  PROVE  Asked' = Asked
<1> DEFINE seen == [op |-> new.op, file |-> new.file, found |-> new.found,
                    state |-> IF new.phase \in AtRest THEN new.phase
                              ELSE IF new.applied THEN "done" ELSE "asked"]
<1>3. Asked' = [Asked EXCEPT ![c] = seen]
  BY AskedOfOne
<1>4. seen = Asked[c]
  BY DEF Asked, State
<1>1. Asked' = [Asked EXCEPT ![c] = Asked[c]]
  BY <1>3, <1>4
<1>2. QED
  BY <1>1, AskedType

LEMMA OneCallKeeps ==
  ASSUME CallsInv, NEW c \in Calls, NEW new \in CallType,
         call' = [call EXCEPT ![c] = new],
         environment' = environment, Answered(new),
         environment = "production" => memory' = {}
  PROVE  CallsInv'
<1>1. call' \in [Calls -> CallType]
  BY DEF CallsInv
<1>2. AnsweredIsApplied'
  <2>1. \A d \in Calls : call'[d] = IF d = c THEN new ELSE call[d]
    BY DEF CallsInv
  <2>2. QED
    BY <2>1 DEF CallsInv, AnsweredIsApplied, Answered
<1>3. DictionaryIsForTests'
  BY DEF DictionaryIsForTests
<1>4. QED
  BY <1>1, <1>2, <1>3 DEF CallsInv

Refines == [Store!StoreNext]_Store!storeVars

LEMMA OneCallRefines ==
  ASSUME NEW c \in Calls,
         \/ Store!Ask(c) \/ Store!TakeEffect(c) \/ Store!Look(c) \/ Store!Succeed(c) \/ Store!Fail(c)
  PROVE  Refines
BY DEF Refines, Store!StoreNext

LEMMA NoneSeen ==
  ASSUME Asked' = Asked, Held' = Held, environment' = environment
  PROVE  Refines
BY DEF Refines, Store!storeVars, Held

LEMMA BeginStep ==
  ASSUME CallsInv, NEW c \in Calls, Begin(c)
  PROVE  CallsInv' /\ Refines
<1>1. PICK op \in Ops, f \in FileIds : call' = [call EXCEPT ![c] = Call(op, f, "called")]
  BY DEF Begin
<1> DEFINE new == Call(op, f, "called")
<1>2. new \in CallType
  BY DEF Call, CallType, Phases
<1>3. Answered(new)
  BY DEF Call, Answered
<1>4. environment' = environment /\ memory' = memory /\ points' = points
  BY DEF Begin, settings
<1>5. CallsInv'
  BY <1>1, <1>2, <1>3, <1>4, OneCallKeeps DEF CallsInv, DictionaryIsForTests
<1>6. Asked' = [Asked EXCEPT ![c] = [op |-> op, file |-> f, state |-> "asked", found |-> FALSE]]
  <2>1. Asked' = [Asked EXCEPT ![c] =
             [op |-> new.op, file |-> new.file, found |-> new.found,
              state |-> IF new.phase \in AtRest THEN new.phase
                        ELSE IF new.applied THEN "done" ELSE "asked"]]
    BY <1>1, <1>2, AskedOfOne DEF CallsInv
  <2>2. QED
    BY <2>1 DEF Call, AtRest
<1>7. Asked[c].state = "idle"
  BY AskedType DEF CallsInv, State, Begin, AtRest
<1>8. Store!Ask(c)
  BY <1>4, <1>6, <1>7 DEF Store!Ask, Store!Ops, Ops
<1> QED
  BY <1>5, <1>8, OneCallRefines

LEMMA BecomesOther ==
  ASSUME CallsInv, NEW c \in Calls, NEW phase \in Phases, NEW found \in BOOLEAN, NEW applied \in BOOLEAN,
         Becomes(c, phase, found, applied)
  PROVE  /\ Became(c, phase, found, applied) \in CallType
         /\ call' = [call EXCEPT ![c] = Became(c, phase, found, applied)]
BY DEF Becomes, Became, CallsInv, CallType

(* Up to the request, and from its answer, nothing happens that is seen.   *)
LEMMA MoveStep ==
  ASSUME CallsInv, NEW c \in Calls, NEW phase \in {"creating", "sending", "done"}, Goes(c, phase),
         call[c].phase \notin AtRest \cup {"called"}, phase = "done" => call[c].phase = "sent",
         environment' = environment, points' = points, memory' = memory
  PROVE  CallsInv' /\ Refines
<1>1. PICK new : new = Became(c, phase, call[c].found, call[c].applied)
  OBVIOUS
<1>2. call[c] \in CallType
  BY DEF CallsInv
<1>3. new \in CallType /\ call' = [call EXCEPT ![c] = new]
  BY <1>1, <1>2, BecomesOther DEF Goes, Phases, CallType
<1>4. /\ new.op = call[c].op /\ new.file = call[c].file /\ new.found = call[c].found
      /\ new.applied = call[c].applied /\ new.phase = phase
  BY <1>1 DEF Became
<1>5. Answered(new)
  BY <1>4 DEF CallsInv, AnsweredIsApplied, Answered
<1>6. CallsInv'
  BY <1>3, <1>5, OneCallKeeps DEF CallsInv, DictionaryIsForTests
<1>7. Asked' = Asked
  <2>1. new.phase \notin AtRest /\ call[c].phase \notin AtRest
    BY <1>4 DEF AtRest
  <2> QED
    BY <1>3, <1>4, <2>1, MovesOn DEF CallsInv
<1> QED
  BY <1>6, <1>7, NoneSeen DEF Held

(* Qdrant cannot be used: the call fails, or the dictionary stands in.     *)
LEMMA RefusedStep ==
  ASSUME CallsInv, NEW c \in Calls, NEW mem, Refused(c, mem),
         call[c].phase \in {"called", "creating", "sending", "sent"},
         mem = memory \/ (call[c].op = "delete" /\ mem = memory \ {call[c].file}),
         environment' = environment, points' = points
  PROVE  CallsInv' /\ Refines
<1> DEFINE f == call[c].file
<1>0. call[c] \in CallType /\ call \in [Calls -> CallType]
  BY DEF CallsInv
<1>a. call[c].phase \notin AtRest
  BY DEF AtRest
<1>1. CASE ~AllowMemoryFallback /\ memory' = mem /\ Goes(c, "failed")
  <2>1. PICK new : new = Became(c, "failed", call[c].found, call[c].applied)
    OBVIOUS
  <2>2. new \in CallType /\ call' = [call EXCEPT ![c] = new]
    BY <1>0, <1>1, <2>1, BecomesOther DEF Goes, Phases, AtRest, CallType
  <2>3. /\ new.op = call[c].op /\ new.file = call[c].file /\ new.found = call[c].found
        /\ new.phase = "failed"
    BY <2>1 DEF Became
  <2>4. Answered(new)
    BY <2>3 DEF CallsInv, AnsweredIsApplied, Answered
  <2>5. memory = {} /\ memory' = {}
    BY <1>1 DEF AllowMemoryFallback, CallsInv, DictionaryIsForTests
  <2>6. CallsInv'
    BY <2>2, <2>4, <2>5, OneCallKeeps
  <2>7. Store!Fail(c)
    BY <1>0, <1>a, <2>2, <2>3, <2>5, Failing DEF Held
  <2> QED
    BY <2>6, <2>7, OneCallRefines
<1>2. CASE FallBack(c, mem)
  <2>1. PICK new : new = Became(c, "done", call[c].op = "search" /\ f \in mem,
                                call[c].applied \/ call[c].op # "delete" \/ f \notin points \cup mem)
    OBVIOUS
  <2>2. Becomes(c, "done", call[c].op = "search" /\ f \in mem,
                call[c].applied \/ call[c].op # "delete" \/ f \notin points \cup mem)
    BY <1>2 DEF FallBack
  <2>3. call' = [call EXCEPT ![c] = new]
    BY <2>1, <2>2 DEF Becomes
  <2>4. /\ new.op = call[c].op /\ new.file = f /\ new.phase = "done"
        /\ new.found <=> (call[c].op = "search" /\ f \in mem)
        /\ new.applied <=> (call[c].applied \/ call[c].op # "delete" \/ f \notin points \cup mem)
        /\ new.found \in BOOLEAN /\ new.applied \in BOOLEAN
    BY <2>1 DEF Became
  <2>5. new \in CallType
    <3>1. call[c].op \in Ops /\ f \in FileIds /\ "done" \in Phases
      BY <1>0 DEF CallType, Phases
    <3>2. QED
      BY <2>1, <2>4, <3>1 DEF Became, CallType
  <2>6. environment # "production"
    BY <1>2 DEF FallBack, AllowMemoryFallback
  <2>7. Answered(new)
    BY <2>4, <2>6 DEF Answered
  <2>8. CallsInv'
    BY <2>3, <2>5, <2>6, <2>7, OneCallKeeps
  <2>9. memory' = IF call[c].op = "upsert" THEN mem \cup {f} ELSE mem
    BY <1>2 DEF FallBack
  <2>10. new.phase \notin AtRest
    BY <2>4 DEF AtRest
  <2>11. CASE call[c].op = "upsert"
    <3>1. mem = memory /\ Held' = Held \cup {f}
      BY <2>9, <2>11 DEF Held
    <3>2. new.found = call[c].found
      <4>1. ~new.found
        BY <2>4, <2>11
      <4>2. ~call[c].found
        BY <2>11 DEF CallsInv, AnsweredIsApplied, Answered
      <4>3. call[c].found \in BOOLEAN /\ new.found \in BOOLEAN
        BY <1>0, <2>4 DEF CallType
      <4> QED
        BY <4>1, <4>2, <4>3
    <3>3. Store!TakeEffect(c)
      BY <1>0, <1>a, <2>3, <2>4, <2>5, <2>10, <2>11, <3>1, <3>2, Effect
    <3> QED
      BY <2>8, <3>3, OneCallRefines
  <2>12. CASE call[c].op = "search"
    <3>2. mem = memory /\ Held' = Held
      BY <2>9, <2>12 DEF Held
    <3>3. new.found => new.file \in Held
      BY <2>4, <3>2 DEF Held
    <3>4. Store!Look(c)
      BY <1>0, <1>a, <2>3, <2>4, <2>5, <2>6, <2>10, <2>12, <3>2, <3>3, Looking
    <3> QED
      BY <2>8, <3>4, OneCallRefines
  <2>13. CASE call[c].op = "delete"
    <3>1. memory' = mem /\ Held' = points \cup mem
      BY <2>9, <2>13 DEF Held
    <3>2. new.found = call[c].found
      <4>1. ~new.found
        BY <2>4, <2>13
      <4>2. ~call[c].found
        BY <2>13 DEF CallsInv, AnsweredIsApplied, Answered
      <4>3. call[c].found \in BOOLEAN /\ new.found \in BOOLEAN
        BY <1>0, <2>4 DEF CallType
      <4> QED
        BY <4>1, <4>2, <4>3
    <3>3. CASE f \notin points \cup mem
      <4>1. Held' = Held \ {f}
        BY <3>1, <3>3 DEF Held
      <4>2. new.applied
        BY <2>4, <3>3
      <4>3. Store!TakeEffect(c)
        BY <1>0, <1>a, <2>3, <2>4, <2>5, <2>10, <2>13, <3>2, <4>1, <4>2, Effect
      <4> QED
        BY <2>8, <4>3, OneCallRefines
    <3>4. CASE f \in points \cup mem
      <4>1. Held' = Held
        BY <3>1, <3>4 DEF Held
      <4>2. new.applied = call[c].applied
        <5>1. new.applied <=> call[c].applied
          BY <2>4, <2>13, <3>4
        <5>2. call[c].applied \in BOOLEAN
          BY <1>0 DEF CallType
        <5> QED
          BY <2>4, <5>1, <5>2
      <4>3. Asked' = Asked
        BY <1>0, <1>a, <2>3, <2>4, <2>5, <2>10, <3>2, <4>2, MovesOn
      <4> QED
        BY <2>8, <4>1, <4>3, NoneSeen
    <3> QED
      BY <3>3, <3>4
  <2> QED
    BY <1>0, <2>11, <2>12, <2>13 DEF CallType, Ops
<1> QED
  BY <1>1, <1>2 DEF Refused

LEMMA EnterStep ==
  ASSUME CallsInv, NEW c \in Calls, Enter(c)
  PROVE  CallsInv' /\ Refines
<1> DEFINE f == call[c].file
           mem == IF call[c].op = "delete" THEN memory \ {f} ELSE memory
<1>0. call[c] \in CallType /\ call \in [Calls -> CallType]
  BY DEF CallsInv
<1>1. environment' = environment /\ points' = points /\ call[c].phase = "called"
  BY DEF Enter, settings
<1>2. CASE Refused(c, mem)
  <2>1. PICK m : m = mem
    OBVIOUS
  <2>2. m = memory \/ (call[c].op = "delete" /\ m = memory \ {f})
    BY <2>1
  <2> QED
    BY <1>1, <1>2, <2>1, <2>2, RefusedStep
<1>3. CASE installed /\ memory' = mem
             /\ Becomes(c, "ensuring", FALSE, call[c].op = "delete" /\ f \notin points)
  <2>1. PICK new : new = Became(c, "ensuring", FALSE, call[c].op = "delete" /\ f \notin points)
    OBVIOUS
  <2>2. call' = [call EXCEPT ![c] = new]
    BY <1>3, <2>1 DEF Becomes
  <2>3. /\ new.op = call[c].op /\ new.file = f /\ new.phase = "ensuring" /\ new.found = FALSE
        /\ new.applied <=> (call[c].op = "delete" /\ f \notin points)
        /\ new.applied \in BOOLEAN
    BY <2>1 DEF Became
  <2>4. new \in CallType
    <3>1. call[c].op \in Ops /\ f \in FileIds /\ "ensuring" \in Phases
      BY <1>0 DEF CallType, Phases
    <3>2. QED
      BY <2>1, <2>3, <3>1 DEF Became, CallType
  <2>5. Answered(new)
    BY <2>3 DEF Answered
  <2>6. environment = "production" => memory' = {}
    BY <1>3 DEF CallsInv, DictionaryIsForTests
  <2>7. CallsInv'
    BY <1>1, <2>2, <2>4, <2>5, <2>6, OneCallKeeps
  <2>8. ~call[c].applied /\ ~call[c].found
    BY <1>1 DEF CallsInv, AnsweredIsApplied, Answered
  <2>9. call[c].applied \in BOOLEAN /\ call[c].found \in BOOLEAN
    BY <1>0 DEF CallType
  <2>10. new.found = call[c].found
    BY <2>3, <2>8, <2>9
  <2>11. new.phase \notin AtRest /\ call[c].phase \notin AtRest
    BY <1>1, <2>3 DEF AtRest
  <2>12. CASE call[c].op = "delete" /\ f \notin points
    <3>1. Held' = Held \ {f}
      BY <1>1, <1>3, <2>12 DEF Held
    <3>2. new.applied
      BY <2>3, <2>12
    <3>3. Store!TakeEffect(c)
      BY <1>0, <1>1, <2>2, <2>3, <2>4, <2>10, <2>11, <2>12, <3>1, <3>2, Effect
    <3> QED
      BY <2>7, <3>3, OneCallRefines
  <2>13. CASE ~(call[c].op = "delete" /\ f \notin points)
    <3>1. Held' = Held
      BY <1>1, <1>3, <2>13 DEF Held
    <3>2. ~new.applied
      BY <2>3, <2>13
    <3>3. new.applied = call[c].applied
      BY <2>3, <2>8, <2>9, <3>2
    <3>4. Asked' = Asked
      BY <1>0, <2>2, <2>3, <2>4, <2>10, <2>11, <3>3, MovesOn
    <3> QED
      BY <1>1, <2>7, <3>1, <3>4, NoneSeen
  <2> QED
    BY <2>12, <2>13
<1> QED
  BY <1>2, <1>3 DEF Enter

LEMMA QdrantActsStep ==
  ASSUME CallsInv, NEW c \in Calls, QdrantActs(c)
  PROVE  CallsInv' /\ Refines
<1> DEFINE f == call[c].file
<1>0. call[c] \in CallType /\ call \in [Calls -> CallType]
  BY DEF CallsInv
<1>1. environment' = environment /\ memory' = memory /\ call[c].phase = "sending"
  BY DEF QdrantActs, settings
<1>2. PICK new : new = Became(c, "sent", call[c].op = "search" /\ f \in points,
                              call[c].applied \/ call[c].op # "delete" \/ f \notin memory)
  OBVIOUS
<1>3. call' = [call EXCEPT ![c] = new]
  BY <1>2 DEF QdrantActs, Becomes
<1>4. /\ new.op = call[c].op /\ new.file = f /\ new.phase = "sent"
      /\ new.found <=> (call[c].op = "search" /\ f \in points)
      /\ new.applied <=> (call[c].applied \/ call[c].op # "delete" \/ f \notin memory)
      /\ new.found \in BOOLEAN /\ new.applied \in BOOLEAN
  BY <1>2 DEF Became
<1>5. new \in CallType
  <2>1. call[c].op \in Ops /\ f \in FileIds /\ "sent" \in Phases
    BY <1>0 DEF CallType, Phases
  <2>2. QED
    BY <1>2, <1>4, <2>1 DEF Became, CallType
<1>6. environment = "production" => memory = {}
  BY DEF CallsInv, DictionaryIsForTests
<1>7. Answered(new)
  BY <1>4, <1>6 DEF Answered
<1>8. CallsInv'
  BY <1>1, <1>3, <1>5, <1>6, <1>7, OneCallKeeps
<1>9. new.phase \notin AtRest /\ call[c].phase \notin AtRest
  BY <1>1, <1>4 DEF AtRest
<1>10. ASSUME call[c].op # "search"
       PROVE  new.found = call[c].found
  <2>1. ~new.found
    BY <1>4, <1>10
  <2>2. ~call[c].found
    BY <1>10 DEF CallsInv, AnsweredIsApplied, Answered
  <2>3. call[c].found \in BOOLEAN /\ new.found \in BOOLEAN
    BY <1>0, <1>4 DEF CallType
  <2> QED
    BY <2>1, <2>2, <2>3
<1>11. CASE call[c].op = "upsert"
  <2>1. Held' = Held \cup {f}
    BY <1>1, <1>11 DEF QdrantActs, Held
  <2>2. new.found = call[c].found
    BY <1>10, <1>11
  <2>3. new.applied
    BY <1>4, <1>11
  <2>4. Store!TakeEffect(c)
    BY <1>0, <1>1, <1>3, <1>4, <1>5, <1>9, <1>11, <2>1, <2>2, <2>3, Effect
  <2> QED
    BY <1>8, <2>4, OneCallRefines
<1>12. CASE call[c].op = "search"
  <2>1. Held' = Held
    BY <1>1, <1>12 DEF QdrantActs, Held
  <2>2. new.found => new.file \in Held
    BY <1>4 DEF Held
  <2>3. environment = "production" => new.found = (new.file \in Held)
    <3> SUFFICES ASSUME environment = "production"
                 PROVE  new.found = (new.file \in Held)
      OBVIOUS
    <3>1. Held = points
      BY <1>6 DEF Held
    <3>2. new.found <=> new.file \in Held
      BY <1>4, <1>12, <3>1
    <3> QED
      BY <1>4, <3>2
  <2>4. new.applied
    BY <1>4, <1>12
  <2>5. Store!Look(c)
    BY <1>0, <1>1, <1>3, <1>4, <1>5, <1>9, <1>12, <2>1, <2>2, <2>3, <2>4, Looking
  <2> QED
    BY <1>8, <2>5, OneCallRefines
<1>13. CASE call[c].op = "delete"
  <2>1. points' = points \ {f}
    BY <1>13 DEF QdrantActs
  <2>2. new.found = call[c].found
    BY <1>10, <1>13
  <2>3. CASE f \notin memory
    <3>1. Held' = Held \ {f}
      BY <1>1, <2>1, <2>3 DEF Held
    <3>2. new.applied
      BY <1>4, <2>3
    <3>3. Store!TakeEffect(c)
      BY <1>0, <1>1, <1>3, <1>4, <1>5, <1>9, <1>13, <2>2, <3>1, <3>2, Effect
    <3> QED
      BY <1>8, <3>3, OneCallRefines
  <2>4. CASE f \in memory
    <3>1. Held' = Held
      BY <1>1, <2>1, <2>4 DEF Held
    <3>2. new.applied = call[c].applied
      <4>1. new.applied <=> call[c].applied
        BY <1>4, <1>13, <2>4
      <4>2. call[c].applied \in BOOLEAN
        BY <1>0 DEF CallType
      <4> QED
        BY <1>4, <4>1, <4>2
    <3>3. Asked' = Asked
      BY <1>0, <1>3, <1>4, <1>5, <1>9, <2>2, <3>2, MovesOn
    <3> QED
      BY <1>1, <1>8, <3>1, <3>3, NoneSeen
  <2> QED
    BY <2>3, <2>4
<1> QED
  BY <1>0, <1>11, <1>12, <1>13 DEF CallType, Ops

LEMMA ReturnStep ==
  ASSUME CallsInv, NEW c \in Calls, Return(c)
  PROVE  CallsInv' /\ Refines
<1>0. call[c] \in CallType /\ call \in [Calls -> CallType]
  BY DEF CallsInv
<1>1. environment' = environment /\ memory' = memory /\ points' = points /\ call[c].phase = "done"
  BY DEF Return, settings
<1>2. PICK new : new = Became(c, "ok", call[c].found, call[c].applied)
  OBVIOUS
<1>3. new \in CallType /\ call' = [call EXCEPT ![c] = new]
  BY <1>0, <1>2, BecomesOther DEF Return, Goes, Phases, AtRest, CallType
<1>4. /\ new.op = call[c].op /\ new.file = call[c].file /\ new.phase = "ok"
      /\ new.found = call[c].found
  BY <1>2 DEF Became
<1>5. Answered(new)
  BY <1>4 DEF CallsInv, AnsweredIsApplied, Answered
<1>6. CallsInv'
  BY <1>1, <1>3, <1>5, OneCallKeeps DEF CallsInv, DictionaryIsForTests
<1>7. Asked' = [Asked EXCEPT ![c] = [Asked[c] EXCEPT !.state = "ok"]]
  <2> DEFINE seen == [op |-> new.op, file |-> new.file, found |-> new.found,
                      state |-> IF new.phase \in AtRest THEN new.phase
                                ELSE IF new.applied THEN "done" ELSE "asked"]
  <2>1. Asked' = [Asked EXCEPT ![c] = seen]
    BY <1>0, <1>3, AskedOfOne
  <2>2. Asked[c] \in [op : Ops, file : FileIds, found : BOOLEAN, state : AtRest \cup {"asked", "done"}]
    BY <1>0, AskedType
  <2>3. Asked[c].op = call[c].op /\ Asked[c].file = call[c].file /\ Asked[c].found = call[c].found
    BY <1>0, AskedType
  <2>4. seen = [Asked[c] EXCEPT !.state = "ok"]
    BY <1>4, <2>2, <2>3 DEF AtRest
  <2> QED
    BY <2>1, <2>4
<1>8. Asked[c].op = call[c].op /\ Asked[c].state = State(c)
  BY <1>0, AskedType
<1>9. State(c) = IF call[c].applied THEN "done" ELSE "asked"
  BY <1>1 DEF State, AtRest
<1>10. call[c].applied \/ (call[c].op = "delete" /\ environment # "production")
  BY <1>1 DEF CallsInv, AnsweredIsApplied, Answered
<1>11. Store!Succeed(c)
  BY <1>1, <1>7, <1>8, <1>9, <1>10 DEF Store!Succeed
<1> QED
  BY <1>6, <1>11, OneCallRefines

LEMMA RestartStep ==
  ASSUME CallsInv, Restart
  PROVE  CallsInv' /\ Refines
<1>1. /\ environment' = environment /\ points' = points /\ memory' = {}
      /\ call' = [c \in Calls |-> IF call[c].phase \in AtRest THEN call[c]
                                  ELSE Became(c, "failed", call[c].found, call[c].applied)]
  BY DEF Restart, settings
<1>2. \A c \in Calls : /\ call[c] \in CallType
                       /\ Became(c, "failed", call[c].found, call[c].applied) \in CallType
  BY DEF CallsInv, CallType, Became, Phases, AtRest
<1>3. call' \in [Calls -> CallType]
  BY <1>1, <1>2
<1>4. AnsweredIsApplied'
  BY <1>1, <1>2 DEF CallsInv, AnsweredIsApplied, Answered, Became
<1>5. CallsInv'
  BY <1>1, <1>3, <1>4 DEF CallsInv, DictionaryIsForTests
<1>6. \A c \in Calls : State(c)' = IF State(c) \in {"asked", "done"} THEN "failed" ELSE State(c)
  BY <1>1 DEF State, Became, AtRest
<1>7. Asked' = [c \in Calls |-> IF Asked[c].state \in {"asked", "done"}
                                THEN [Asked[c] EXCEPT !.state = "failed"] ELSE Asked[c]]
  <2>1. \A c \in Calls : /\ call'[c].op = call[c].op /\ call'[c].file = call[c].file
                         /\ call'[c].found = call[c].found
    BY <1>1 DEF Became
  <2>2. \A c \in Calls : Asked[c].state = State(c)
    BY AskedType DEF CallsInv
  <2>3. ASSUME NEW c \in Calls
        PROVE  [op |-> call'[c].op, file |-> call'[c].file, state |-> State(c)', found |-> call'[c].found]
               = IF Asked[c].state \in {"asked", "done"}
                   THEN [Asked[c] EXCEPT !.state = "failed"] ELSE Asked[c]
    BY <1>6, <2>1, <2>2 DEF Asked
  <2> QED
    BY <2>3 DEF Asked
<1>8. Held' \in SUBSET Held /\ (environment = "production" => Held' = Held)
  BY <1>1 DEF Held, CallsInv, DictionaryIsForTests
<1>9. Store!Restart
  BY <1>1, <1>7, <1>8 DEF Store!Restart, Store!Open, Held
<1> QED
  BY <1>5, <1>9 DEF Refines, Store!StoreNext

LEMMA StoreStart == VectorInit => CallsInv /\ Store!StoreInit
<1> SUFFICES ASSUME VectorInit PROVE CallsInv /\ Store!StoreInit
  OBVIOUS
<1>1. PICK f \in FileIds : call = [c \in Calls |-> Call("upsert", f, "idle")]
  BY DEF VectorInit
<1>2. Call("upsert", f, "idle") \in CallType /\ Answered(Call("upsert", f, "idle"))
  BY DEF Call, CallType, Ops, Phases, AtRest, Answered
<1>3. call \in [Calls -> CallType] /\ AnsweredIsApplied
  BY <1>1, <1>2 DEF AnsweredIsApplied
<1>4. DictionaryIsForTests /\ Held = {}
  BY DEF VectorInit, DictionaryIsForTests, Held
<1>5. Asked = [c \in Calls |-> [op |-> "upsert", file |-> f, state |-> "idle", found |-> FALSE]]
  BY <1>1 DEF Asked, State, Call, AtRest
<1>6. Store!StoreInit
  BY <1>4, <1>5 DEF Store!StoreInit, Store!Unasked, Held
<1> QED
  BY <1>3, <1>4, <1>6 DEF CallsInv

LEMMA StoreStep == CallsInv /\ [VectorNext]_vectorVars => CallsInv' /\ Refines
<1> SUFFICES ASSUME CallsInv, [VectorNext]_vectorVars PROVE CallsInv' /\ Refines
  OBVIOUS
<1>1. ASSUME NEW c \in Calls, Begin(c) PROVE CallsInv' /\ Refines
  BY <1>1, BeginStep
<1>2. ASSUME NEW c \in Calls, Enter(c) PROVE CallsInv' /\ Refines
  BY <1>2, EnterStep
<1>3. ASSUME NEW c \in Calls, GetCollection(c) PROVE CallsInv' /\ Refines
  <2>1. call[c].phase \notin AtRest \cup {"called"}
    BY <1>3 DEF GetCollection, AtRest
  <2> QED
    BY <1>3, <2>1, MoveStep DEF GetCollection, settings
<1>4. ASSUME NEW c \in Calls, CreateCollection(c) PROVE CallsInv' /\ Refines
  <2>1. call[c].phase \notin AtRest \cup {"called"}
    BY <1>4 DEF CreateCollection, AtRest
  <2> QED
    BY <1>4, <2>1, MoveStep DEF CreateCollection, settings
<1>5. ASSUME NEW c \in Calls, CreateFails(c) PROVE CallsInv' /\ Refines
  BY <1>5, RefusedStep DEF CreateFails, settings
<1>6. ASSUME NEW c \in Calls, QdrantActs(c) PROVE CallsInv' /\ Refines
  BY <1>6, QdrantActsStep
<1>7. ASSUME NEW c \in Calls, QdrantAnswers(c) PROVE CallsInv' /\ Refines
  <2>1. call[c].phase \notin AtRest \cup {"called"} /\ call[c].phase = "sent"
    BY <1>7 DEF QdrantAnswers, AtRest
  <2> QED
    BY <1>7, <2>1, MoveStep DEF QdrantAnswers, settings
<1>8. ASSUME NEW c \in Calls, QdrantFails(c) PROVE CallsInv' /\ Refines
  BY <1>8, RefusedStep DEF QdrantFails, settings
<1>9. ASSUME NEW c \in Calls, Return(c) PROVE CallsInv' /\ Refines
  BY <1>9, ReturnStep
<1>10. CASE Restart
  BY <1>10, RestartStep
<1>11. CASE UNCHANGED vectorVars
  <2>1. environment' = environment /\ points' = points /\ memory' = memory /\ call' = call
    BY <1>11 DEF vectorVars
  <2>2. Asked' = Asked
    BY <2>1 DEF Asked, State
  <2>3. CallsInv'
    BY <2>1 DEF CallsInv, DictionaryIsForTests, AnsweredIsApplied, Answered
  <2> QED
    BY <2>1, <2>2, <2>3, NoneSeen DEF Held
<1> QED
  BY <1>1, <1>2, <1>3, <1>4, <1>5, <1>6, <1>7, <1>8, <1>9, <1>10, <1>11 DEF VectorNext

(* Whatever the files and however many calls: QdrantVectorStore is the     *)
(* store that Ingestion and Retrieval assume.                              *)
THEOREM StoreIsRefined == VectorSpec => ImplementsPointStore
<1>1. VectorInit => CallsInv /\ Store!StoreInit
  BY StoreStart
<1>2. CallsInv /\ [VectorNext]_vectorVars => CallsInv' /\ [Store!StoreNext]_Store!storeVars
  BY StoreStep DEF Refines
<1> QED
  BY <1>1, <1>2, PTL DEF VectorSpec, ImplementsPointStore, Store!StoreSpec
=============================================================================
