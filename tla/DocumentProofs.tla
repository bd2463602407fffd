--------------------------- MODULE DocumentProofs ---------------------------
(***************************************************************************)
(* The chunks of MarkdownChunks, for any set of texts and any sizes, and   *)
(* the windows of TextWindows, for any documents, window size and overlap. *)
(***************************************************************************)
EXTENDS DocumentChunks, TLAPS, SequenceTheorems, FiniteSetTheorems, WellFoundedInduction

Entries == [level : 1 .. 3, title : Lines]
ChunkType == [path : Seq(Lines), start : Lines, end : Lines, body : Seq(Spans)]

PathBefore(i) == IF i = 1 THEN <<>> ELSE blocks[i - 1].path

(* A block that is no title is under the titles of the block before it. *)
PathsFollow ==
    /\ blocks = <<>> => Titles(stack) = <<>>
    /\ blocks # <<>> => blocks[Len(blocks)].path = Titles(stack)
    /\ \A i \in DOMAIN blocks : blocks[i].type # "heading" => blocks[i].path = PathBefore(i)

ParserInv ==
    /\ lines \in Documents
    /\ at \in 1 .. Len(lines) + 1
    /\ stack \in Seq(Entries)
    /\ blocks \in Seq(Spans)
    /\ \A i \in DOMAIN blocks : blocks[i].first <= blocks[i].last /\ blocks[i].last < at
    /\ EveryLineInOneBlock
    /\ PathsFollow

LEMMA LinesType == ASSUME lines \in Documents PROVE lines \in Seq(Kinds) /\ Len(lines) \in Nat
BY DocumentsAssumption

LEMMA TitlesType ==
    ASSUME NEW s \in Seq(Entries) PROVE Titles(s) \in Seq(Lines)
<1>1. Len(s) \in Nat /\ DOMAIN s = 1 .. Len(s) /\ \A i \in 1 .. Len(s) : s[i] \in Entries
  OBVIOUS
<1>2. \A i \in 1 .. Len(s) : s[i].title \in Lines
  BY <1>1 DEF Entries
<1> QED
  BY <1>1, <1>2 DEF Titles

LEMMA LevelType ==
    ASSUME NEW k \in Atx \cup Underlines PROVE Level(k) \in 1 .. 3
BY DEF Level

LEMMA HeadingPathType ==
    ASSUME stack \in Seq(Entries), NEW level \in 1 .. 3, NEW title \in Lines
    PROVE  HeadingPath(level, title) \in Seq(Entries)
<1> DEFINE Open == {i \in DOMAIN stack : stack[i].level < level}
           kept == SubSeq(stack, 1, Cardinality(Open))
           entry == [level |-> level, title |-> title]
<1>1. Len(stack) \in Nat /\ DOMAIN stack = 1 .. Len(stack)
  OBVIOUS
<1>2. IsFiniteSet(1 .. Len(stack)) /\ Cardinality(1 .. Len(stack)) = Len(stack)
  BY <1>1, FS_Interval
<1>3. Cardinality(Open) \in 0 .. Len(stack)
  <2>1. Open \subseteq 1 .. Len(stack)
    BY <1>1
  <2>2. IsFiniteSet(Open) /\ Cardinality(Open) <= Len(stack)
    BY <1>2, <2>1, FS_Subset
  <2> QED
    BY <1>1, <2>2, FS_CardinalityType
<1>4. kept \in Seq(Entries)
  <2> HIDE DEF Open
  <2> QED
    BY <1>1, <1>3
<1>5. entry \in Entries
  BY DEF Entries
<1>6. Append(kept, entry) \in Seq(Entries)
  <2> HIDE DEF kept, entry
  <2> QED
    BY <1>4, <1>5
<1> QED
  BY <1>6 DEF HeadingPath

(* Every branch that adds a block covers the lines it passes over. *)
LEMMA AddBlockKeeps ==
    ASSUME ParserInv, at <= Len(lines),
           NEW type \in {"heading", "list", "blockquote", "paragraph"} \cup Whole,
           NEW level \in 0 .. 3, NEW j \in at .. Len(lines), NEW s \in Seq(Entries),
           type # "heading" => s = stack,
           AddBlock(type, level, at, j, s), at' = j + 1
    PROVE  ParserInv'
<1>1. PICK last \in at .. j :
        /\ lines[last] # "blank"
        /\ \A k \in last + 1 .. j : lines[k] = "blank"
        /\ blocks' = Append(blocks, [type |-> type, level |-> level,
                                     first |-> at, last |-> last, path |-> Titles(s)])
  BY DEF AddBlock
<1> DEFINE new == [type |-> type, level |-> level, first |-> at, last |-> last, path |-> Titles(s)]
<1>2. lines' = lines /\ stack' = s /\ Lines' = Lines /\ Entries' = Entries /\ Spans' = Spans
  BY DEF AddBlock, Lines, Entries, Spans
<1>3. Len(lines) \in Nat /\ at \in Nat \ {0} /\ j \in Nat /\ last \in Lines /\ at \in Lines
  BY LinesType DEF ParserInv, Lines
<1>4. new \in Spans
  BY <1>3, TitlesType DEF Spans
<1>5. /\ blocks \in Seq(Spans) /\ Len(blocks) \in Nat /\ DOMAIN blocks = 1 .. Len(blocks)
      /\ blocks' \in Seq(Spans) /\ Len(blocks') = Len(blocks) + 1
      /\ DOMAIN blocks' = 1 .. Len(blocks) + 1
      /\ \A i \in DOMAIN blocks : blocks'[i] = blocks[i]
      /\ blocks'[Len(blocks) + 1] = new
  <2>1. blocks \in Seq(Spans) /\ blocks' = Append(blocks, new)
    BY <1>1 DEF ParserInv
  <2> HIDE DEF new
  <2> QED
    BY <1>4, <2>1
<1>6. \A i \in DOMAIN blocks : blocks[i] \in Spans /\ blocks[i].first \in Int /\ blocks[i].last \in Int
  <2>1. \A b \in Spans : b.first \in Int /\ b.last \in Int
    BY DEF Spans, Lines
  <2> QED
    BY <1>5, <2>1
<1>7. new.first = at /\ new.last = last /\ new.path = Titles(s) /\ new.type = type
  OBVIOUS
<1> HIDE DEF new
<1>8. at' \in 1 .. Len(lines') + 1 /\ stack' \in Seq(Entries)'
  BY <1>2, <1>3
<1>9. \A i \in DOMAIN blocks' : blocks'[i].first <= blocks'[i].last /\ blocks'[i].last < at'
  <2>1. new.first <= new.last /\ new.last < at'
    BY <1>3, <1>7
  <2>2. \A i \in DOMAIN blocks : blocks[i].first <= blocks[i].last /\ blocks[i].last < at
    BY DEF ParserInv
  <2> QED
    BY <1>3, <1>5, <1>6, <2>1, <2>2
<1>10. EveryLineInOneBlock'
  <2>1. ASSUME NEW k \in 1 .. at' - 1, lines[k] # "blank"
        PROVE  \E i \in DOMAIN blocks' : k \in blocks'[i].first .. blocks'[i].last
    <3>1. CASE k < at
      <4>1. \E i \in DOMAIN blocks : k \in blocks[i].first .. blocks[i].last
        BY <1>3, <2>1, <3>1 DEF ParserInv, EveryLineInOneBlock
      <4> QED
        BY <1>5, <4>1
    <3>2. CASE k >= at
      <4>1. k \in at .. last
        BY <1>1, <1>3, <2>1, <3>2
      <4> QED
        BY <1>5, <1>7, <4>1
    <3> QED
      BY <1>3, <2>1, <3>1, <3>2
  <2>2. ASSUME NEW i \in DOMAIN blocks', NEW k \in DOMAIN blocks', i < k
        PROVE  blocks'[i].last < blocks'[k].first
    <3>1. CASE k \in DOMAIN blocks
      <4>1. i \in DOMAIN blocks /\ blocks[i].last < blocks[k].first
        BY <1>5, <2>2, <3>1 DEF ParserInv, EveryLineInOneBlock
      <4> QED
        BY <1>5, <3>1, <4>1
    <3>2. CASE k = Len(blocks) + 1
      <4>1. i \in DOMAIN blocks /\ blocks[i].last < at
        BY <1>5, <2>2, <3>2 DEF ParserInv
      <4> QED
        BY <1>5, <1>7, <3>2, <4>1
    <3> QED
      BY <1>5, <3>1, <3>2
  <2> QED
    BY <1>2, <2>1, <2>2 DEF EveryLineInOneBlock
<1>11. PathsFollow'
  <2>1. blocks' # <<>> /\ blocks'[Len(blocks')].path = Titles(stack')
    BY <1>2, <1>5, <1>7
  <2>2. ASSUME NEW i \in DOMAIN blocks', blocks'[i].type # "heading"
        PROVE  blocks'[i].path = PathBefore(i)'
    <3>1. CASE i \in DOMAIN blocks
      <4>1. blocks[i].path = PathBefore(i)
        BY <1>5, <2>2, <3>1 DEF ParserInv, PathsFollow
      <4>2. i = 1 \/ (i - 1 \in DOMAIN blocks /\ blocks'[i - 1] = blocks[i - 1])
        BY <1>5, <3>1
      <4> QED
        BY <1>5, <3>1, <4>1, <4>2 DEF PathBefore
    <3>2. CASE i = Len(blocks) + 1
      <4>1. blocks'[i].path = Titles(stack)
        BY <1>5, <1>7, <2>2, <3>2
      <4>2. CASE Len(blocks) = 0
        <5>1. blocks = <<>>
          BY <1>5, <4>2
        <5> QED
          BY <3>2, <4>1, <4>2, <5>1 DEF ParserInv, PathsFollow, PathBefore
      <4>3. CASE Len(blocks) # 0
        <5>1. blocks # <<>> /\ i # 1 /\ i - 1 = Len(blocks) /\ blocks'[i - 1] = blocks[i - 1]
          BY <1>5, <3>2, <4>3
        <5>2. blocks[i - 1].path = Titles(stack)
          BY <5>1 DEF ParserInv, PathsFollow
        <5> QED
          BY <4>1, <5>1, <5>2 DEF PathBefore
      <4> QED
        BY <4>2, <4>3
    <3> QED
      BY <1>5, <3>1, <3>2
  <2> QED
    BY <2>1, <2>2 DEF PathsFollow
<1> QED
  <2>1. lines' \in Documents
    BY <1>2 DEF ParserInv
  <2>2. blocks' \in Seq(Spans)'
    BY <1>2, <1>5
  <2> QED
    BY <1>8, <1>9, <1>10, <1>11, <2>1, <2>2 DEF ParserInv

LEMMA ParseKeeps == ParserInv /\ ParseStep => ParserInv'
<1> SUFFICES ASSUME ParserInv, ParseStep PROVE ParserInv'
  OBVIOUS
<1>1. /\ Len(lines) \in Nat /\ at \in 1 .. Len(lines) /\ at \in Lines
      /\ at <= Len(lines) /\ stack \in Seq(Entries)
  BY LinesType DEF ParserInv, ParseStep, Lines
<1>2. CASE SkipBlank
  <2>1. lines[at] = "blank"
    BY <1>2 DEF SkipBlank, Starts
  <2>2. lines' = lines /\ stack' = stack /\ blocks' = blocks /\ at' = at + 1
    BY <1>2 DEF SkipBlank
  <2>3. Lines' = Lines /\ Entries' = Entries /\ Spans' = Spans
    BY <2>2 DEF Lines, Entries, Spans
  <2>4. \A i \in DOMAIN blocks : blocks[i].last \in Int
    <3>1. \A b \in Spans : b.last \in Int
      BY DEF Spans, Lines
    <3> QED
      BY <3>1 DEF ParserInv
  <2>5. EveryLineInOneBlock'
    BY <1>1, <2>1, <2>2 DEF ParserInv, EveryLineInOneBlock
  <2>6. PathsFollow'
    BY <2>2 DEF ParserInv, PathsFollow, PathBefore
  <2> QED
    BY <1>1, <2>2, <2>3, <2>4, <2>5, <2>6 DEF ParserInv
<1>3. CASE AtxHeading
  <2> DEFINE level == Level(lines[at])
  <2>1. lines[at] \in Atx
    BY <1>3, <1>1 DEF AtxHeading, Starts
  <2>2. level \in 1 .. 3
    BY <2>1, LevelType
  <2>3. AddBlock("heading", level, at, at, HeadingPath(level, at)) /\ at' = at + 1
    BY <1>3 DEF AtxHeading
  <2>4. HeadingPath(level, at) \in Seq(Entries)
    BY <1>1, <2>2, HeadingPathType
  <2> HIDE DEF level
  <2> QED
    BY <1>1, <2>2, <2>3, <2>4, AddBlockKeeps
<1>4. CASE SetextHeading
  <2> DEFINE level == Level(lines[at + 1])
  <2>1. IsSetextHeading(at)
    BY <1>4, <1>1 DEF SetextHeading, Starts
  <2>2. level \in 1 .. 3 /\ at + 1 \in at .. Len(lines)
    BY <1>1, <2>1, LevelType DEF IsSetextHeading
  <2>3. AddBlock("heading", level, at, at + 1, HeadingPath(level, at)) /\ at' = (at + 1) + 1
    BY <1>1, <1>4 DEF SetextHeading
  <2>4. HeadingPath(level, at) \in Seq(Entries)
    BY <1>1, <2>2, HeadingPathType
  <2> HIDE DEF level
  <2> QED
    BY <1>1, <2>2, <2>3, <2>4, AddBlockKeeps
<1>5. CASE EnclosedBlock
  <2>0. PICK type : type = Starts(at)
    OBVIOUS
  <2>1. PICK j \in at .. Len(lines) : AddBlock(type, 0, at, j, stack) /\ at' = j + 1
    BY <1>5, <2>0 DEF EnclosedBlock
  <2>2. type \in {"front_matter", "code", "html_block"}
    BY <1>5, <2>0 DEF EnclosedBlock
  <2>3. type \in {"heading", "list", "blockquote", "paragraph"} \cup Whole
    BY <2>2 DEF Whole
  <2> QED
    BY <1>1, <2>1, <2>3, AddBlockKeeps
<1>6. CASE Table
  <2>1. PICK j \in at + 1 .. Len(lines) : AddBlock("table", 0, at, j, stack) /\ at' = j + 1
    BY <1>6 DEF Table
  <2>2. j \in at .. Len(lines) /\ "table" \in Whole
    BY <1>1 DEF Whole
  <2> QED
    BY <1>1, <2>1, <2>2, AddBlockKeeps
<1>7. CASE ListOrQuote
  <2>0. PICK type : type = Starts(at)
    OBVIOUS
  <2>1. PICK j \in at .. Len(lines) : AddBlock(type, 0, at, j, stack) /\ at' = j + 1
    BY <1>7, <2>0 DEF ListOrQuote
  <2>2. type \in {"list", "blockquote"}
    BY <1>7, <2>0 DEF ListOrQuote
  <2> QED
    BY <1>1, <2>1, <2>2, AddBlockKeeps
<1>8. CASE Paragraph
  <2>1. PICK j \in at .. Len(lines) : AddBlock("paragraph", 0, at, j, stack) /\ at' = j + 1
    BY <1>8 DEF Paragraph
  <2> QED
    BY <1>1, <2>1, AddBlockKeeps
<1> QED
  BY <1>2, <1>3, <1>4, <1>5, <1>6, <1>7, <1>8 DEF ParseStep

----------------------------------------------------------------------------
(* What the chunker has so far: cs the chunks, gs the blocks gathered under*)
(* path p, and f the line before which it has seen everything.             *)

Holds(bs, k) == \E i \in DOMAIN bs : k \in bs[i].first .. bs[i].last
InOrder(bs) == \A i, j \in DOMAIN bs : i < j => bs[i].last < bs[j].first

GoodGathered(gs, p, f) ==
    /\ gs \in Seq(Spans)
    /\ \A i \in DOMAIN gs :
          /\ gs[i].path = p /\ gs[i].first <= gs[i].last /\ gs[i].last < f
          /\ \A h \in Headings : blocks[h].first < f => blocks[h].last < gs[i].first
    /\ InOrder(gs)

GoodChunk(c, f) ==
    /\ c \in ChunkType /\ c.start <= c.end /\ c.end < f
    /\ \A i \in DOMAIN c.body : c.body[i].path = c.path
    /\ InOrder(c.body)
    /\ \A h \in Headings : blocks[h].first \notin c.start .. c.end

GoodChunks(cs, f) ==
    /\ cs \in Seq(ChunkType)
    /\ \A i \in DOMAIN cs : GoodChunk(cs[i], f)
    /\ \A i, j \in DOMAIN cs : i < j => cs[i].end < cs[j].start

Before(cs, gs) == \A i \in DOMAIN cs, j \in DOMAIN gs : cs[i].end < gs[j].first

Covered(cs, gs, f) ==
    \A b \in DOMAIN blocks : blocks[b].type # "heading" =>
        \A k \in blocks[b].first .. blocks[b].last :
            k < f => Holds(gs, k) \/ \E i \in DOMAIN cs : Holds(cs[i].body, k)

Good(cs, gs, p, f) ==
    GoodGathered(gs, p, f) /\ GoodChunks(cs, f) /\ Before(cs, gs) /\ Covered(cs, gs, f)

LEMMA SpanTypes ==
    ASSUME lines \in Documents
    PROVE  /\ \A b \in Spans : b.first \in Int /\ b.last \in Int /\ b.first \in Lines
                                /\ b.last \in Lines /\ b.path \in Seq(Lines)
           /\ \A c \in ChunkType : c.start \in Int /\ c.end \in Int /\ c.body \in Seq(Spans)
           /\ Len(lines) \in Nat
<1>1. Len(lines) \in Nat
  BY LinesType
<1>2. \A b \in Spans : b.first \in Int /\ b.last \in Int /\ b.first \in Lines
                       /\ b.last \in Lines /\ b.path \in Seq(Lines)
  BY <1>1 DEF Spans, Lines
<1>3. \A c \in ChunkType : c.start \in Int /\ c.end \in Int /\ c.body \in Seq(Spans)
  BY <1>1 DEF ChunkType, Lines
<1> QED
  BY <1>1, <1>2, <1>3

LEMMA AppendFacts ==
    ASSUME NEW S, NEW s \in Seq(S), NEW e \in S, NEW t, t = Append(s, e)
    PROVE  /\ t \in Seq(S) /\ Len(s) \in Nat /\ Len(t) = Len(s) + 1
           /\ DOMAIN s = 1 .. Len(s) /\ DOMAIN t = 1 .. Len(s) + 1
           /\ \A i \in DOMAIN s : t[i] = s[i]
           /\ t[Len(s) + 1] = e
OBVIOUS

LEMMA EmptyFacts == ASSUME NEW S PROVE <<>> \in Seq(S) /\ DOMAIN <<>> = {}
OBVIOUS

(* What was gathered is a good chunk. *)
LEMMA MakeChunk ==
    ASSUME ParserInv, NEW gs, gs # <<>>, NEW p, p \in Seq(Lines), NEW f, f \in Int,
           GoodGathered(gs, p, f), NEW c, c = Chunk(p, gs)
    PROVE  /\ GoodChunk(c, f) /\ c.body = gs
           /\ 1 \in DOMAIN gs /\ c.start = gs[1].first
<1>1. /\ gs \in Seq(Spans) /\ Len(gs) \in Nat \ {0} /\ DOMAIN gs = 1 .. Len(gs)
      /\ \A i \in DOMAIN gs : gs[i] \in Spans
  BY DEF GoodGathered
<1>2. 1 \in DOMAIN gs /\ Len(gs) \in DOMAIN gs
  BY <1>1
<1>3. /\ lines \in Documents /\ Headings \subseteq DOMAIN blocks
      /\ \A h \in Headings : blocks[h].first \in Int /\ blocks[h].last \in Int
                           /\ blocks[h].first <= blocks[h].last
  BY SpanTypes DEF ParserInv, Headings
<1>4. /\ c.path = p /\ c.body = gs /\ c.start = gs[1].first /\ c.end = gs[Len(gs)].last
      /\ c \in ChunkType
  BY <1>1, <1>2, <1>3, SpanTypes DEF Chunk, ChunkType
<1>5. /\ gs[1].first \in Int /\ gs[1].last \in Int /\ gs[Len(gs)].first \in Int
      /\ gs[Len(gs)].last \in Int
  BY <1>1, <1>2, <1>3, SpanTypes
<1>6. c.start <= c.end
  <2>1. gs[1].first <= gs[1].last /\ gs[Len(gs)].first <= gs[Len(gs)].last
    BY <1>2 DEF GoodGathered
  <2>2. CASE Len(gs) = 1
    BY <1>4, <2>1, <2>2
  <2>3. CASE Len(gs) # 1
    <3>1. gs[1].last < gs[Len(gs)].first
      BY <1>1, <1>2, <2>3 DEF GoodGathered, InOrder
    <3> QED
      BY <1>4, <1>5, <2>1, <3>1
  <2> QED
    BY <2>2, <2>3
<1>7. c.end < f /\ InOrder(c.body) /\ \A i \in DOMAIN c.body : c.body[i].path = c.path
  BY <1>2, <1>4 DEF GoodGathered
<1>8. \A h \in Headings : blocks[h].first \notin c.start .. c.end
  <2> SUFFICES ASSUME NEW h \in Headings, blocks[h].first \in c.start .. c.end PROVE FALSE
    OBVIOUS
  <2>1. blocks[h].first < f /\ c.start <= blocks[h].first
    BY <1>3, <1>4, <1>5, <1>7
  <2>2. blocks[h].last < gs[1].first
    BY <1>2, <2>1 DEF GoodGathered
  <2> QED
    BY <1>3, <1>4, <1>5, <2>1, <2>2
<1> QED
  BY <1>2, <1>4, <1>6, <1>7, <1>8 DEF GoodChunk

FlushOf(cs, gs, p) == IF gs = <<>> THEN cs ELSE Append(cs, Chunk(p, gs))

(* Flushing loses nothing. *)
LEMMA FlushGood ==
    ASSUME ParserInv, NEW cs, NEW gs, NEW p \in Seq(Lines), NEW f \in Int, NEW p2,
           Good(cs, gs, p, f), NEW new, new = FlushOf(cs, gs, p)
    PROVE  Good(new, <<>>, p2, f)
<1>0. GoodGathered(<<>>, p2, f) /\ Before(new, <<>>)
  BY EmptyFacts DEF GoodGathered, Before, InOrder
<1>1. CASE gs = <<>>
  <2>1. new = cs /\ Covered(new, <<>>, f) /\ GoodChunks(new, f)
    BY <1>1 DEF Good, FlushOf
  <2> QED
    BY <1>0, <2>1 DEF Good
<1>2. CASE gs # <<>>
  <2>1. PICK c : c = Chunk(p, gs)
    OBVIOUS
  <2>2. /\ GoodChunk(c, f) /\ c.body = gs
        /\ 1 \in DOMAIN gs /\ c.start = gs[1].first
    <3>1. GoodGathered(gs, p, f)
      BY DEF Good
    <3> QED
      BY <1>2, <2>1, <3>1, MakeChunk
  <2>3. new = Append(cs, c) /\ cs \in Seq(ChunkType) /\ c \in ChunkType
    BY <1>2, <2>1, <2>2 DEF FlushOf, Good, GoodChunks, GoodChunk
  <2>4. /\ new \in Seq(ChunkType) /\ Len(cs) \in Nat /\ DOMAIN cs = 1 .. Len(cs)
        /\ DOMAIN new = 1 .. Len(cs) + 1 /\ new[Len(cs) + 1] = c
        /\ \A i \in DOMAIN cs : new[i] = cs[i]
    BY <2>3, AppendFacts
  <2>5. \A i \in DOMAIN cs : cs[i].end < c.start
    BY <2>2 DEF Good, Before
  <2>6. ASSUME NEW i \in DOMAIN new, NEW j \in DOMAIN new, i < j
        PROVE  new[i].end < new[j].start
    <3>1. CASE j \in DOMAIN cs
      <4>1. i \in DOMAIN cs
        BY <2>4, <2>6, <3>1
      <4> QED
        BY <2>4, <2>6, <3>1, <4>1 DEF Good, GoodChunks
    <3>2. CASE j = Len(cs) + 1
      <4>1. i \in DOMAIN cs
        BY <2>4, <2>6, <3>2
      <4> QED
        BY <2>4, <2>5, <3>2, <4>1
    <3> QED
      BY <2>4, <3>1, <3>2
  <2>7. \A i \in DOMAIN new : GoodChunk(new[i], f)
    BY <2>2, <2>4 DEF Good, GoodChunks
  <2>8. Covered(new, <<>>, f)
    <3> SUFFICES ASSUME NEW b \in DOMAIN blocks, blocks[b].type # "heading",
                        NEW k \in blocks[b].first .. blocks[b].last, k < f
                 PROVE  \E i \in DOMAIN new : Holds(new[i].body, k)
      BY DEF Covered
    <3>1. CASE Holds(gs, k)
      <4>1. Len(cs) + 1 \in DOMAIN new /\ new[Len(cs) + 1].body = gs
        BY <2>2, <2>4
      <4> QED
        BY <3>1, <4>1
    <3>2. CASE ~Holds(gs, k)
      <4>1. PICK i \in DOMAIN cs : Holds(cs[i].body, k)
        BY <3>2 DEF Good, Covered
      <4> QED
        BY <2>4, <4>1
    <3> QED
      BY <3>1, <3>2
  <2> QED
    BY <1>0, <2>4, <2>6, <2>7, <2>8 DEF Good, GoodChunks
<1> QED
  BY <1>1, <1>2

(* No title starts in lines f to g - 1, and no other text than b lies there. *)
OnlySpan(b, f, g) ==
    /\ f <= b.first /\ b.first <= b.last /\ b.last < g
    /\ \A h \in Headings : blocks[h].first < f \/ g <= blocks[h].first
    /\ \A h \in Headings : blocks[h].first < f => blocks[h].last < f
    /\ \A i \in DOMAIN blocks : blocks[i].type # "heading" =>
          \A k \in blocks[i].first .. blocks[i].last :
              f <= k /\ k < g => k \in b.first .. b.last

(* Gathering the block that the next lines are. *)
LEMMA ExtendGood ==
    ASSUME ParserInv, NEW cs, NEW gs, NEW p, NEW f \in Int, NEW g \in Int,
           Good(cs, gs, p, f), NEW b \in Spans, b.path = p, OnlySpan(b, f, g),
           NEW new, new = Append(gs, b)
    PROVE  Good(cs, new, p, g)
<1>0. /\ lines \in Documents /\ Headings \subseteq DOMAIN blocks
      /\ b.first \in Int /\ b.last \in Int /\ f < g
      /\ \A i \in DOMAIN blocks : blocks[i].first \in Int /\ blocks[i].last \in Int
                               /\ blocks[i].first <= blocks[i].last
  BY SpanTypes DEF ParserInv, Headings, OnlySpan
<1>1. /\ gs \in Seq(Spans) /\ new \in Seq(Spans) /\ Len(gs) \in Nat /\ DOMAIN gs = 1 .. Len(gs)
      /\ DOMAIN new = 1 .. Len(gs) + 1 /\ new[Len(gs) + 1] = b
      /\ \A i \in DOMAIN gs : new[i] = gs[i]
  BY AppendFacts DEF Good, GoodGathered
<1>2. \A i \in DOMAIN gs : gs[i].first \in Int /\ gs[i].last \in Int
  BY <1>0, <1>1, SpanTypes
<1>3. GoodGathered(new, p, g)
  <2>1. ASSUME NEW i \in DOMAIN gs
        PROVE  /\ gs[i].path = p /\ gs[i].first <= gs[i].last /\ gs[i].last < g
               /\ \A h \in Headings : blocks[h].first < g => blocks[h].last < gs[i].first
    <3>1. gs[i].path = p /\ gs[i].first <= gs[i].last /\ gs[i].last < f
      BY DEF Good, GoodGathered
    <3>2. \A h \in Headings : blocks[h].first < g => blocks[h].first < f
      BY <1>0 DEF OnlySpan
    <3> QED
      BY <1>0, <1>2, <3>1, <3>2 DEF Good, GoodGathered
  <2>2. /\ b.path = p /\ b.first <= b.last /\ b.last < g
        /\ \A h \in Headings : blocks[h].first < g => blocks[h].last < b.first
    BY <1>0 DEF OnlySpan
  <2>3. InOrder(new)
    <3> SUFFICES ASSUME NEW i \in DOMAIN new, NEW j \in DOMAIN new, i < j
                 PROVE  new[i].last < new[j].first
      BY DEF InOrder
    <3>1. i \in DOMAIN gs
      BY <1>1
    <3>2. CASE j \in DOMAIN gs
      BY <1>1, <3>1, <3>2 DEF Good, GoodGathered, InOrder
    <3>3. CASE j = Len(gs) + 1
      <4>1. gs[i].last < f /\ f <= b.first
        BY <3>1 DEF Good, GoodGathered, OnlySpan
      <4> QED
        BY <1>0, <1>1, <1>2, <3>1, <3>3, <4>1
    <3> QED
      BY <1>1, <3>2, <3>3
  <2> QED
    BY <1>1, <2>1, <2>2, <2>3 DEF GoodGathered
<1>4. GoodChunks(cs, g)
  <2>1. ASSUME NEW i \in DOMAIN cs PROVE GoodChunk(cs[i], g)
    <3>1. GoodChunk(cs[i], f)
      BY DEF Good, GoodChunks
    <3>2. cs[i].end \in Int
      BY <1>0, <3>1, SpanTypes DEF GoodChunk
    <3> QED
      BY <1>0, <3>1, <3>2 DEF GoodChunk
  <2> QED
    BY <2>1 DEF Good, GoodChunks
<1>5. Before(cs, new)
  <2> SUFFICES ASSUME NEW i \in DOMAIN cs, NEW j \in DOMAIN new PROVE cs[i].end < new[j].first
    BY DEF Before
  <2>1. CASE j \in DOMAIN gs
    BY <1>1, <2>1 DEF Good, Before
  <2>2. CASE j = Len(gs) + 1
    <3>1. cs[i].end < f /\ cs[i].end \in Int /\ f <= b.first
      BY <1>0, SpanTypes DEF Good, GoodChunks, GoodChunk, OnlySpan
    <3> QED
      BY <1>0, <1>1, <2>2, <3>1
  <2> QED
    BY <1>1, <2>1, <2>2
<1>6. Covered(cs, new, g)
  <2> SUFFICES ASSUME NEW i \in DOMAIN blocks, blocks[i].type # "heading",
                      NEW k \in blocks[i].first .. blocks[i].last, k < g
               PROVE  Holds(new, k) \/ \E c \in DOMAIN cs : Holds(cs[c].body, k)
    BY DEF Covered
  <2>1. CASE f <= k
    <3>1. k \in b.first .. b.last
      BY <2>1 DEF OnlySpan
    <3> QED
      BY <1>1, <3>1 DEF Holds
  <2>2. CASE k < f
    <3>1. Holds(gs, k) => Holds(new, k)
      BY <1>1 DEF Holds
    <3> QED
      BY <2>2, <3>1 DEF Good, Covered
  <2> QED
    BY <1>0, <2>1, <2>2
<1> QED
  BY <1>3, <1>4, <1>5, <1>6 DEF Good

(* Passing a title, with nothing gathered. *)
LEMMA SkipGood ==
    ASSUME ParserInv, NEW cs, NEW p, NEW p2, NEW f \in Int, NEW g \in Int, f <= g,
           Good(cs, <<>>, p, f),
           \A i \in DOMAIN blocks : blocks[i].type # "heading" =>
               \A k \in blocks[i].first .. blocks[i].last : ~(f <= k /\ k < g)
    PROVE  Good(cs, <<>>, p2, g)
<1>0. /\ lines \in Documents
      /\ \A i \in DOMAIN blocks : blocks[i].first \in Int /\ blocks[i].last \in Int
  BY SpanTypes DEF ParserInv
<1>1. GoodGathered(<<>>, p2, g) /\ Before(cs, <<>>)
  BY EmptyFacts DEF GoodGathered, Before, InOrder
<1>2. GoodChunks(cs, g)
  <2>1. ASSUME NEW i \in DOMAIN cs PROVE GoodChunk(cs[i], g)
    <3>1. GoodChunk(cs[i], f)
      BY DEF Good, GoodChunks
    <3>2. cs[i].end \in Int
      BY <1>0, <3>1, SpanTypes DEF GoodChunk
    <3> QED
      BY <3>1, <3>2 DEF GoodChunk
  <2> QED
    BY <2>1 DEF Good, GoodChunks
<1>3. Covered(cs, <<>>, g)
  BY <1>0 DEF Good, Covered
<1> QED
  BY <1>1, <1>2, <1>3 DEF Good

----------------------------------------------------------------------------
(* The line the chunker has come to. *)
StartOf(i) == IF i \in DOMAIN blocks THEN blocks[i].first ELSE Len(lines) + 1
Frontier == IF cut # 0 THEN cut ELSE StartOf(pos)

ChunkInv ==
    /\ pos \in 1 .. Len(blocks) + 2
    /\ cut \in 0 .. Len(lines)
    /\ path \in Seq(Lines)
    /\ at <= Len(lines) => pos = 1 /\ path = <<>> /\ cut = 0 /\ gathered = <<>> /\ chunks = <<>>
    /\ pos <= Len(blocks) + 1 => path = PathBefore(pos)
    /\ cut # 0 => /\ pos \in DOMAIN blocks /\ blocks[pos].type # "heading"
                  /\ cut \in blocks[pos].first .. blocks[pos].last
                  /\ gathered = <<>>
    /\ pos = Len(blocks) + 2 => gathered = <<>>
    /\ Good(chunks, gathered, path, Frontier)

IInv == ParserInv /\ ChunkInv

(* What ParserInv says of the blocks, in the form the lemmas use. *)
LEMMA BlockFacts ==
    ASSUME ParserInv
    PROVE  /\ Len(lines) \in Nat /\ Len(blocks) \in Nat /\ DOMAIN blocks = 1 .. Len(blocks)
           /\ at \in 1 .. Len(lines) + 1
           /\ \A i \in DOMAIN blocks :
                 /\ blocks[i] \in Spans /\ blocks[i].first \in Lines /\ blocks[i].last \in Lines
                 /\ blocks[i].first \in Int /\ blocks[i].last \in Int
                 /\ blocks[i].path \in Seq(Lines)
                 /\ blocks[i].first <= blocks[i].last /\ blocks[i].last <= Len(lines)
                 /\ StartOf(i) = blocks[i].first
           /\ \A i, j \in DOMAIN blocks : i < j => blocks[i].last < blocks[j].first
           /\ \A i \in 1 .. Len(blocks) + 2 : StartOf(i) \in Int
<1>1. lines \in Documents /\ blocks \in Seq(Spans) /\ at \in 1 .. Len(lines) + 1
  BY DEF ParserInv
<1>2. Len(lines) \in Nat /\ Len(blocks) \in Nat /\ DOMAIN blocks = 1 .. Len(blocks)
  BY <1>1, LinesType
<1>3. \A i \in DOMAIN blocks :
         /\ blocks[i] \in Spans /\ blocks[i].first \in Lines /\ blocks[i].last \in Lines
         /\ blocks[i].first \in Int /\ blocks[i].last \in Int
         /\ blocks[i].path \in Seq(Lines)
         /\ blocks[i].first <= blocks[i].last /\ blocks[i].last <= Len(lines)
  <2>1. \A i \in DOMAIN blocks : blocks[i] \in Spans
    BY <1>1
  <2>2. \A i \in DOMAIN blocks : blocks[i].first <= blocks[i].last
    BY DEF ParserInv
  <2>3. \A b \in Spans : b.last <= Len(lines)
    BY <1>2 DEF Spans, Lines
  <2> QED
    BY <1>1, <2>1, <2>2, <2>3, SpanTypes
<1>4. \A i, j \in DOMAIN blocks : i < j => blocks[i].last < blocks[j].first
  BY DEF ParserInv, EveryLineInOneBlock
<1> QED
  BY <1>1, <1>2, <1>3, <1>4 DEF StartOf

(* The text between the start of block i and the next is that of block i. *)
LEMMA OnlyThisBlock ==
    ASSUME ParserInv, NEW i \in DOMAIN blocks, NEW j \in DOMAIN blocks,
           NEW k \in blocks[j].first .. blocks[j].last,
           blocks[i].first <= k, k < StartOf(i + 1)
    PROVE  i = j
<1>1. ~(j < i)
  BY BlockFacts
<1>2. ~(i < j)
  <2> SUFFICES ASSUME i < j PROVE FALSE
    OBVIOUS
  <2>1. i + 1 \in DOMAIN blocks /\ StartOf(i + 1) = blocks[i + 1].first
    BY BlockFacts
  <2>2. blocks[i + 1].first <= blocks[j].first
    <3>1. CASE i + 1 = j
      BY <2>1, <3>1, BlockFacts
    <3>2. CASE i + 1 # j
      <4>1. blocks[i + 1].last < blocks[j].first
        BY <2>1, <3>2, BlockFacts
      <4> QED
        BY <2>1, <4>1, BlockFacts
    <3> QED
      BY <3>1, <3>2
  <2> QED
    BY <2>1, <2>2, BlockFacts
<1> QED
  BY <1>1, <1>2, BlockFacts

(* A piece of block i: from line c to line l, before line g. *)
LEMMA PieceOnly ==
    ASSUME ParserInv, NEW i \in DOMAIN blocks, blocks[i].type # "heading",
           NEW c \in blocks[i].first .. blocks[i].last, NEW l \in c .. blocks[i].last,
           NEW g, g = IF l = blocks[i].last THEN StartOf(i + 1) ELSE l + 1,
           NEW b, b.first = c, b.last = l
    PROVE  OnlySpan(b, c, g) /\ g \in Int
<1>1. /\ c \in Int /\ l \in Int /\ c <= l /\ l <= blocks[i].last /\ blocks[i].first <= c
      /\ blocks[i].first \in Int /\ blocks[i].last \in Int /\ Headings \subseteq DOMAIN blocks
      /\ i \notin Headings /\ StartOf(i + 1) \in Int
  BY BlockFacts DEF Headings
<1>2. blocks[i].last < StartOf(i + 1)
  BY BlockFacts DEF StartOf
<1>3. g \in Int /\ l < g /\ g <= StartOf(i + 1)
  BY <1>1, <1>2
<1>4. \A h \in Headings : blocks[h].first < c => blocks[h].last < c
  <2> SUFFICES ASSUME NEW h \in Headings, blocks[h].first < c PROVE blocks[h].last < c
    OBVIOUS
  <2>1. h \in DOMAIN blocks /\ h # i
    BY <1>1
  <2>2. h < i
    <3>1. ~(i < h)
      BY <1>1, <2>1, BlockFacts
    <3> QED
      BY <2>1, <3>1, BlockFacts
  <2> QED
    BY <1>1, <2>1, <2>2, BlockFacts
<1>5. \A h \in Headings : blocks[h].first < c \/ g <= blocks[h].first
  <2> SUFFICES ASSUME NEW h \in Headings, ~(blocks[h].first < c), ~(g <= blocks[h].first)
               PROVE FALSE
    OBVIOUS
  <2>1. h \in DOMAIN blocks /\ h # i
    BY <1>1
  <2>2. PICK k : k = blocks[h].first
    OBVIOUS
  <2>3. k \in Int /\ blocks[h].last \in Int /\ k <= blocks[h].last
    BY <2>1, <2>2, BlockFacts
  <2>4. c <= k /\ k < g
    BY <1>1, <1>3, <2>2, <2>3
  <2>5. k \in blocks[h].first .. blocks[h].last
    BY <2>2, <2>3
  <2>6. blocks[i].first <= k /\ k < StartOf(i + 1)
    BY <1>1, <1>3, <2>3, <2>4
  <2> QED
    BY <2>1, <2>5, <2>6, OnlyThisBlock
<1>6. ASSUME NEW j \in DOMAIN blocks, blocks[j].type # "heading",
             NEW k \in blocks[j].first .. blocks[j].last, c <= k, k < g
      PROVE  k \in b.first .. b.last
  <2>1. k \in Int /\ blocks[i].first <= k /\ k < StartOf(i + 1)
    BY <1>1, <1>3, <1>6, BlockFacts
  <2>2. i = j
    BY <2>1, OnlyThisBlock
  <2> QED
    BY <1>1, <1>3, <1>6, <2>1, <2>2
<1> QED
  BY <1>1, <1>3, <1>4, <1>5, <1>6 DEF OnlySpan

(* Nothing is before the first block. *)
LEMMA Fresh ==
    ParserInv /\ pos = 1 /\ cut = 0 /\ gathered = <<>> /\ chunks = <<>>
        => Good(chunks, gathered, path, Frontier)
<1> SUFFICES ASSUME ParserInv, pos = 1, cut = 0, gathered = <<>>, chunks = <<>>
             PROVE  Good(<<>>, <<>>, path, StartOf(1))
  BY DEF Frontier
<1>1. GoodGathered(<<>>, path, StartOf(1)) /\ GoodChunks(<<>>, StartOf(1)) /\ Before(<<>>, <<>>)
  BY EmptyFacts DEF GoodGathered, GoodChunks, Before, InOrder
<1>2. Covered(<<>>, <<>>, StartOf(1))
  <2> SUFFICES ASSUME NEW b \in DOMAIN blocks, NEW k \in blocks[b].first .. blocks[b].last,
                      k < StartOf(1)
               PROVE  FALSE
    BY DEF Covered
  <2>1. 1 \in DOMAIN blocks /\ StartOf(1) = blocks[1].first
    BY BlockFacts
  <2>2. blocks[1].first <= blocks[b].first
    <3>1. CASE b = 1
      BY <2>1, <3>1, BlockFacts
    <3>2. CASE b # 1
      <4>1. 1 < b
        BY <3>2, BlockFacts
      <4>2. blocks[1].last < blocks[b].first
        BY <2>1, <4>1, BlockFacts
      <4> QED
        BY <2>1, <4>2, BlockFacts
    <3> QED
      BY <3>1, <3>2
  <2> QED
    BY <2>1, <2>2, BlockFacts
<1> QED
  BY <1>1, <1>2 DEF Good

LEMMA SameText ==
    ASSUME UNCHANGED parserVars, NEW cs, NEW gs, NEW p, NEW f, Good(cs, gs, p, f),
           cs = chunks', gs = gathered', p = path', f = Frontier'
    PROVE  Good(chunks, gathered, path, Frontier)'
<1>1. lines' = lines /\ blocks' = blocks
  BY DEF parserVars
<1>2. Headings' = Headings /\ Spans' = Spans /\ ChunkType' = ChunkType
  BY <1>1 DEF Headings, Spans, ChunkType, Lines
<1>3. GoodGathered(gathered, path, Frontier)'
  BY <1>1, <1>2 DEF Good, GoodGathered, InOrder
<1>4. GoodChunks(chunks, Frontier)'
  BY <1>1, <1>2 DEF Good, GoodChunks, GoodChunk, InOrder
<1>5. Before(chunks, gathered)'
  BY DEF Good, Before
<1>6. Covered(chunks, gathered, Frontier)'
  BY <1>1 DEF Good, Covered, Holds
<1> QED
  BY <1>3, <1>4, <1>5, <1>6 DEF Good

LEMMA SameParser == ParserInv /\ UNCHANGED parserVars => ParserInv'
BY DEF ParserInv, parserVars, EveryLineInOneBlock, PathsFollow, PathBefore, Entries, Spans, Lines

(* A step to the next block: what it leaves must be good up to that block. *)
LEMMA NextBlock ==
    ASSUME IInv, UNCHANGED parserVars, at > Len(lines), pos \in DOMAIN blocks,
           pos' = pos + 1, cut' = 0, path' = blocks[pos].path,
           NEW cs, NEW gs, NEW p, NEW f, cs = chunks', gs = gathered', p = path',
           f = StartOf(pos + 1), Good(cs, gs, p, f)
    PROVE  IInv'
<1>1. ParserInv'
  BY SameParser DEF IInv
<1>2. lines' = lines /\ blocks' = blocks /\ at' = at /\ Lines' = Lines
  BY DEF parserVars, Lines
<1>3. /\ Len(blocks) \in Nat /\ pos \in 1 .. Len(blocks) /\ Len(lines) \in Nat
      /\ blocks[pos].path \in Seq(Lines) /\ at \in Nat
  BY BlockFacts DEF IInv
<1>4. Frontier' = StartOf(pos + 1)
  BY <1>2 DEF Frontier, StartOf
<1>5. Good(chunks, gathered, path, Frontier)'
  BY <1>4, SameText
<1>6. path' = PathBefore(pos)' /\ pos' # Len(blocks') + 2 /\ pos' \in 1 .. Len(blocks') + 2
  BY <1>2, <1>3 DEF PathBefore
<1> QED
  BY <1>1, <1>2, <1>3, <1>5, <1>6 DEF IInv, ChunkInv

(* What every step of the loop over the blocks starts from. *)
LEMMA AtBlock ==
    ASSUME IInv, at > Len(lines), pos <= Len(blocks), cut = 0
    PROVE  /\ pos \in DOMAIN blocks /\ Good(chunks, gathered, path, blocks[pos].first)
           /\ blocks[pos].first \in Int /\ path \in Seq(Lines) /\ blocks[pos] \in Spans
           /\ blocks[pos].type # "heading" => blocks[pos].path = path
           /\ blocks[pos].type # "heading" =>
                 OnlySpan(blocks[pos], blocks[pos].first, StartOf(pos + 1))
           /\ StartOf(pos + 1) \in Int /\ blocks[pos].first <= StartOf(pos + 1)
<1>1. ParserInv /\ pos \in DOMAIN blocks /\ pos <= Len(blocks) + 1
  BY BlockFacts DEF IInv, ChunkInv
<1>2. StartOf(pos) = blocks[pos].first /\ StartOf(pos + 1) \in Int
  BY <1>1, BlockFacts
<1>3. Good(chunks, gathered, path, blocks[pos].first)
  BY <1>2 DEF IInv, ChunkInv, Frontier
<1>4. blocks[pos].type # "heading" => blocks[pos].path = path
  BY <1>1 DEF IInv, ChunkInv, ParserInv, PathsFollow
<1>5. ASSUME blocks[pos].type # "heading"
      PROVE  OnlySpan(blocks[pos], blocks[pos].first, StartOf(pos + 1))
  <2> DEFINE c == blocks[pos].first
             l == blocks[pos].last
  <2>1. c \in blocks[pos].first .. blocks[pos].last /\ l \in c .. blocks[pos].last
    BY <1>1, BlockFacts
  <2>2. blocks[pos].first = c /\ blocks[pos].last = l
    OBVIOUS
  <2> HIDE DEF c, l
  <2>3. PICK g : g = StartOf(pos + 1)
    OBVIOUS
  <2>4. g = IF l = blocks[pos].last THEN StartOf(pos + 1) ELSE l + 1
    BY <2>2, <2>3
  <2> QED
    BY <1>1, <1>5, <2>1, <2>2, <2>3, <2>4, PieceOnly
<1>6. blocks[pos].first <= StartOf(pos + 1)
  BY <1>1, BlockFacts DEF StartOf
<1> QED
  BY <1>1, <1>2, <1>3, <1>4, <1>5, <1>6, BlockFacts DEF IInv, ChunkInv

LEMMA ChunkStepKeeps == IInv /\ ChunkStep => IInv'
<1> SUFFICES ASSUME IInv, ChunkStep PROVE IInv'
  OBVIOUS
<1>1. /\ ParserInv /\ UNCHANGED parserVars /\ at > Len(lines) /\ pos <= Len(blocks)
      /\ cut = 0 /\ cut' = 0 /\ pos' = pos + 1
  BY DEF IInv, ChunkStep
<1>2. PICK b, f, g, p, cs, gs : /\ b = blocks[pos] /\ f = b.first /\ g = StartOf(pos + 1)
                                /\ p = path /\ cs = chunks /\ gs = gathered
  OBVIOUS
<1>3. PICK flushed : flushed = FlushOf(cs, gs, p)
  OBVIOUS
<1>4. /\ pos \in DOMAIN blocks /\ Good(cs, gs, p, f) /\ f \in Int /\ p \in Seq(Lines)
      /\ b \in Spans /\ g \in Int /\ f <= g
      /\ b.type # "heading" => b.path = p /\ OnlySpan(b, f, g)
  BY <1>1, <1>2, AtBlock
<1>5. Flushed = flushed
  BY <1>2, <1>3 DEF Flushed, FlushOf
<1>6. Good(flushed, <<>>, p, f)
  BY <1>1, <1>3, <1>4, FlushGood
<1>7. ASSUME b.type # "heading" PROVE Good(flushed, <<b>>, p, g)
  <2>1. b.path = p /\ OnlySpan(b, f, g)
    BY <1>4, <1>7
  <2>2. PICK new : new = Append(<<>>, b)
    OBVIOUS
  <2>3. Good(flushed, new, p, g)
    BY <1>1, <1>4, <1>6, <2>1, <2>2, ExtendGood
  <2> QED
    BY <2>2, <2>3
<1>8. CASE NewSection
  <2>1. b.type = "heading" /\ chunks' = flushed /\ gathered' = <<>> /\ path' = b.path
    BY <1>2, <1>5, <1>8 DEF NewSection, Block
  <2>2. PICK p2 : p2 = b.path
    OBVIOUS
  <2>3. Good(flushed, <<>>, p2, f)
    BY <1>1, <1>3, <1>4, FlushGood
  <2>4. ASSUME NEW i \in DOMAIN blocks, blocks[i].type # "heading",
               NEW k \in blocks[i].first .. blocks[i].last, f <= k, k < g
        PROVE  FALSE
    <3>1. blocks[pos].first <= k /\ k < StartOf(pos + 1)
      BY <1>2, <2>4
    <3>2. i = pos
      BY <1>1, <1>4, <3>1, OnlyThisBlock
    <3> QED
      BY <1>2, <2>1, <2>4, <3>2
  <2>5. Good(flushed, <<>>, p2, g)
    BY <1>1, <1>4, <2>3, <2>4, SkipGood
  <2>6. PICK new : new = <<>>
    OBVIOUS
  <2> QED
    BY <1>1, <1>2, <1>4, <2>1, <2>2, <2>5, <2>6, NextBlock
<1>9. CASE Gather
  <2>1. b.type # "heading" /\ gathered' = Append(gs, b) /\ path' = p /\ chunks' = cs
    BY <1>2, <1>9 DEF Gather, Block
  <2>2. b.path = p /\ OnlySpan(b, f, g)
    BY <1>4, <2>1
  <2>3. PICK new : new = Append(gs, b)
    OBVIOUS
  <2>4. Good(cs, new, p, g)
    BY <1>1, <1>4, <2>2, <2>3, ExtendGood
  <2> QED
    BY <1>1, <1>2, <1>4, <2>1, <2>2, <2>3, <2>4, NextBlock
<1>10. CASE Overflow
  <2>1. b.type # "heading" /\ gathered' = <<b>> /\ path' = p /\ chunks' = flushed
    BY <1>2, <1>5, <1>10 DEF Overflow, Block
  <2>2. b.path = p /\ Good(flushed, <<b>>, p, g)
    BY <1>4, <1>7, <2>1
  <2>3. PICK new : new = <<b>>
    OBVIOUS
  <2> QED
    BY <1>1, <1>2, <1>4, <2>1, <2>2, <2>3, NextBlock
<1>11. CASE TakeWhole
  <2>1. /\ b.type \in Whole /\ gathered' = <<>> /\ path' = p
        /\ chunks' = Append(flushed, Chunk(p, <<b>>))
    BY <1>2, <1>5, <1>11 DEF TakeWhole, Block
  <2>2. b.type # "heading"
    BY <2>1 DEF Whole
  <2>3. b.path = p /\ Good(flushed, <<b>>, p, g)
    BY <1>4, <1>7, <2>2
  <2>4. PICK one, empty : one = <<b>> /\ empty = <<>>
    OBVIOUS
  <2>5. PICK new : new = FlushOf(flushed, one, p)
    OBVIOUS
  <2>6. Good(new, <<>>, p, g)
    <3>1. Good(flushed, one, p, g)
      BY <2>3, <2>4
    <3> QED
      BY <1>1, <1>4, <2>5, <3>1, FlushGood
  <2>7. chunks' = new
    BY <2>1, <2>4, <2>5 DEF FlushOf
  <2> QED
    BY <1>1, <1>2, <1>4, <2>1, <2>3, <2>4, <2>6, <2>7, NextBlock
<1> QED
  BY <1>8, <1>9, <1>10, <1>11 DEF ChunkStep

LEMMA StartSplitKeeps == IInv /\ StartSplit => IInv'
<1> SUFFICES ASSUME IInv, StartSplit PROVE IInv'
  OBVIOUS
<1>1. /\ ParserInv /\ UNCHANGED parserVars /\ at > Len(lines) /\ pos <= Len(blocks) /\ cut = 0
      /\ blocks[pos].type # "heading" /\ chunks' = Flushed /\ gathered' = <<>>
      /\ cut' = blocks[pos].first /\ pos' = pos /\ path' = path
  BY DEF IInv, StartSplit, Block
<1>2. PICK f, p, cs, gs, new, empty :
         /\ f = blocks[pos].first /\ p = path /\ cs = chunks /\ gs = gathered
         /\ new = FlushOf(cs, gs, p) /\ empty = <<>>
  OBVIOUS
<1>3. /\ pos \in DOMAIN blocks /\ Good(cs, gs, p, f) /\ f \in Int /\ p \in Seq(Lines)
  BY <1>1, <1>2, AtBlock
<1>4. f \in blocks[pos].first .. blocks[pos].last /\ f \in 1 .. Len(lines) /\ Len(lines) \in Nat
  BY <1>1, <1>2, <1>3, BlockFacts DEF Lines
<1>5. Good(new, <<>>, p, f)
  BY <1>1, <1>2, <1>3, FlushGood
<1>6. lines' = lines /\ blocks' = blocks /\ at' = at /\ Lines' = Lines
  BY <1>1 DEF parserVars, Lines
<1>7. chunks' = new /\ cut' = f /\ Frontier' = f
  BY <1>1, <1>2, <1>4 DEF Flushed, FlushOf, Frontier
<1>8. Good(chunks, gathered, path, Frontier)'
  BY <1>1, <1>2, <1>5, <1>7, SameText
<1>9. ParserInv'
  BY <1>1, SameParser
<1>10. pos \in 1 .. Len(blocks) + 2 /\ (pos <= Len(blocks) + 1 => path = PathBefore(pos)) /\ at \in Nat
  BY <1>1, BlockFacts DEF IInv, ChunkInv
<1>11. PathBefore(pos)' = PathBefore(pos)
  BY <1>1, <1>6 DEF PathBefore
<1> QED
  BY <1>1, <1>2, <1>3, <1>4, <1>6, <1>7, <1>8, <1>9, <1>10, <1>11 DEF IInv, ChunkInv

LEMMA BudgetType ==
    ASSUME NEW S, NEW p \in Seq(S) PROVE Budget(p) \in Int
<1>1. Len(p) \in Nat
  OBVIOUS
<1> QED
  BY <1>1, SizesAssumption DEF Budget

LEMMA CutPieceKeeps == IInv /\ CutPiece => IInv'
<1> SUFFICES ASSUME IInv, CutPiece PROVE IInv'
  OBVIOUS
<1>1. /\ ParserInv /\ UNCHANGED parserVars /\ path' = path /\ gathered' = gathered /\ cut # 0
      /\ gathered = <<>> /\ pos \in DOMAIN blocks /\ blocks[pos].type # "heading"
      /\ cut \in blocks[pos].first .. blocks[pos].last /\ path \in Seq(Lines)
      /\ Good(chunks, gathered, path, cut) /\ path = PathBefore(pos)
  BY BlockFacts DEF IInv, ChunkInv, CutPiece, Frontier
<1>2. at > Len(lines)
  BY <1>1, BlockFacts DEF IInv, ChunkInv
<1> DEFINE piece(l) == [type |-> Block.type, level |-> Block.level,
                        first |-> cut, last |-> l, path |-> Block.path]
<1>3. PICK last \in cut .. cut + Budget(path) - 1 :
         /\ CutsAt(last)
         /\ chunks' = Append(chunks, Chunk(path, <<piece(last)>>))
         /\ IF last = Block.last
              THEN cut' = 0 /\ pos' = pos + 1
              ELSE cut' = last + 1 /\ UNCHANGED pos
  BY DEF CutPiece
<1>4. PICK b, c, g, p, cs, empty :
         /\ b = piece(last) /\ c = cut /\ p = path /\ cs = chunks /\ empty = <<>>
         /\ g = IF last = blocks[pos].last THEN StartOf(pos + 1) ELSE last + 1
  OBVIOUS
<1>5. /\ blocks[pos] \in Spans /\ blocks[pos].first \in Lines /\ blocks[pos].last \in Lines
      /\ blocks[pos].first \in Int /\ blocks[pos].last \in Int /\ Len(lines) \in Nat
      /\ blocks[pos].path = path /\ c \in Int /\ last \in Int /\ blocks[pos].first >= 1
  BY <1>1, <1>3, <1>4, BlockFacts DEF ParserInv, PathsFollow, Lines
<1>6. last \in c .. blocks[pos].last
  <2>1. Budget(path) \in Int
    BY <1>1, BudgetType
  <2> QED
    BY <1>1, <1>3, <1>4, <1>5, <2>1 DEF CutsAt, Block
<1>7. c \in blocks[pos].first .. blocks[pos].last
  BY <1>1, <1>4
<1>8. b \in Spans /\ b.first = c /\ b.last = last /\ b.path = p
  <2>1. c \in Lines /\ last \in Lines
    BY <1>5, <1>6, <1>7 DEF Lines
  <2> QED
    BY <1>4, <1>5, <2>1 DEF Spans, Block
<1>9. OnlySpan(b, c, g) /\ g \in Int
  BY <1>1, <1>4, <1>6, <1>7, <1>8, PieceOnly
<1>10. PICK one, new : one = Append(empty, b) /\ new = FlushOf(cs, one, p)
  OBVIOUS
<1>11. Good(cs, one, p, g)
  <2>1. Good(cs, empty, p, c)
    BY <1>1, <1>4
  <2> QED
    BY <1>1, <1>5, <1>8, <1>9, <1>10, <2>1, ExtendGood
<1>12. Good(new, <<>>, p, g)
  <2>1. p \in Seq(Lines)
    BY <1>1, <1>4
  <2> QED
    BY <1>1, <1>9, <1>10, <1>11, <2>1, FlushGood
<1>13. chunks' = new
  <2>1. one = <<b>>
    BY <1>4, <1>10
  <2> QED
    BY <1>3, <1>4, <1>10, <2>1 DEF FlushOf
<1> HIDE DEF piece
<1>14. CASE last = blocks[pos].last
  <2>1. cut' = 0 /\ pos' = pos + 1 /\ g = StartOf(pos + 1)
    BY <1>3, <1>4, <1>14 DEF Block
  <2>2. path' = blocks[pos].path /\ empty = gathered' /\ p = path'
    BY <1>1, <1>4, <1>5
  <2>3. Good(new, empty, p, g)
    BY <1>4, <1>12
  <2> QED
    BY <1>1, <1>2, <1>13, <2>1, <2>2, <2>3, NextBlock
<1>15. CASE last # blocks[pos].last
  <2>1. cut' = last + 1 /\ pos' = pos /\ g = last + 1
    BY <1>3, <1>4, <1>15 DEF Block
  <2>2. lines' = lines /\ blocks' = blocks /\ at' = at /\ Lines' = Lines
    BY <1>1 DEF parserVars, Lines
  <2>3. /\ cut' \in blocks[pos].first .. blocks[pos].last /\ cut' # 0
        /\ cut' \in 0 .. Len(lines) /\ Frontier' = g
    BY <1>5, <1>6, <1>7, <1>15, <2>1, BlockFacts DEF Frontier, Lines
  <2>4. Good(new, empty, p, g)
    BY <1>4, <1>12
  <2>5. Good(chunks, gathered, path, Frontier)'
    BY <1>1, <1>4, <1>13, <2>3, <2>4, SameText
  <2>6. ParserInv'
    BY <1>1, SameParser
  <2>7. PathBefore(pos)' = PathBefore(pos) /\ pos \in 1 .. Len(blocks) + 2 /\ at \in Nat
    BY <1>1, <2>1, <2>2, BlockFacts DEF PathBefore
  <2> QED
    BY <1>1, <1>2, <1>5, <2>1, <2>2, <2>3, <2>5, <2>6, <2>7 DEF IInv, ChunkInv
<1> QED
  BY <1>14, <1>15

LEMMA FinishKeeps == IInv /\ Finish => IInv'
<1> SUFFICES ASSUME IInv, Finish PROVE IInv'
  OBVIOUS
<1>1. /\ ParserInv /\ UNCHANGED parserVars /\ at > Len(lines) /\ pos = Len(blocks) + 1
      /\ pos' = pos + 1 /\ chunks' = Flushed /\ gathered' = <<>> /\ path' = path /\ cut' = cut
      /\ Len(blocks) \in Nat /\ Len(lines) \in Nat /\ DOMAIN blocks = 1 .. Len(blocks)
      /\ at \in Nat /\ path \in Seq(Lines)
  BY BlockFacts DEF IInv, ChunkInv, Finish
<1>2. cut = 0
  BY <1>1 DEF IInv, ChunkInv
<1>3. PICK f, p, cs, gs, new, empty :
         /\ f = Len(lines) + 1 /\ p = path /\ cs = chunks /\ gs = gathered
         /\ new = FlushOf(cs, gs, p) /\ empty = <<>>
  OBVIOUS
<1>4. Frontier = f
  BY <1>1, <1>2, <1>3 DEF Frontier, StartOf
<1>5. Good(new, <<>>, p, f)
  <2>1. Good(cs, gs, p, f)
    BY <1>3, <1>4 DEF IInv, ChunkInv
  <2>2. p \in Seq(Lines) /\ f \in Int
    BY <1>1, <1>3
  <2> QED
    BY <1>1, <1>3, <2>1, <2>2, FlushGood
<1>6. lines' = lines /\ blocks' = blocks /\ at' = at /\ Lines' = Lines
  BY <1>1 DEF parserVars, Lines
<1>7. chunks' = new /\ Frontier' = f
  BY <1>1, <1>2, <1>3, <1>6 DEF Flushed, FlushOf, Frontier, StartOf
<1>8. Good(chunks, gathered, path, Frontier)'
  BY <1>1, <1>3, <1>5, <1>7, SameText
<1>9. ParserInv'
  BY <1>1, SameParser
<1> QED
  BY <1>1, <1>2, <1>6, <1>8, <1>9 DEF IInv, ChunkInv

----------------------------------------------------------------------------
LEMMA InitInv == Init => IInv
<1> SUFFICES ASSUME Init PROVE IInv
  OBVIOUS
<1>1. /\ lines \in Documents /\ at = 1 /\ stack = <<>> /\ blocks = <<>>
      /\ pos = 1 /\ path = <<>> /\ cut = 0 /\ gathered = <<>> /\ chunks = <<>>
  BY DEF Init, ParserInit
<1>2. Len(lines) \in Nat /\ Titles(stack) = <<>>
  BY <1>1, LinesType DEF Titles
<1>3. ParserInv
  BY <1>1, <1>2 DEF ParserInv, EveryLineInOneBlock, PathsFollow
<1>4. Good(chunks, gathered, path, Frontier)
  BY <1>1, <1>3, Fresh
<1> QED
  BY <1>1, <1>2, <1>3, <1>4 DEF IInv, ChunkInv, PathBefore

LEMMA Lengths == ParserInv => Len(lines) \in Nat /\ Len(blocks) \in Nat
BY BlockFacts

LEMMA ParsingKeeps == IInv /\ ParseStep /\ UNCHANGED chunkerVars => IInv'
<1> SUFFICES ASSUME IInv, ParseStep, UNCHANGED chunkerVars PROVE IInv'
  OBVIOUS
<1>1. ParserInv'
  BY ParseKeeps DEF IInv
<1>2. pos = 1 /\ path = <<>> /\ cut = 0 /\ gathered = <<>> /\ chunks = <<>>
  BY DEF IInv, ChunkInv, ParseStep
<1>3. pos' = 1 /\ path' = <<>> /\ cut' = 0 /\ gathered' = <<>> /\ chunks' = <<>>
  BY <1>2 DEF chunkerVars
<1>4. Good(chunks, gathered, path, Frontier)'
  <2>1. (ParserInv /\ pos = 1 /\ cut = 0 /\ gathered = <<>> /\ chunks = <<>>
           => Good(chunks, gathered, path, Frontier))'
    BY Fresh, PTL
  <2> QED
    BY <1>1, <1>3, <2>1
<1>5. Len(blocks') \in Nat /\ Len(lines') \in Nat
  <2>1. (ParserInv => Len(lines) \in Nat /\ Len(blocks) \in Nat)'
    BY Lengths, PTL
  <2> QED
    BY <1>1, <2>1
<1> QED
  BY <1>1, <1>3, <1>4, <1>5 DEF IInv, ChunkInv, PathBefore

THEOREM Invariance == Spec => []IInv
<1>1. IInv /\ [Next]_vars => IInv'
  <2>1. IInv /\ UNCHANGED vars => IInv'
    <3> SUFFICES ASSUME IInv, UNCHANGED vars PROVE IInv'
      OBVIOUS
    <3>1. UNCHANGED parserVars /\ pos' = pos /\ path' = path /\ cut' = cut
          /\ gathered' = gathered /\ chunks' = chunks
      BY DEF vars, chunkerVars
    <3>2. ParserInv'
      BY <3>1, SameParser DEF IInv
    <3>3. lines' = lines /\ blocks' = blocks /\ at' = at /\ Lines' = Lines
      BY <3>1 DEF parserVars, Lines
    <3>4. Frontier' = Frontier /\ PathBefore(pos)' = PathBefore(pos)
      BY <3>1, <3>3 DEF Frontier, StartOf, PathBefore
    <3>5. PICK cs, gs, p, f : cs = chunks /\ gs = gathered /\ p = path /\ f = Frontier
      OBVIOUS
    <3>6. Good(cs, gs, p, f)
      BY <3>5 DEF IInv, ChunkInv
    <3>7. Good(chunks, gathered, path, Frontier)'
      BY <3>1, <3>4, <3>5, <3>6, SameText
    <3> QED
      BY <3>1, <3>2, <3>3, <3>4, <3>7 DEF IInv, ChunkInv
  <2> QED
    BY <2>1, ParsingKeeps, ChunkStepKeeps, StartSplitKeeps, CutPieceKeeps, FinishKeeps DEF Next
<1> QED
  BY <1>1, InitInv, PTL DEF Spec

(* For every text and every chunk size, every position the chunker hands to *)
(* the store (start_pos, end_pos, locator) is a line of the text, and every *)
(* level and path is well formed.                                           *)
THEOREM TypeCorrect == Spec => []TypeOK
<1>1. IInv => TypeOK
  <2> SUFFICES ASSUME IInv PROVE TypeOK
    OBVIOUS
  <2>1. /\ lines \in Documents /\ at \in 1 .. Len(lines) + 1
        /\ stack \in Seq([level : 1 .. 3, title : Lines]) /\ blocks \in Seq(Spans)
    BY DEF IInv, ParserInv, Entries
  <2>2. pos \in 1 .. Len(blocks) + 2 /\ path \in Seq(Lines) /\ cut \in 0 .. Len(lines)
    BY DEF IInv, ChunkInv
  <2>3. gathered \in Seq(Spans) /\ chunks \in Seq(ChunkType)
    BY DEF IInv, ChunkInv, Good, GoodGathered, GoodChunks
  <2> QED
    BY <2>1, <2>2, <2>3 DEF TypeOK, ChunkType
<1> QED
  BY <1>1, Invariance, PTL

(* For every text, the branches of _parse_blocks put each line that is not *)
(* blank into one block, in the order of the text.                         *)
THEOREM LinesInBlocks == Spec => []EveryLineInOneBlock
<1>1. IInv => EveryLineInOneBlock
  BY DEF IInv, ParserInv
<1> QED
  BY <1>1, Invariance, PTL

(* For every text and every chunk size, no chunk of _chunk_markdown_page   *)
(* reaches over a title, and its path is that of each of its blocks.       *)
THEOREM StayInSection == Spec => []ChunksStayInSection
<1>1. IInv => ChunksStayInSection
  <2> SUFFICES ASSUME IInv, NEW i \in DOMAIN chunks
               PROVE  /\ \A b \in Range(chunks[i].body) : b.path = chunks[i].path
                      /\ \A h \in Headings : blocks[h].first \notin chunks[i].start .. chunks[i].end
    BY DEF ChunksStayInSection, Range
  <2>1. GoodChunk(chunks[i], Frontier)
    BY DEF IInv, ChunkInv, Good, GoodChunks
  <2> QED
    BY <2>1 DEF GoodChunk, Range
<1> QED
  BY <1>1, Invariance, PTL

(* For every text and every chunk size, once the loop has ended each line  *)
(* of the text that is no title is in a chunk, and the chunks follow the   *)
(* text without overlap.                                                   *)
THEOREM NothingLost == Spec => []NoTextLost
<1>1. IInv => NoTextLost
  <2> SUFFICES ASSUME IInv PROVE NoTextLost
    OBVIOUS
  <2>1. GoodChunks(chunks, Frontier) /\ Covered(chunks, gathered, Frontier)
    BY DEF IInv, ChunkInv, Good
  <2>2. ASSUME Done, NEW i \in DOMAIN blocks, blocks[i].type # "heading",
               NEW k \in blocks[i].first .. blocks[i].last
        PROVE  \E c \in Range(chunks) : \E part \in Range(c.body) : k \in part.first .. part.last
    <3>1. cut = 0 /\ gathered = <<>> /\ Frontier = Len(lines) + 1 /\ ParserInv
      BY <2>2, BlockFacts DEF Done, IInv, ChunkInv, Frontier, StartOf
    <3>2. k < Frontier
      BY <2>2, <3>1, BlockFacts
    <3>3. ~Holds(gathered, k)
      BY <3>1, EmptyFacts DEF Holds
    <3>4. PICK j \in DOMAIN chunks : Holds(chunks[j].body, k)
      BY <2>1, <2>2, <3>2, <3>3 DEF Covered
    <3> QED
      BY <3>4 DEF Holds, Range
  <2>3. \A i, j \in DOMAIN chunks : i < j => chunks[i].end < chunks[j].start
    BY <2>1 DEF GoodChunks
  <2>4. ASSUME NEW n \in DOMAIN chunks, NEW i \in DOMAIN chunks[n].body,
               NEW j \in DOMAIN chunks[n].body, i < j
        PROVE  chunks[n].body[i].last < chunks[n].body[j].first
    BY <2>1, <2>4 DEF GoodChunks, GoodChunk, InOrder
  <2> QED
    BY <2>2, <2>3, <2>4 DEF NoTextLost, Range
<1> QED
  BY <1>1, Invariance, PTL

-----------------------------------------------------------------------------
(* The titles over a block.  bs stands for the blocks, st for the stack.    *)

IsTitle(b) == b.type = "heading"

Over(bs, b) ==
    {h \in DOMAIN bs :
        /\ IsTitle(bs[h]) /\ h <= b
        /\ \A g \in DOMAIN bs : IsTitle(bs[g]) /\ h < g /\ g <= b => bs[g].level > bs[h].level}

(* The entry e of the stack is title h. *)
Enters(e, b) == b.first = e.title /\ b.level = e.level

(* The stack holds the titles over the last block, from the outermost in.  *)
StackIsChain(bs, st) ==
    /\ \A i \in DOMAIN st : \E h \in Over(bs, Len(bs)) : Enters(st[i], bs[h])
    /\ \A h \in Over(bs, Len(bs)) : \E i \in DOMAIN st : Enters(st[i], bs[h])
    /\ \A i, j \in DOMAIN st : i < j => st[i].level < st[j].level /\ st[i].title < st[j].title

PathIsChain(bs, b) ==
    /\ Range(bs[b].path) = {bs[h].first : h \in Over(bs, b)}
    /\ \A i, j \in DOMAIN bs[b].path : i < j => bs[b].path[i] < bs[b].path[j]

ChainInv(bs, st) == StackIsChain(bs, st) /\ \A b \in DOMAIN bs : PathIsChain(bs, b)

LEMMA TitlesOfStack ==
    ASSUME NEW bs, NEW st, StackIsChain(bs, st), NEW b, b = Len(bs), bs[b].path = Titles(st)
    PROVE  PathIsChain(bs, b)
<1>1. PICK p : p = Titles(st)
  OBVIOUS
<1>2. DOMAIN p = DOMAIN st /\ \A i \in DOMAIN st : p[i] = st[i].title
  BY <1>1 DEF Titles
<1>3. Range(p) = {bs[h].first : h \in Over(bs, b)}
  BY <1>2 DEF Range, StackIsChain, Enters
<1>4. \A i, j \in DOMAIN p : i < j => p[i] < p[j]
  BY <1>2 DEF StackIsChain
<1> QED
  BY <1>1, <1>3, <1>4 DEF PathIsChain

(* cs is bs with one more block, new. *)
Longer(cs, bs, new) ==
    /\ Len(bs) \in Nat /\ Len(cs) = Len(bs) + 1
    /\ DOMAIN bs = 1 .. Len(bs) /\ DOMAIN cs = 1 .. Len(bs) + 1
    /\ \A i \in DOMAIN bs : cs[i] = bs[i]
    /\ cs[Len(cs)] = new

LEMMA AppendIsLonger ==
    ASSUME NEW S, NEW s \in Seq(S), NEW e \in S, NEW t, t = Append(s, e)
    PROVE  Longer(t, s, e)
BY AppendFacts DEF Longer

(* It leaves the titles over the others as they were. *)
LEMMA OverKept ==
    ASSUME NEW bs, NEW cs, NEW new, Longer(cs, bs, new), NEW b \in 0 .. Len(bs)
    PROVE  Over(cs, b) = Over(bs, b)
<1>1. /\ DOMAIN bs = 1 .. Len(bs) /\ Len(bs) \in Nat /\ DOMAIN cs = 1 .. Len(bs) + 1
      /\ \A i \in DOMAIN bs : cs[i] = bs[i]
  BY DEF Longer
<1>2. ASSUME NEW h \in Over(cs, b) PROVE h \in Over(bs, b)
  <2>1. h \in DOMAIN bs
    BY <1>1 DEF Over
  <2>2. \A g \in DOMAIN bs : g \in DOMAIN cs
    BY <1>1
  <2> QED
    BY <1>1, <2>1, <2>2 DEF Over
<1>3. ASSUME NEW h \in Over(bs, b) PROVE h \in Over(cs, b)
  <2>1. h \in DOMAIN bs /\ h \in DOMAIN cs
    BY <1>1 DEF Over
  <2>2. \A g \in DOMAIN cs : g <= b => g \in DOMAIN bs
    BY <1>1
  <2> QED
    BY <1>1, <2>1, <2>2 DEF Over
<1> QED
  BY <1>2, <1>3

LEMMA PathsKept ==
    ASSUME NEW bs, NEW cs, NEW new, Longer(cs, bs, new), \A b \in DOMAIN bs : PathIsChain(bs, b)
    PROVE  \A b \in DOMAIN bs : PathIsChain(cs, b)
<1> SUFFICES ASSUME NEW b \in DOMAIN bs PROVE PathIsChain(cs, b)
  OBVIOUS
<1>1. b \in 0 .. Len(bs) /\ \A i \in DOMAIN bs : cs[i] = bs[i]
  BY DEF Longer
<1>2. Over(cs, b) = Over(bs, b) /\ cs[b] = bs[b]
  BY <1>1, OverKept
<1>3. {cs[h].first : h \in Over(bs, b)} = {bs[h].first : h \in Over(bs, b)}
  BY <1>1 DEF Over
<1> QED
  BY <1>2, <1>3 DEF PathIsChain

(* A block that is no title. *)
LEMMA PlainBlock ==
    ASSUME NEW bs, NEW st, ChainInv(bs, st), NEW new,
           ~IsTitle(new), new.path = Titles(st), NEW cs, Longer(cs, bs, new)
    PROVE  ChainInv(cs, st)
<1>1. /\ DOMAIN bs = 1 .. Len(bs) /\ Len(bs) \in Nat /\ DOMAIN cs = 1 .. Len(bs) + 1
      /\ Len(cs) = Len(bs) + 1 /\ cs[Len(cs)] = new
      /\ \A i \in DOMAIN bs : cs[i] = bs[i]
  BY DEF Longer
<1>2. Over(cs, Len(bs)) = Over(bs, Len(bs))
  <2>1. Len(bs) \in 0 .. Len(bs)
    BY <1>1
  <2> QED
    BY <2>1, OverKept
<1>3. Over(cs, Len(cs)) = Over(cs, Len(bs))
  <2>1. \A g \in DOMAIN cs : IsTitle(cs[g]) /\ g <= Len(cs) <=> IsTitle(cs[g]) /\ g <= Len(bs)
    BY <1>1
  <2> QED
    BY <2>1 DEF Over
<1>4. \A h \in Over(bs, Len(bs)) : cs[h] = bs[h]
  BY <1>1 DEF Over
<1>5. StackIsChain(cs, st)
  BY <1>2, <1>3, <1>4 DEF ChainInv, StackIsChain
<1>6. PathIsChain(cs, Len(cs))
  BY <1>1, <1>5, TitlesOfStack
<1>7. \A b \in DOMAIN bs : PathIsChain(cs, b)
  BY PathsKept DEF ChainInv
<1> QED
  BY <1>1, <1>5, <1>6, <1>7 DEF ChainInv

(* The order of the natural numbers is well founded. *)
LEMMA HasLeast ==
    ASSUME NEW T \in SUBSET Nat, T # {}
    PROVE  \E x \in T : \A y \in T : x <= y
<1>1. PICK R : R = OpToRel(<, Nat)
  OBVIOUS
<1>2. IsWellFoundedOn(R, Nat)
  BY <1>1, NatLessThanWellFounded
<1>3. \A x, y \in Nat : y < x => <<y, x>> \in R
  BY <1>1 DEF OpToRel
<1>4. PICK x \in T : \A y \in T : ~(<<y, x>> \in R)
  BY <1>2, WFMin
<1>5. \A y \in T : ~(y < x)
  BY <1>3, <1>4
<1> QED
  BY <1>5

(* Levels grow along the stack: those below a level are its first ones. *)
LEMMA OpenIsPrefix ==
    ASSUME NEW st \in Seq(Entries), NEW level \in Int,
           \A i, j \in DOMAIN st : i < j => st[i].level < st[j].level
    PROVE  \E m \in 0 .. Len(st) :
              /\ {i \in DOMAIN st : st[i].level < level} = 1 .. m
              /\ Cardinality({i \in DOMAIN st : st[i].level < level}) = m
<1> DEFINE Open == {i \in DOMAIN st : st[i].level < level}
           Shut == {i \in Nat : i + 1 \notin Open}
<1>1. Len(st) \in Nat /\ DOMAIN st = 1 .. Len(st) /\ \A i \in DOMAIN st : st[i].level \in Int
  <2>1. \A e \in Entries : e.level \in Int
    BY DEF Entries
  <2> HIDE DEF Open, Shut
  <2> QED
    BY <2>1
<1>2. Len(st) \in Shut
  BY <1>1
<1>3. PICK m \in Shut : \A i \in Shut : m <= i
  <2>1. Shut \in SUBSET Nat /\ Shut # {}
    BY <1>2
  <2> HIDE DEF Shut
  <2> QED
    BY <2>1, HasLeast
<1>4. m \in 0 .. Len(st) /\ m + 1 \notin Open
  BY <1>1, <1>2, <1>3
<1>5. ASSUME NEW i \in 1 .. m PROVE i \in Open
  <2>1. i - 1 \in Nat /\ i - 1 < m
    BY <1>4, <1>5, <1>1
  <2>2. i - 1 \notin Shut
    BY <1>3, <2>1
  <2>3. (i - 1) + 1 = i
    BY <1>1, <1>4
  <2> QED
    BY <2>1, <2>2, <2>3
<1>6. ASSUME NEW i \in Open PROVE i \in 1 .. m
  <2>0. i \in DOMAIN st /\ st[i].level < level
    OBVIOUS
  <2> SUFFICES ASSUME i > m PROVE FALSE
    BY <1>1, <1>4, <2>0
  <2>1. m + 1 \in DOMAIN st
    BY <1>1, <1>4
  <2>2. i = m + 1 \/ (m + 1 < i /\ st[m + 1].level < st[i].level)
    BY <1>1, <1>4, <2>1
  <2> QED
    BY <1>1, <1>4, <2>1, <2>2
<1>7. Open = 1 .. m
  BY <1>5, <1>6
<1>8. Cardinality(1 .. m) = m
  BY <1>1, <1>4, FS_Interval
<1> QED
  BY <1>4, <1>7, <1>8

(* ts is st up to place m, where the levels reach that of the title new,   *)
(* and then the entry of new.                                              *)
Cuts(ts, st, m, new) ==
    /\ m \in Nat /\ DOMAIN ts = 1 .. m + 1 /\ Enters(ts[m + 1], new)
    /\ \A i \in 1 .. m : ts[i] = st[i] /\ i \in DOMAIN st
    /\ \A i \in DOMAIN st : st[i].level < new.level <=> i \in 1 .. m

LEMMA HeadingPathCuts ==
    ASSUME NEW st \in Seq(Entries), NEW new, new.level \in 1 .. 3, new.first \in Lines,
           \A i, j \in DOMAIN st : i < j => st[i].level < st[j].level,
           NEW ts, ts = Append(SubSeq(st, 1, Cardinality({i \in DOMAIN st : st[i].level < new.level})),
                               [level |-> new.level, title |-> new.first])
    PROVE  \E m : Cuts(ts, st, m, new)
<1>1. PICK m \in 0 .. Len(st) :
              /\ {i \in DOMAIN st : st[i].level < new.level} = 1 .. m
              /\ Cardinality({i \in DOMAIN st : st[i].level < new.level}) = m
  <2>1. PICK level \in Int : level = new.level
    OBVIOUS
  <2>2. \E m \in 0 .. Len(st) :
              /\ {i \in DOMAIN st : st[i].level < level} = 1 .. m
              /\ Cardinality({i \in DOMAIN st : st[i].level < level}) = m
    BY OpenIsPrefix
  <2> QED
    BY <2>1, <2>2
<1>2. PICK e : e = [level |-> new.level, title |-> new.first]
  OBVIOUS
<1>3. e \in Entries /\ Enters(e, new)
  BY <1>2 DEF Entries, Enters
<1>4. PICK kept : kept = SubSeq(st, 1, m)
  OBVIOUS
<1>5. Len(st) \in Nat /\ DOMAIN st = 1 .. Len(st) /\ m \in Nat
  OBVIOUS
<1>6. kept \in Seq(Entries) /\ Len(kept) = m /\ \A i \in 1 .. m : kept[i] = st[i]
  BY <1>4, <1>5
<1>7. ts = Append(kept, e)
  BY <1>1, <1>2, <1>4
<1>8. DOMAIN ts = 1 .. m + 1 /\ ts[m + 1] = e /\ \A i \in 1 .. m : ts[i] = kept[i]
  <2>1. PICK longer : longer = Append(kept, e)
    OBVIOUS
  <2>2. /\ DOMAIN kept = 1 .. Len(kept) /\ DOMAIN longer = 1 .. Len(kept) + 1
        /\ \A i \in DOMAIN kept : longer[i] = kept[i]
        /\ longer[Len(kept) + 1] = e
    BY <1>3, <1>6, <2>1, AppendFacts
  <2> QED
    BY <1>6, <1>7, <2>1, <2>2
<1>9. \A i \in 1 .. m : i \in DOMAIN st
  BY <1>5
<1> QED
  BY <1>1, <1>3, <1>5, <1>6, <1>8, <1>9 DEF Cuts

(* The titles over a title: those over the block before it that are of a   *)
(* level above, and itself.                                                *)
LEMMA OverTitle ==
    ASSUME NEW bs, NEW cs, NEW new, Longer(cs, bs, new), IsTitle(new)
    PROVE  Over(cs, Len(cs)) = {h \in Over(bs, Len(bs)) : bs[h].level < new.level} \cup {Len(cs)}
<1>1. /\ DOMAIN bs = 1 .. Len(bs) /\ Len(bs) \in Nat /\ DOMAIN cs = 1 .. Len(bs) + 1
      /\ Len(cs) = Len(bs) + 1 /\ cs[Len(cs)] = new
      /\ \A i \in DOMAIN bs : cs[i] = bs[i]
  BY DEF Longer
<1>2. ASSUME NEW h \in Over(bs, Len(bs)), bs[h].level < new.level PROVE h \in Over(cs, Len(cs))
  <2>1. h \in DOMAIN bs /\ h \in DOMAIN cs /\ h <= Len(cs) /\ cs[h] = bs[h] /\ IsTitle(bs[h])
    BY <1>1 DEF Over
  <2>2. ASSUME NEW g \in DOMAIN cs, IsTitle(cs[g]), h < g, g <= Len(cs)
        PROVE  cs[g].level > cs[h].level
    <3>1. CASE g = Len(cs)
      BY <1>1, <1>2, <2>1, <3>1
    <3>2. CASE g # Len(cs)
      <4>1. g \in DOMAIN bs /\ g <= Len(bs)
        BY <1>1, <3>2
      <4> QED
        BY <1>1, <2>1, <2>2, <4>1 DEF Over
    <3> QED
      BY <3>1, <3>2
  <2> QED
    BY <2>1, <2>2 DEF Over
<1>3. Len(cs) \in Over(cs, Len(cs))
  <2>1. Len(cs) \in DOMAIN cs /\ IsTitle(cs[Len(cs)]) /\ Len(cs) <= Len(cs)
    BY <1>1
  <2>2. \A g \in DOMAIN cs : ~(Len(cs) < g)
    BY <1>1
  <2> QED
    BY <2>1, <2>2 DEF Over
<1>4. ASSUME NEW h \in Over(cs, Len(cs)), h # Len(cs)
      PROVE  h \in Over(bs, Len(bs)) /\ bs[h].level < new.level
  <2>1. h \in DOMAIN cs /\ IsTitle(cs[h])
        /\ \A g \in DOMAIN cs : IsTitle(cs[g]) /\ h < g /\ g <= Len(cs) => cs[g].level > cs[h].level
    BY DEF Over
  <2>2. h \in DOMAIN bs /\ h <= Len(bs) /\ cs[h] = bs[h] /\ h < Len(cs)
    BY <1>1, <1>4, <2>1
  <2>3. Len(cs) \in DOMAIN cs /\ Len(cs) <= Len(cs)
    BY <1>1
  <2>4. bs[h].level < new.level
    <3>1. new.level > bs[h].level
      BY <1>1, <2>1, <2>2, <2>3
    <3> QED
      BY <3>1
  <2>5. \A g \in DOMAIN bs : g \in DOMAIN cs /\ g <= Len(cs) /\ cs[g] = bs[g]
    BY <1>1
  <2> QED
    BY <2>1, <2>2, <2>4, <2>5 DEF Over
<1> QED
  BY <1>2, <1>3, <1>4

(* A title: _heading_path closes those of its level and below. *)
LEMMA TitleBlock ==
    ASSUME NEW bs, NEW st, ChainInv(bs, st), NEW new, IsTitle(new), NEW cs, Longer(cs, bs, new),
           \A i \in DOMAIN bs : bs[i].first < new.first,
           NEW ts, NEW m, Cuts(ts, st, m, new), new.path = Titles(ts)
    PROVE  ChainInv(cs, ts)
<1>1. /\ DOMAIN cs = DOMAIN bs \cup {Len(cs)} /\ cs[Len(cs)] = new
      /\ \A i \in DOMAIN bs : cs[i] = bs[i]
  BY DEF Longer
<1>2. \A h \in Over(bs, Len(bs)) : cs[h] = bs[h] /\ h \in DOMAIN bs
  BY <1>1 DEF Over
<1>3. \A h : h \in Over(cs, Len(cs)) <=> h = Len(cs) \/ (h \in Over(bs, Len(bs)) /\ bs[h].level < new.level)
  BY OverTitle
<1>4. /\ m \in Nat /\ m + 1 \in DOMAIN ts /\ Enters(ts[m + 1], new)
      /\ \A i \in DOMAIN ts : i \in 1 .. m \/ i = m + 1
      /\ \A i \in 1 .. m : ts[i] = st[i] /\ i \in DOMAIN st /\ i \in DOMAIN ts
      /\ \A i \in DOMAIN st : st[i].level < new.level <=> i \in 1 .. m
  BY DEF Cuts
<1>5. ASSUME NEW i \in 1 .. m
      PROVE  /\ st[i].level < new.level /\ st[i].title < new.first
             /\ \E h \in Over(bs, Len(bs)) : Enters(st[i], bs[h]) /\ h \in Over(cs, Len(cs))
  <2>1. i \in DOMAIN st /\ st[i].level < new.level
    BY <1>4
  <2>2. PICK h \in Over(bs, Len(bs)) : Enters(st[i], bs[h])
    BY <2>1 DEF ChainInv, StackIsChain
  <2>3. bs[h].first < new.first /\ bs[h].level = st[i].level /\ bs[h].first = st[i].title
    BY <1>2, <2>2 DEF Enters
  <2> QED
    BY <1>3, <2>1, <2>2, <2>3
<1>6. StackIsChain(cs, ts)
  <2>1. ASSUME NEW i \in DOMAIN ts
        PROVE  \E h \in Over(cs, Len(cs)) : Enters(ts[i], cs[h])
    <3>1. CASE i = m + 1
      BY <1>1, <1>3, <1>4, <3>1
    <3>2. CASE i \in 1 .. m
      BY <1>2, <1>4, <1>5, <3>2
    <3> QED
      BY <1>4, <3>1, <3>2
  <2>2. ASSUME NEW h \in Over(cs, Len(cs))
        PROVE  \E i \in DOMAIN ts : Enters(ts[i], cs[h])
    <3>1. CASE h = Len(cs)
      BY <1>1, <1>4, <3>1
    <3>2. CASE h # Len(cs)
      <4>1. h \in Over(bs, Len(bs)) /\ bs[h].level < new.level
        BY <1>3, <3>2
      <4>2. PICK i \in DOMAIN st : Enters(st[i], bs[h])
        BY <4>1 DEF ChainInv, StackIsChain
      <4>3. st[i].level = bs[h].level
        BY <4>2 DEF Enters
      <4>4. i \in 1 .. m
        BY <1>4, <4>1, <4>3
      <4> QED
        BY <1>2, <1>4, <4>1, <4>2, <4>4
    <3> QED
      BY <3>1, <3>2
  <2>3. ASSUME NEW i \in DOMAIN ts, NEW j \in DOMAIN ts, i < j
        PROVE  ts[i].level < ts[j].level /\ ts[i].title < ts[j].title
    <3>1. i \in 1 .. m /\ i \in DOMAIN st /\ ts[i] = st[i]
      <4>1. i # m + 1
        BY <1>4, <2>3
      <4> QED
        BY <1>4, <4>1
    <3>2. CASE j = m + 1
      <4>1. ts[j].level = new.level /\ ts[j].title = new.first
        BY <1>4, <3>2 DEF Enters
      <4> QED
        BY <1>5, <3>1, <4>1
    <3>3. CASE j \in 1 .. m
      <4>1. j \in DOMAIN st /\ ts[j] = st[j]
        BY <1>4, <3>3
      <4> QED
        BY <2>3, <3>1, <4>1 DEF ChainInv, StackIsChain
    <3> QED
      BY <1>4, <3>2, <3>3
  <2> QED
    BY <2>1, <2>2, <2>3 DEF StackIsChain
<1>7. PathIsChain(cs, Len(cs))
  BY <1>1, <1>6, TitlesOfStack
<1>8. \A b \in DOMAIN bs : PathIsChain(cs, b)
  BY PathsKept DEF ChainInv
<1> QED
  BY <1>1, <1>6, <1>7, <1>8 DEF ChainInv

(* Every branch that adds a block. *)
LEMMA AddBlockChains ==
    ASSUME ParserInv, ChainInv(blocks, stack), at <= Len(lines),
           NEW type \in {"heading", "list", "blockquote", "paragraph"} \cup Whole,
           NEW level \in 0 .. 3, NEW j \in at .. Len(lines), NEW s \in Seq(Entries),
           type # "heading" => s = stack,
           type = "heading" => level \in 1 .. 3 /\ s = HeadingPath(level, at),
           AddBlock(type, level, at, j, s)
    PROVE  ChainInv(blocks', stack')
<1>1. PICK last \in at .. j : blocks' = Append(blocks, [type |-> type, level |-> level,
                                     first |-> at, last |-> last, path |-> Titles(s)])
  BY DEF AddBlock
<1>2. PICK new : new = [type |-> type, level |-> level, first |-> at, last |-> last,
                        path |-> Titles(s)]
  OBVIOUS
<1>3. stack' = s /\ blocks' = Append(blocks, new)
  BY <1>1, <1>2 DEF AddBlock
<1>4. last \in Lines /\ at \in Lines
  BY LinesType DEF ParserInv, Lines
<1>5. /\ new \in Spans /\ new.type = type /\ new.level = level /\ new.first = at
      /\ new.path = Titles(s)
  BY <1>2, <1>4, TitlesType DEF Spans
<1>6. PICK bs, st, cs : bs = blocks /\ st = stack /\ cs = blocks'
  OBVIOUS
<1>7. /\ st \in Seq(Entries) /\ ChainInv(bs, st) /\ Longer(cs, bs, new)
      /\ \A i \in DOMAIN bs : bs[i].first < new.first
  <2>1. \A i \in DOMAIN blocks : blocks[i].first < at
    BY BlockFacts DEF ParserInv
  <2> QED
    BY <1>3, <1>5, <1>6, <2>1, AppendIsLonger DEF ParserInv
<1>8. CASE type # "heading"
  BY <1>3, <1>5, <1>6, <1>7, <1>8, PlainBlock DEF IsTitle
<1>9. CASE type = "heading"
  <2>1. s = Append(SubSeq(st, 1, Cardinality({i \in DOMAIN st : st[i].level < new.level})),
                   [level |-> new.level, title |-> new.first])
    BY <1>5, <1>6, <1>9 DEF HeadingPath
  <2>2. PICK m : Cuts(s, st, m, new)
    BY <1>4, <1>5, <1>7, <1>9, <2>1, HeadingPathCuts DEF ChainInv, StackIsChain
  <2>3. ChainInv(cs, s)
    BY <1>5, <1>7, <1>9, <2>2, TitleBlock DEF IsTitle
  <2> QED
    BY <1>3, <1>6, <2>3
<1> QED
  BY <1>8, <1>9

LEMMA ParseChains == ParserInv /\ ChainInv(blocks, stack) /\ ParseStep => ChainInv(blocks', stack')
<1> SUFFICES ASSUME ParserInv, ChainInv(blocks, stack), ParseStep PROVE ChainInv(blocks', stack')
  OBVIOUS
<1>1. /\ Len(lines) \in Nat /\ at \in 1 .. Len(lines) /\ at \in Lines
      /\ at <= Len(lines) /\ stack \in Seq(Entries)
  BY LinesType DEF ParserInv, ParseStep, Lines
<1>2. CASE SkipBlank
  BY <1>2 DEF SkipBlank
<1>3. CASE AtxHeading
  <2>1. PICK level : level = Level(lines[at])
    OBVIOUS
  <2>2. lines[at] \in Atx
    BY <1>3, <1>1 DEF AtxHeading, Starts
  <2>3. level \in 1 .. 3
    BY <2>1, <2>2, LevelType
  <2>4. PICK s : s = HeadingPath(level, at)
    OBVIOUS
  <2>5. AddBlock("heading", level, at, at, s)
    BY <1>3, <2>1, <2>4 DEF AtxHeading
  <2>6. s \in Seq(Entries)
    BY <1>1, <2>3, <2>4, HeadingPathType
  <2> QED
    BY <1>1, <2>3, <2>4, <2>5, <2>6, AddBlockChains
<1>4. CASE SetextHeading
  <2>1. PICK level : level = Level(lines[at + 1])
    OBVIOUS
  <2>2. IsSetextHeading(at)
    BY <1>4, <1>1 DEF SetextHeading, Starts
  <2>3. level \in 1 .. 3 /\ at + 1 \in at .. Len(lines)
    BY <1>1, <2>1, <2>2, LevelType DEF IsSetextHeading
  <2>4. PICK s : s = HeadingPath(level, at)
    OBVIOUS
  <2>5. AddBlock("heading", level, at, at + 1, s)
    BY <1>4, <2>1, <2>4 DEF SetextHeading
  <2>6. s \in Seq(Entries)
    BY <1>1, <2>3, <2>4, HeadingPathType
  <2> QED
    BY <1>1, <2>3, <2>4, <2>5, <2>6, AddBlockChains
<1>5. CASE EnclosedBlock
  <2>0. PICK type : type = Starts(at)
    OBVIOUS
  <2>1. PICK j \in at .. Len(lines) : AddBlock(type, 0, at, j, stack)
    BY <1>5, <2>0 DEF EnclosedBlock
  <2>2. type \in {"heading", "list", "blockquote", "paragraph"} \cup Whole /\ type # "heading"
    BY <1>5, <2>0 DEF EnclosedBlock, Whole
  <2> QED
    BY <1>1, <2>1, <2>2, AddBlockChains
<1>6. CASE Table
  <2>1. PICK j \in at + 1 .. Len(lines) : AddBlock("table", 0, at, j, stack)
    BY <1>6 DEF Table
  <2>2. j \in at .. Len(lines) /\ "table" \in Whole
    BY <1>1 DEF Whole
  <2> QED
    BY <1>1, <2>1, <2>2, AddBlockChains
<1>7. CASE ListOrQuote
  <2>0. PICK type : type = Starts(at)
    OBVIOUS
  <2>1. PICK j \in at .. Len(lines) : AddBlock(type, 0, at, j, stack)
    BY <1>7, <2>0 DEF ListOrQuote
  <2>2. type \in {"list", "blockquote"}
    BY <1>7, <2>0 DEF ListOrQuote
  <2> QED
    BY <1>1, <2>1, <2>2, AddBlockChains
<1>8. CASE Paragraph
  <2>1. PICK j \in at .. Len(lines) : AddBlock("paragraph", 0, at, j, stack)
    BY <1>8 DEF Paragraph
  <2> QED
    BY <1>1, <2>1, AddBlockChains
<1> QED
  BY <1>2, <1>3, <1>4, <1>5, <1>6, <1>7, <1>8 DEF ParseStep

(* For every text, the path that _heading_path gives a block is the chain  *)
(* of the titles that no later title of their level or above has closed.   *)
THEOREM PathsAreChains == Spec => []PathIsHeadingChain
<1>1. Init => ChainInv(blocks, stack)
  <2> SUFFICES ASSUME Init PROVE ChainInv(blocks, stack)
    OBVIOUS
  <2>1. blocks = <<>> /\ stack = <<>> /\ DOMAIN blocks = {} /\ DOMAIN stack = {}
    BY EmptyFacts DEF Init, ParserInit
  <2> QED
    BY <2>1 DEF ChainInv, StackIsChain, Over
<1>2. IInv /\ ChainInv(blocks, stack) /\ [Next]_vars => ChainInv(blocks, stack)'
  <2>1. ChainInv(blocks, stack) /\ UNCHANGED <<blocks, stack>> => ChainInv(blocks', stack')
    OBVIOUS
  <2>2. IInv /\ ChainInv(blocks, stack) /\ ParseStep => ChainInv(blocks', stack')
    BY ParseChains DEF IInv
  <2>3. [Next]_vars => UNCHANGED <<blocks, stack>> \/ ParseStep
    BY DEF Next, ChunkStep, StartSplit, CutPiece, Finish, vars, parserVars
  <2>4. ChainInv(blocks, stack)' <=> ChainInv(blocks', stack')
    OBVIOUS
  <2> QED
    BY <2>1, <2>2, <2>3, <2>4
<1>3. IInv /\ ChainInv(blocks, stack) => PathIsHeadingChain
  <2> SUFFICES ASSUME ParserInv, ChainInv(blocks, stack), NEW b \in DOMAIN blocks
               PROVE  LET S == {h \in Headings :
                            /\ h <= b
                            /\ \A g \in Headings : g \in h + 1 .. b => blocks[g].level > blocks[h].level}
                      IN  /\ Range(blocks[b].path) = {blocks[h].first : h \in S}
                          /\ \A i, j \in DOMAIN blocks[b].path :
                                i < j => blocks[b].path[i] < blocks[b].path[j]
    BY DEF PathIsHeadingChain, IInv
  <2>1. Over(blocks, b) = {h \in Headings :
                            /\ h <= b
                            /\ \A g \in Headings : g \in h + 1 .. b => blocks[g].level > blocks[h].level}
    <3>1. \A g, h \in DOMAIN blocks : h < g /\ g <= b <=> g \in h + 1 .. b
      BY BlockFacts
    <3> QED
      BY <3>1 DEF Over, Headings, IsTitle
  <2> QED
    BY <2>1 DEF ChainInv, PathIsChain
<1> QED
  BY <1>1, <1>2, <1>3, Invariance, PTL DEF Spec

-----------------------------------------------------------------------------
(* The size of the chunks.  What is gathered fits the path it is under, and *)
(* a chunk is made of that, of one block that does not fit, or of a piece.  *)

SizeIn(ls, p, bs) ==
    Len(p) + Cardinality(UNION {{i} \X {k \in bs[i].first .. bs[i].last : ls[k] # "blank"} :
                                i \in DOMAIN bs})

HasReason(ls, c) ==
    SizeIn(ls, c.path, c.body) > ChunkSize =>
        /\ Len(c.body) = 1
        /\ c.body[1].type \in Whole \/ Len(c.path) + MinBudget > ChunkSize

Reasons(ls, cs) == \A i \in DOMAIN cs : HasReason(ls, cs[i])

SizesInv ==
    /\ gathered # <<>> => ~(SizeIn(lines, path, gathered) > ChunkSize)
    /\ Reasons(lines, chunks)

LEMMA SameSize == \A p, bs : Size(p, bs) = SizeIn(lines, p, bs)
BY DEF Size, SizeIn, Body

(* A single span has at most its lines for a body. *)
LEMMA PieceSize ==
    ASSUME NEW p \in Seq(Lines), NEW b, b.first \in Int, b.last \in Int, b.first <= b.last
    PROVE  /\ SizeIn(lines, p, <<b>>) \in Int
           /\ SizeIn(lines, p, <<b>>) <= Len(p) + (b.last - b.first + 1)
<1>1. UNION {{i} \X Body(<<b>>[i]) : i \in DOMAIN <<b>>} = {1} \X Body(b)
  OBVIOUS
<1>2. Body(b) \subseteq b.first .. b.last
  BY DEF Body
<1>3. /\ IsFiniteSet(b.first .. b.last)
      /\ Cardinality(b.first .. b.last) = b.last - b.first + 1
  BY FS_Interval
<1>4. /\ IsFiniteSet(Body(b)) /\ Cardinality(Body(b)) \in Nat
      /\ Cardinality(Body(b)) <= b.last - b.first + 1
  BY <1>2, <1>3, FS_Subset, FS_CardinalityType
<1>5. Cardinality({1} \X Body(b)) = Cardinality(Body(b))
  <2>1. IsFiniteSet({1}) /\ Cardinality({1}) = 1
    BY FS_Singleton
  <2>2. Cardinality({1} \X Body(b)) = 1 * Cardinality(Body(b))
    BY <1>4, <2>1, FS_Product
  <2> QED
    BY <1>4, <2>2
<1>6. Size(p, <<b>>) = Len(p) + Cardinality(Body(b))
  <2>1. PICK bs : bs = <<b>>
    OBVIOUS
  <2>2. Size(p, bs) = Len(p) + Cardinality({1} \X Body(b))
    BY <1>1, <2>1 DEF Size
  <2> QED
    BY <1>5, <2>1, <2>2
<1>7. Len(p) \in Nat
  OBVIOUS
<1> QED
  BY <1>4, <1>6, <1>7, SameSize

(* One more chunk. *)
LEMMA OneMore ==
    ASSUME NEW ls, NEW cs \in Seq(ChunkType), Reasons(ls, cs), NEW c \in ChunkType, HasReason(ls, c)
    PROVE  Append(cs, c) \in Seq(ChunkType) /\ Reasons(ls, Append(cs, c))
<1>1. PICK t : t = Append(cs, c)
  OBVIOUS
<1>2. /\ t \in Seq(ChunkType) /\ DOMAIN cs = 1 .. Len(cs) /\ DOMAIN t = 1 .. Len(cs) + 1
      /\ Len(cs) \in Nat /\ \A i \in DOMAIN cs : t[i] = cs[i]
      /\ t[Len(cs) + 1] = c
  BY <1>1, AppendFacts
<1>3. ASSUME NEW i \in DOMAIN t PROVE HasReason(ls, t[i])
  <2>1. i \in DOMAIN cs \/ i = Len(cs) + 1
    BY <1>2
  <2> QED
    BY <1>2, <2>1 DEF Reasons
<1> QED
  BY <1>1, <1>2, <1>3 DEF Reasons

LEMMA OneSpanChunk ==
    ASSUME ParserInv, path \in Seq(Lines), NEW b \in Spans
    PROVE  /\ Chunk(path, <<b>>) \in ChunkType
           /\ Chunk(path, <<b>>).path = path /\ Chunk(path, <<b>>).body = <<b>>
<1>1. b.first \in Lines /\ b.last \in Lines
  BY SpanTypes DEF ParserInv
<1>2. <<b>> \in Seq(Spans) /\ Len(<<b>>) = 1 /\ <<b>>[1] = b
  OBVIOUS
<1>3. Chunk(path, <<b>>) = [path |-> path, start |-> b.first, end |-> b.last, body |-> <<b>>]
  BY <1>2 DEF Chunk
<1>4. PICK bs : bs = <<b>>
  OBVIOUS
<1>5. /\ [path |-> path, start |-> b.first, end |-> b.last, body |-> bs] \in ChunkType
  BY <1>1, <1>2, <1>4 DEF ChunkType
<1> QED
  BY <1>3, <1>4, <1>5

(* What was gathered fits, so that its chunk is not over the size. *)
LEMMA FlushHasReasons ==
    ASSUME IInv, SizesInv
    PROVE  Flushed \in Seq(ChunkType) /\ Reasons(lines, Flushed)
<1>1. ParserInv /\ path \in Seq(Lines) /\ chunks \in Seq(ChunkType)
      /\ GoodGathered(gathered, path, Frontier) /\ Frontier \in Int
  BY BlockFacts DEF IInv, ChunkInv, Good, GoodChunks, Frontier
<1>2. CASE gathered = <<>>
  BY <1>1, <1>2 DEF Flushed, SizesInv
<1>3. CASE gathered # <<>>
  <2>1. PICK c : c = Chunk(path, gathered)
    OBVIOUS
  <2>2. c \in ChunkType
    BY <1>1, <1>3, <2>1, MakeChunk DEF GoodChunk
  <2>3. c.path = path /\ c.body = gathered
    BY <2>1 DEF Chunk
  <2>4. HasReason(lines, c)
    BY <1>3, <2>3 DEF HasReason, SizesInv
  <2>5. Flushed = Append(chunks, c)
    BY <1>3, <2>1 DEF Flushed
  <2> QED
    BY <1>1, <2>2, <2>4, <2>5, OneMore DEF SizesInv
<1> QED
  BY <1>2, <1>3

LEMMA SizesStep == IInv /\ IInv' /\ SizesInv /\ Next => SizesInv'
<1> SUFFICES ASSUME IInv, IInv', SizesInv, Next PROVE SizesInv'
  OBVIOUS
<1>0. ParserInv /\ path \in Seq(Lines) /\ chunks \in Seq(ChunkType)
  BY DEF IInv, ChunkInv, Good, GoodChunks
<1>1. CASE ParseStep /\ UNCHANGED chunkerVars
  <2>1. gathered = <<>> /\ chunks = <<>>
    BY <1>1 DEF IInv, ChunkInv, ParseStep
  <2>2. gathered' = <<>> /\ chunks' = <<>>
    BY <1>1, <2>1 DEF chunkerVars
  <2> QED
    BY <2>2, EmptyFacts DEF SizesInv, Reasons
<1>2. CASE ChunkStep
  <2>1. at > Len(lines) /\ pos <= Len(blocks) /\ cut = 0 /\ UNCHANGED parserVars
    BY <1>2 DEF ChunkStep
  <2>2. Block \in Spans /\ lines' = lines
    BY <2>1, AtBlock DEF Block, parserVars
  <2>3. CASE NewSection
    <3>1. gathered' = <<>> /\ chunks' = Flushed
      BY <2>3 DEF NewSection
    <3> QED
      BY <2>2, <3>1, FlushHasReasons DEF SizesInv
  <2>4. CASE Gather
    <3>1. chunks' = chunks /\ path' = path /\ gathered' = Append(gathered, Block)
      BY <2>4 DEF Gather
    <3>2. ~(SizeIn(lines, path, gathered) > ChunkSize)'
      BY <2>2, <2>4, <3>1, SameSize DEF Gather, TooLong
    <3> QED
      BY <2>2, <3>1, <3>2 DEF SizesInv
  <2>5. CASE Overflow
    <3>1. chunks' = Flushed /\ path' = path /\ gathered' = <<Block>>
      BY <2>5 DEF Overflow
    <3>2. ~(SizeIn(lines, path, gathered) > ChunkSize)'
      BY <2>2, <2>5, <3>1, SameSize DEF Overflow, TooLong
    <3> QED
      BY <2>2, <3>1, <3>2, FlushHasReasons DEF SizesInv
  <2>6. CASE TakeWhole
    <3>1. chunks' = Append(Flushed, Chunk(path, <<Block>>)) /\ gathered' = <<>>
          /\ Block.type \in Whole
      BY <2>6 DEF TakeWhole
    <3>2. PICK b : b = Block
      OBVIOUS
    <3>3. PICK c : c = Chunk(path, <<b>>)
      OBVIOUS
    <3>4. c \in ChunkType /\ c.path = path /\ c.body = <<b>>
      BY <1>0, <2>2, <3>2, <3>3, OneSpanChunk
    <3>5. HasReason(lines, c)
      BY <3>1, <3>2, <3>4 DEF HasReason
    <3>6. chunks' = Append(Flushed, c)
      BY <3>1, <3>2, <3>3
    <3>7. Reasons(lines, chunks')
      BY <3>4, <3>5, <3>6, FlushHasReasons, OneMore
    <3> QED
      BY <2>2, <3>1, <3>7 DEF SizesInv
  <2> QED
    BY <1>2, <2>3, <2>4, <2>5, <2>6 DEF ChunkStep
<1>3. CASE StartSplit
  <2>1. gathered' = <<>> /\ chunks' = Flushed /\ UNCHANGED parserVars
    BY <1>3 DEF StartSplit
  <2> QED
    BY <2>1, FlushHasReasons DEF SizesInv, parserVars
<1>4. CASE CutPiece
  <2>0. PICK last \in cut .. cut + Budget(path) - 1 : \E b :
           /\ b = [type |-> Block.type, level |-> Block.level,
                   first |-> cut, last |-> last, path |-> Block.path]
           /\ chunks' = Append(chunks, Chunk(path, <<b>>))
           /\ CutsAt(last)
    BY <1>4 DEF CutPiece
  <2>1. PICK b :
           /\ b = [type |-> Block.type, level |-> Block.level,
                   first |-> cut, last |-> last, path |-> Block.path]
           /\ chunks' = Append(chunks, Chunk(path, <<b>>))
           /\ CutsAt(last)
    BY <2>0
  <2>2. /\ gathered' = gathered /\ gathered = <<>> /\ UNCHANGED parserVars
        /\ pos \in DOMAIN blocks /\ cut \in blocks[pos].first .. blocks[pos].last
    BY <1>4 DEF CutPiece, IInv, ChunkInv
  <2>3. Block \in Spans /\ cut \in Lines /\ Block.last \in Lines /\ cut \in Int
        /\ Block.last \in Int /\ cut <= Block.last /\ Len(lines) \in Nat
    BY <1>0, <2>2, BlockFacts DEF Block, Lines
  <2>4. last \in Lines /\ last \in Int /\ Budget(path) \in Int /\ Len(path) \in Nat
    <3>1. Budget(path) \in Int /\ Len(path) \in Nat
      BY <1>0, BudgetType
    <3>2. last \in cut .. Block.last
      BY <2>1, <2>3, <3>1 DEF CutsAt
    <3> QED
      BY <2>3, <3>1, <3>2 DEF Lines
  <2>5. b \in Spans
    BY <2>1, <2>3, <2>4 DEF Spans
  <2>6. PICK c : c = Chunk(path, <<b>>)
    OBVIOUS
  <2>7. c \in ChunkType /\ c.path = path /\ c.body = <<b>>
    BY <1>0, <2>5, <2>6, OneSpanChunk
  <2>8. SizeIn(lines, path, <<b>>) \in Int /\ SizeIn(lines, path, <<b>>) <= Len(path) + (last - cut + 1)
    <3>1. b.first = cut /\ b.last = last /\ cut <= last
      BY <2>1, <2>3, <2>4
    <3> QED
      BY <1>0, <2>3, <2>4, <3>1, PieceSize
  <2>9. HasReason(lines, c)
    <3>1. SizeIn(lines, path, <<b>>) <= Len(path) + Budget(path)
      BY <2>1, <2>3, <2>4, <2>8
    <3>2. SizeIn(lines, path, <<b>>) > ChunkSize => Len(path) + MinBudget > ChunkSize
      BY <2>4, <2>8, <3>1, SizesAssumption DEF Budget
    <3>3. Len(<<b>>) = 1
      OBVIOUS
    <3> QED
      BY <2>7, <3>2, <3>3 DEF HasReason
  <2>10. Reasons(lines, chunks')
    BY <1>0, <2>1, <2>6, <2>7, <2>9, OneMore DEF SizesInv
  <2> QED
    BY <2>2, <2>10 DEF SizesInv, parserVars
<1>5. CASE Finish
  <2>1. gathered' = <<>> /\ chunks' = Flushed /\ UNCHANGED parserVars
    BY <1>5 DEF Finish
  <2> QED
    BY <2>1, FlushHasReasons DEF SizesInv, parserVars
<1> QED
  BY <1>1, <1>2, <1>3, <1>4, <1>5 DEF Next

(* For every text, chunk size and least budget: _chunk_markdown_page makes *)
(* a chunk over the size only of one block of a kind that is never split   *)
(* (a long table and a long code block are among those), or                *)
(* under titles that leave less than the least budget.                     *)
THEOREM OversizeIsNeverGathered == Spec => []OversizeIsOneBlock
<1>1. Init => SizesInv
  BY EmptyFacts DEF Init, SizesInv, Reasons
<1>2. IInv /\ IInv' /\ SizesInv /\ [Next]_vars => SizesInv'
  <2>1. SizesInv /\ UNCHANGED vars => SizesInv'
    BY DEF SizesInv, vars, parserVars, chunkerVars
  <2> QED
    BY <2>1, SizesStep
<1>3. SizesInv => OversizeIsOneBlock
  BY SameSize DEF SizesInv, Reasons, OversizeIsOneBlock, HasReason, Range
<1> QED
  BY <1>1, <1>2, <1>3, Invariance, PTL DEF Spec

-----------------------------------------------------------------------------
(* The windows of the texts that are not Markdown.                         *)

(* The overlap in force always lets a window advance. *)
LEMMA OverlapIsShorter == Overlap \in Nat /\ Overlap < WindowSize
  BY WindowAssumption DEF Overlap

IsSequence(s) == s \in Seq(Range(s))

(* What is kept of a sequence is one. *)
LEMMA KeptIsSequence ==
  ASSUME NEW t, IsSequence(t), NEW positions \in SUBSET DOMAIN t
  PROVE  IsSequence(Kept(t, positions))
<1> DEFINE s == Kept(t, positions)
           m == Cardinality(positions)
<1>1. m \in Nat
  <2>1. DOMAIN t = 1 .. Len(t) /\ Len(t) \in Nat
    BY DEF IsSequence
  <2>2. IsFiniteSet(1 .. Len(t))
    <3>1. 1 \in Int /\ Len(t) \in Int
      BY <2>1
    <3>2. QED
      BY <3>1, FS_Interval
  <2>3. IsFiniteSet(positions)
    BY <2>1, <2>2, FS_Subset
  <2>4. QED
    BY <2>3, FS_CardinalityType
<1>2. s = [n \in 1 .. m |-> s[n]]
  BY DEF Kept
<1> HIDE DEF s, m
<1>3. s \in [1 .. m -> Range(s)]
  BY <1>2 DEF Range
<1>4. s \in Seq(Range(s))
  BY <1>1, <1>3
<1>5. QED
  BY <1>4 DEF IsSequence, s

LEMMA CleanIsSequence ==
  ASSUME NEW t \in Seq(STRING)
  PROVE  IsSequence(CleanText(t))
<1>1. IsSequence(t)
  <2>1. t \in [1 .. Len(t) -> Range(t)] /\ Len(t) \in Nat
    BY DEF Range
  <2>2. QED
    BY <2>1 DEF IsSequence
<1>2. ASSUME NEW s, IsSequence(s), NEW char, NEW most
      PROVE  IsSequence(Squeezed(s, char, most))
  BY <1>2, KeptIsSequence DEF Squeezed
<1>3. ASSUME NEW s, IsSequence(s)
      PROVE  IsSequence(Stripped(s))
  BY <1>3, KeptIsSequence DEF Stripped
<1>4. QED
  BY <1>1, <1>2, <1>3 DEF CleanText

-----------------------------------------------------------------------------
(* The invariant.                                                          *)

WindowType == [page : Nat, from : Nat, to : Nat]

PlaceOK ==
    /\ pages \in Seq(Seq(STRING))
    /\ page \in Nat \ {0}
    /\ start \in Nat
    /\ windows \in Seq(WindowType)
    /\ page \in DOMAIN pages => text = CleanText(pages[page])

CarriedBy(w, p, i, j) == w.page = p /\ i > w.from /\ j <= w.to

(* Passages no longer than the overlap and one character. *)
Passage(t, i, j) == i \in Shows(t) /\ j \in Shows(t) /\ j \in i .. i + Overlap

EarlierPagesLaid ==
    \A p \in 1 .. page - 1 : \A i, j :
        Passage(CleanText(pages[p]), i, j) => \E w \in Range(windows) : CarriedBy(w, p, i, j)

(* Of this page, those that begin before the next window are in one. *)
ThisPageLaid ==
    page \in DOMAIN pages =>
        \A i, j : Passage(text, i, j) /\ i <= start =>
                    \E w \in Range(windows) : CarriedBy(w, page, i, j)

Follow(v, w) ==
    \/ v.page < w.page
    \/ v.page = w.page /\ v.from < w.from /\ v.to < w.to

WindowsInOrder == \A v, w \in DOMAIN windows : v < w => Follow(windows[v], windows[w])

(* The windows of this page end before its end, and reach no more than the *)
(* overlap into the next.                                                  *)
Behind ==
    \A w \in Range(windows) :
        /\ w.page <= page
        /\ w.page = page => w.from < start /\ w.to <= start + Overlap /\ w.to < Len(text)

WindowsInv == PlaceOK /\ EarlierPagesLaid /\ ThisPageLaid /\ WindowsInOrder /\ Behind

LEMMA TextType ==
  ASSUME PlaceOK, page \in DOMAIN pages
  PROVE  IsSequence(text) /\ Len(text) \in Nat /\ DOMAIN text = 1 .. Len(text)
<1>1. pages[page] \in Seq(STRING)
  BY DEF PlaceOK
<1>2. IsSequence(text)
  BY <1>1, CleanIsSequence DEF PlaceOK
<1>3. QED
  BY <1>2 DEF IsSequence

LEMMA EndType ==
  ASSUME PlaceOK, page \in DOMAIN pages
  PROVE  /\ End \in Nat /\ End <= Len(text) /\ End <= start + WindowSize
         /\ End < Len(text) => End = start + WindowSize
  BY TextType, WindowAssumption DEF End, PlaceOK

(* The windows after a turn of the loop: the old ones, and this one when   *)
(* something in it shows.                                                  *)
LEMMA LaidWindows ==
  ASSUME WindowsInv, page \in DOMAIN pages
  PROVE  /\ Laid \in Seq(WindowType)
         /\ Range(windows) \subseteq Range(Laid)
         /\ \A w \in Range(Laid) : w \in Range(windows)
                                     \/ w = [page |-> page, from |-> start, to |-> End]
         /\ \A i \in Shows(text) : i \in start + 1 .. End =>
                [page |-> page, from |-> start, to |-> End] \in Range(Laid)
         /\ \A v, w \in DOMAIN Laid : v < w => Follow(Laid[v], Laid[w])
<1> DEFINE new == [page |-> page, from |-> start, to |-> End]
<1>1. windows \in Seq(WindowType) /\ new \in WindowType
  BY EndType DEF WindowsInv, PlaceOK, WindowType
<1>2. CASE Laid = windows
  <2>1. ~ \E k \in Shows(text) : k \in start + 1 .. End
    <3> SUFFICES ASSUME \E k \in Shows(text) : k \in start + 1 .. End PROVE FALSE
      OBVIOUS
    <3>1. Laid = Append(windows, new)
      BY DEF Laid
    <3> HIDE DEF new
    <3>2. Len(Laid) = Len(windows) + 1 /\ Len(windows) \in Nat
      BY <1>1, <3>1
    <3>3. QED
      BY <1>2, <3>2
  <2>2. QED
    BY <1>1, <1>2, <2>1 DEF WindowsInv, WindowsInOrder
<1>3. CASE Laid = Append(windows, new)
  <2> HIDE DEF new
  <2>1. /\ Laid \in Seq(WindowType) /\ Len(Laid) = Len(windows) + 1
        /\ Len(windows) \in Nat /\ DOMAIN windows = 1 .. Len(windows)
        /\ DOMAIN Laid = 1 .. Len(windows) + 1
        /\ Laid[Len(windows) + 1] = new
        /\ \A k \in DOMAIN windows : Laid[k] = windows[k]
    BY <1>1, <1>3
  <2>2. Range(Laid) = Range(windows) \cup {new}
    BY <2>1 DEF Range
  <2>3. ASSUME NEW v \in DOMAIN windows
        PROVE  Follow(windows[v], new)
    <3>1. windows[v] \in Range(windows) /\ windows[v] \in WindowType
      BY <1>1 DEF Range
    <3>2. page \in Nat /\ start \in Nat /\ Len(text) \in Nat
      BY TextType DEF WindowsInv, PlaceOK
    <3>3. windows[v].page \in Nat /\ windows[v].to \in Nat
      BY <3>1 DEF WindowType
    <3>4. windows[v].page = page => windows[v].from < start /\ windows[v].to < End
      <4>1. windows[v].page = page => /\ windows[v].from < start
                                      /\ windows[v].to <= start + Overlap
                                      /\ windows[v].to < Len(text)
        BY <3>1 DEF WindowsInv, Behind
      <4>2. QED
        BY <3>2, <3>3, <4>1, OverlapIsShorter, WindowAssumption DEF End
    <3>5. windows[v].page <= page
      BY <3>1 DEF WindowsInv, Behind
    <3>6. QED
      BY <3>2, <3>3, <3>4, <3>5 DEF Follow, new
  <2>4. ASSUME NEW v \in DOMAIN Laid, NEW w \in DOMAIN Laid, v < w
        PROVE  Follow(Laid[v], Laid[w])
    <3>1. v \in DOMAIN windows
      BY <2>1, <2>4
    <3>2. CASE w \in DOMAIN windows
      BY <2>1, <2>4, <3>1, <3>2 DEF WindowsInv, WindowsInOrder
    <3>3. CASE w = Len(windows) + 1
      BY <2>1, <2>3, <3>1, <3>3
    <3>4. QED
      BY <2>1, <3>2, <3>3
  <2>5. QED
    BY <2>1, <2>2, <2>4 DEF new
<1>4. QED
  BY <1>2, <1>3 DEF Laid

(* This turn's window holds what begins after the last one's start, up to  *)
(* the next one's.                                                         *)
LEMMA TurnLays ==
  ASSUME WindowsInv, page \in DOMAIN pages, windows' = Laid,
         NEW most \in Nat, most + Overlap <= End \/ End = Len(text),
         NEW i, NEW j, Passage(text, i, j), i <= most
  PROVE  \E w \in Range(windows') : CarriedBy(w, page, i, j)
<1>1. i \in 1 .. Len(text) /\ j \in 1 .. Len(text) /\ Len(text) \in Nat
  BY TextType DEF WindowsInv, Passage, Shows
<1>2. start \in Nat
  BY DEF WindowsInv, PlaceOK
<1>3. CASE i <= start
  <2>1. \E w \in Range(windows) : CarriedBy(w, page, i, j)
    BY <1>3 DEF WindowsInv, ThisPageLaid
  <2>2. QED
    BY <2>1, LaidWindows
<1>4. CASE i > start
  <2>1. j <= End /\ i <= j
    BY <1>1, OverlapIsShorter, EndType DEF WindowsInv, Passage
  <2>2. i \in start + 1 .. End
    BY <1>1, <1>2, <1>4, <2>1, EndType DEF WindowsInv
  <2>3. [page |-> page, from |-> start, to |-> End] \in Range(Laid)
    BY <2>2, LaidWindows DEF Passage
  <2>4. CarriedBy([page |-> page, from |-> start, to |-> End], page, i, j)
    BY <1>4, <2>1 DEF CarriedBy
  <2>5. QED
    BY <2>3, <2>4
<1>5. QED
  BY <1>1, <1>2, <1>3, <1>4

LEMMA WindowStep == WindowsInv /\ Window => WindowsInv'
<1> SUFFICES ASSUME WindowsInv, Window PROVE WindowsInv'
  OBVIOUS
<1>1. page \in DOMAIN pages /\ windows' = Laid /\ UNCHANGED <<pages, page, text>>
  BY DEF Window
<1>2. /\ Len(text) \in Nat /\ End \in Nat /\ End = start + WindowSize /\ End < Len(text)
      /\ start \in Nat
  BY <1>1, TextType, EndType DEF WindowsInv, PlaceOK, Window
<1>3. start' = End - Overlap /\ start' \in Nat /\ start < start'
  BY <1>2, OverlapIsShorter, WindowAssumption DEF Window, NextStart
<1>4. /\ windows' \in Seq(WindowType) /\ Range(windows) \subseteq Range(windows')
      /\ \A w \in Range(windows') : w \in Range(windows)
                                      \/ w = [page |-> page, from |-> start, to |-> End]
      /\ \A v, w \in DOMAIN windows' : v < w => Follow(windows'[v], windows'[w])
  BY <1>1, LaidWindows
<1>5. PlaceOK'
  BY <1>1, <1>3, <1>4 DEF WindowsInv, PlaceOK
<1>6. EarlierPagesLaid'
  BY <1>1, <1>4 DEF WindowsInv, EarlierPagesLaid
<1>7. ThisPageLaid'
  <2>1. start' + Overlap <= End
    BY <1>2, <1>3, OverlapIsShorter
  <2>2. \A i, j : Passage(text, i, j) /\ i <= start' =>
            \E w \in Range(windows') : CarriedBy(w, page, i, j)
    BY <1>1, <1>3, <2>1, TurnLays
  <2>3. QED
    BY <1>1, <2>2 DEF ThisPageLaid
<1>8. WindowsInOrder'
  BY <1>4 DEF WindowsInOrder
<1>9. Behind'
  <2> SUFFICES ASSUME NEW w \in Range(windows')
               PROVE  /\ w.page <= page
                      /\ w.page = page => /\ w.from < start' /\ w.to <= start' + Overlap
                                          /\ w.to < Len(text)
    BY <1>1 DEF Behind
  <2>1. page \in Nat /\ Overlap \in Nat
    BY OverlapIsShorter DEF WindowsInv, PlaceOK
  <2>2. CASE w \in Range(windows)
    <3>1. w \in WindowType
      BY <2>2 DEF WindowsInv, PlaceOK, Range
    <3>2. w.from \in Nat /\ w.to \in Nat
      BY <3>1 DEF WindowType
    <3>3. /\ w.page <= page
          /\ w.page = page => /\ w.from < start /\ w.to <= start + Overlap
                              /\ w.to < Len(text)
      BY <2>2 DEF WindowsInv, Behind
    <3>4. QED
      BY <1>2, <1>3, <2>1, <3>2, <3>3
  <2>3. CASE w = [page |-> page, from |-> start, to |-> End]
    BY <1>2, <1>3, <2>1, <2>3
  <2>4. QED
    BY <1>4, <2>2, <2>3
<1>10. QED
  BY <1>5, <1>6, <1>7, <1>8, <1>9 DEF WindowsInv

LEMMA LastWindowStep == WindowsInv /\ LastWindow => WindowsInv'
<1> SUFFICES ASSUME WindowsInv, LastWindow PROVE WindowsInv'
  OBVIOUS
<1>1. /\ page \in DOMAIN pages /\ windows' = Laid /\ End = Len(text)
      /\ page' = page + 1 /\ start' = 0 /\ pages' = pages
  BY DEF LastWindow
<1>2. page \in Nat \ {0} /\ Len(text) \in Nat /\ text = CleanText(pages[page])
  BY <1>1, TextType DEF WindowsInv, PlaceOK
<1>3. /\ windows' \in Seq(WindowType) /\ Range(windows) \subseteq Range(windows')
      /\ \A w \in Range(windows') : w \in Range(windows)
                                      \/ w = [page |-> page, from |-> start, to |-> End]
      /\ \A v, w \in DOMAIN windows' : v < w => Follow(windows'[v], windows'[w])
  BY <1>1, LaidWindows
<1>4. PlaceOK'
  <2>1. page' \in DOMAIN pages' => text' = CleanText(pages'[page'])
    BY <1>1 DEF LastWindow
  <2>2. QED
    BY <1>1, <1>2, <1>3, <2>1 DEF WindowsInv, PlaceOK
<1>5. EarlierPagesLaid'
  <2> SUFFICES ASSUME NEW p \in 1 .. page, NEW i, NEW j, Passage(CleanText(pages[p]), i, j)
               PROVE  \E w \in Range(windows') : CarriedBy(w, p, i, j)
    <3>1. page' - 1 = page
      BY <1>1, <1>2
    <3>2. QED
      BY <1>1, <3>1 DEF EarlierPagesLaid, Passage
  <2>1. CASE p = page
    <3>1. i \in DOMAIN text /\ Passage(text, i, j)
      BY <1>2, <2>1 DEF Passage, Shows
    <3>2. i <= Len(text)
      BY <1>1, <3>1, TextType DEF WindowsInv
    <3>3. QED
      BY <1>1, <1>2, <2>1, <3>1, <3>2, TurnLays
  <2>2. CASE p \in 1 .. page - 1
    BY <1>3, <2>2 DEF WindowsInv, EarlierPagesLaid
  <2>3. QED
    BY <1>2, <2>1, <2>2
<1>6. ThisPageLaid'
  <2> SUFFICES ASSUME page' \in DOMAIN pages', NEW i, NEW j, Passage(text', i, j), i <= start'
               PROVE  FALSE
    BY DEF ThisPageLaid
  <2>1. IsSequence(text')
    <3>1. pages[page'] \in Seq(STRING)
      BY <1>1 DEF WindowsInv, PlaceOK
    <3>2. text' = CleanText(pages[page'])
      BY <1>1 DEF LastWindow
    <3>3. QED
      BY <3>1, <3>2, CleanIsSequence
  <2>2. i \in DOMAIN text'
    BY DEF Passage, Shows
  <2>3. i \in Nat /\ i > 0
    BY <2>1, <2>2 DEF IsSequence
  <2>4. QED
    BY <1>1, <2>3
<1>7. WindowsInOrder'
  BY <1>3 DEF WindowsInOrder
<1>8. Behind'
  <2> SUFFICES ASSUME NEW w \in Range(windows')
               PROVE  w.page <= page + 1 /\ w.page # page + 1
    BY <1>1 DEF Behind
  <2>1. CASE w \in Range(windows)
    <3>1. w \in WindowType /\ w.page <= page
      BY <2>1 DEF WindowsInv, PlaceOK, Behind, Range
    <3>2. QED
      BY <1>2, <3>1 DEF WindowType
  <2>2. CASE w = [page |-> page, from |-> start, to |-> End]
    BY <1>2, <2>2
  <2>3. QED
    BY <1>3, <2>1, <2>2
<1>9. QED
  BY <1>4, <1>5, <1>6, <1>7, <1>8 DEF WindowsInv

LEMMA WindowsStart == WindowsInit => WindowsInv
<1> SUFFICES ASSUME WindowsInit PROVE WindowsInv
  OBVIOUS
<1>1. PICK t \in Texts : pages = t /\ \E p \in Range(t) : Shows(p) # {}
  BY DEF WindowsInit
<1>2. pages \in Seq(Seq(STRING)) /\ 1 \in DOMAIN pages
  <2>1. pages \in Seq(Seq(STRING))
    BY <1>1, PagesAssumption
  <2>2. DOMAIN pages # {}
    BY <1>1 DEF Range
  <2>3. QED
    BY <2>1, <2>2
<1>3. PlaceOK
  BY <1>2 DEF WindowsInit, PlaceOK
<1>4. \A i \in Shows(text) : i \in Nat /\ i > 0
  <2>1. IsSequence(text)
    BY <1>2, <1>3, TextType DEF WindowsInit
  <2>2. QED
    BY <2>1 DEF Shows, IsSequence
<1>5. ThisPageLaid
  BY <1>4 DEF WindowsInit, ThisPageLaid, Passage
<1>6. EarlierPagesLaid /\ WindowsInOrder /\ Behind
  BY DEF WindowsInit, EarlierPagesLaid, WindowsInOrder, Behind, Range
<1>7. QED
  BY <1>3, <1>5, <1>6 DEF WindowsInv

LEMMA WindowsInvariance == WindowsSpec => []WindowsInv
<1>1. WindowsInv /\ UNCHANGED windowVars => WindowsInv'
  BY DEF WindowsInv, windowVars, PlaceOK, EarlierPagesLaid, ThisPageLaid, WindowsInOrder, Behind
<1>2. WindowsInv /\ [WindowsNext]_windowVars => WindowsInv'
  BY <1>1, WindowStep, LastWindowStep DEF WindowsNext
<1>3. QED
  BY <1>2, WindowsStart, PTL DEF WindowsSpec

(* A passage no longer than the overlap and one character is whole in a    *)
(* chunk, and the chunks follow the text: _chunk_text and the page loop,   *)
(* for every text, size and overlap.                                       *)
THEOREM PassagesAreKept == WindowsSpec => []PassagesSurvive
<1>1. WindowsInv => PassagesSurvive
  BY DEF WindowsInv, EarlierPagesLaid, Passage, WindowsInOrder, Follow, CarriedBy, PassagesSurvive
<1>2. QED
  BY <1>1, WindowsInvariance, PTL

-----------------------------------------------------------------------------
(* The document.                                                           *)

LEMMA DocumentParses == DocSpec => Spec
<1>1. DocInit => Init
  BY DEF DocInit
<1>2. [DocNext]_docVars => [Next]_vars
  BY DEF DocNext, docVars
<1>3. QED
  BY <1>1, <1>2, PTL DEF DocSpec, Spec

(* A Markdown document has no windows, and nothing to prove of them. *)
LEMMA WindowsHold == DocSpec => []WindowsInv
<1>1. DocInit => WindowsInv
  <2>1. CASE WindowsInit
    BY <2>1, WindowsStart
  <2>2. CASE pages = NoPages /\ page = 1 /\ text = <<>> /\ start = 0 /\ windows = <<>>
    <3>1. PlaceOK
      BY <2>2 DEF PlaceOK, NoPages
    <3>2. EarlierPagesLaid /\ WindowsInOrder /\ Behind
      BY <2>2 DEF EarlierPagesLaid, WindowsInOrder, Behind, Range
    <3>3. ThisPageLaid
      BY <2>2 DEF ThisPageLaid, Passage, Shows
    <3>4. QED
      BY <3>1, <3>2, <3>3 DEF WindowsInv
  <2>3. QED
    BY <2>1, <2>2 DEF DocInit
<1>2. WindowsInv /\ [DocNext]_docVars => WindowsInv'
  <2>1. [DocNext]_docVars => [WindowsNext]_windowVars
    BY DEF DocNext, docVars
  <2>2. WindowsInv /\ UNCHANGED windowVars => WindowsInv'
    BY DEF WindowsInv, windowVars, PlaceOK, EarlierPagesLaid, ThisPageLaid, WindowsInOrder, Behind
  <2>3. QED
    BY <2>1, <2>2, WindowStep, LastWindowStep DEF WindowsNext
<1>3. QED
  BY <1>1, <1>2, PTL DEF DocSpec

LEMMA DocumentWindows == DocSpec => []PassagesSurvive
<1>1. WindowsInv => PassagesSurvive
  BY DEF WindowsInv, EarlierPagesLaid, Passage, WindowsInOrder, Follow, CarriedBy, PassagesSurvive
<1>2. QED
  BY <1>1, WindowsHold, PTL

(* Whichever way _iter_document_chunks sends a document, all of this holds *)
(* of what it makes of it, from the first line to the last chunk.          *)
THEOREM DocumentIsChunked ==
  DocSpec => [](/\ TypeOK /\ EveryLineInOneBlock /\ PathIsHeadingChain
                /\ ChunksStayInSection /\ NoTextLost /\ OversizeIsOneBlock
                /\ PassagesSurvive)
<1>1. QED
  BY DocumentParses, DocumentWindows, TypeCorrect, LinesInBlocks, PathsAreChains, StayInSection,
     NothingLost, OversizeIsNeverGathered, PTL

-----------------------------------------------------------------------------
(* Why the loops end.                                                      *)

(* The indices of the three loops: one moves on while those of the outer   *)
(* loops and their bounds stay; the text never changes.                    *)
ParserAdvances == at < at' /\ UNCHANGED <<lines, pos, cut>>

ChunkerAdvances ==
    /\ UNCHANGED parserVars
    /\ pos < pos' \/ (pos' = pos /\ cut < cut')

WindowAdvances ==
    /\ UNCHANGED pages
    /\ page < page' \/ (page' = page /\ text' = text /\ start < start')

LEMMA ParsingAdvances == IInv /\ ParseStep /\ UNCHANGED chunkerVars => ParserAdvances
<1> SUFFICES ASSUME IInv, ParseStep, UNCHANGED chunkerVars PROVE ParserAdvances
  OBVIOUS
<1>1. at \in Nat /\ Len(lines) \in Nat
  BY BlockFacts DEF IInv
<1>2. UNCHANGED <<pos, cut>>
  BY DEF chunkerVars
<1>3. CASE SkipBlank
  BY <1>1, <1>2, <1>3 DEF SkipBlank, ParserAdvances
<1>4. CASE AtxHeading
  BY <1>1, <1>2, <1>4 DEF AtxHeading, AddBlock, ParserAdvances
<1>5. CASE SetextHeading
  BY <1>1, <1>2, <1>5 DEF SetextHeading, AddBlock, ParserAdvances
<1>6. CASE EnclosedBlock
  <2>1. PICK j \in at .. Len(lines) : at' = j + 1 /\ AddBlock(Starts(at), 0, at, j, stack)
    BY <1>6 DEF EnclosedBlock
  <2>2. QED
    BY <1>1, <1>2, <2>1 DEF AddBlock, ParserAdvances
<1>7. CASE Table
  <2>1. PICK j \in at + 1 .. Len(lines) : at' = j + 1 /\ AddBlock("table", 0, at, j, stack)
    BY <1>7 DEF Table
  <2>2. QED
    BY <1>1, <1>2, <2>1 DEF AddBlock, ParserAdvances
<1>8. CASE ListOrQuote
  <2>1. PICK j \in at .. Len(lines) : at' = j + 1 /\ AddBlock(Starts(at), 0, at, j, stack)
    BY <1>8 DEF ListOrQuote
  <2>2. QED
    BY <1>1, <1>2, <2>1 DEF AddBlock, ParserAdvances
<1>9. CASE Paragraph
  <2>1. PICK j \in at .. Len(lines) : at' = j + 1 /\ AddBlock("paragraph", 0, at, j, stack)
    BY <1>9 DEF Paragraph
  <2>2. QED
    BY <1>1, <1>2, <2>1 DEF AddBlock, ParserAdvances
<1>10. QED
  BY <1>3, <1>4, <1>5, <1>6, <1>7, <1>8, <1>9 DEF ParseStep

(* A block is left behind, its split begun, or a piece of it cut off. *)
LEMMA ChunkingAdvances ==
  IInv /\ (ChunkStep \/ StartSplit \/ CutPiece \/ Finish) => ChunkerAdvances
<1> SUFFICES ASSUME IInv, ChunkStep \/ StartSplit \/ CutPiece \/ Finish
             PROVE  ChunkerAdvances
  OBVIOUS
<1>1. pos \in Nat /\ cut \in Nat /\ Len(blocks) \in Nat
  BY BlockFacts DEF IInv, ChunkInv
<1>2. CASE ChunkStep
  BY <1>1, <1>2 DEF ChunkStep, ChunkerAdvances
<1>3. CASE StartSplit
  <2>1. pos \in DOMAIN blocks /\ cut = 0
    BY <1>1, <1>3, BlockFacts DEF StartSplit, IInv, ChunkInv
  <2>2. blocks[pos].first \in Int /\ blocks[pos].first > 0
    BY <2>1, BlockFacts DEF IInv, Lines
  <2>3. cut' = blocks[pos].first /\ pos' = pos /\ UNCHANGED parserVars
    BY <1>3 DEF StartSplit, Block
  <2>4. QED
    BY <2>1, <2>2, <2>3 DEF ChunkerAdvances
<1>4. CASE CutPiece
  <2>1. PICK last \in cut .. cut + Budget(path) - 1 :
            \/ cut' = 0 /\ pos' = pos + 1
            \/ cut' = last + 1 /\ pos' = pos
    BY <1>4 DEF CutPiece
  <2>2. UNCHANGED parserVars
    BY <1>4 DEF CutPiece
  <2>3. last \in Int /\ cut <= last
    BY <1>1, <2>1
  <2>4. QED
    BY <1>1, <2>1, <2>2, <2>3 DEF ChunkerAdvances
<1>5. CASE Finish
  BY <1>1, <1>5 DEF Finish, ChunkerAdvances
<1>6. QED
  BY <1>2, <1>3, <1>4, <1>5

LEMMA WindowsAdvance == WindowsInv /\ WindowsNext => WindowAdvances
<1> SUFFICES ASSUME WindowsInv, WindowsNext PROVE WindowAdvances
  OBVIOUS
<1>1. page \in Nat /\ start \in Nat
  BY DEF WindowsInv, PlaceOK
<1>2. CASE Window
  <2>1. page \in DOMAIN pages /\ UNCHANGED <<pages, page, text>> /\ End < Len(text)
    BY <1>2 DEF Window
  <2>2. End \in Nat /\ End = start + WindowSize
    BY <2>1, TextType, EndType DEF WindowsInv, End
  <2>3. start' = End - Overlap /\ start < start'
    BY <1>1, <1>2, <2>2, OverlapIsShorter, WindowAssumption DEF Window, NextStart
  <2>4. QED
    BY <2>1, <2>3 DEF WindowAdvances
<1>3. CASE LastWindow
  BY <1>1, <1>3 DEF LastWindow, WindowAdvances
<1>4. QED
  BY <1>2, <1>3 DEF WindowsNext

(* Each turn of the loops moves an index on whose bounds TypeOK gives -- a *)
(* line, a block, a page, a position in one of them -- and sets none of    *)
(* the outer ones back: for no size, overlap or text can a loop of         *)
(* _iter_document_chunks turn for ever.                                    *)
THEOREM LoopsAdvance ==
  DocSpec => [][IF is_markdown THEN ParserAdvances \/ ChunkerAdvances ELSE WindowAdvances]_docVars
<1>1. IInv /\ WindowsInv /\ [DocNext]_docVars =>
        [IF is_markdown THEN ParserAdvances \/ ChunkerAdvances ELSE WindowAdvances]_docVars
  <2> SUFFICES ASSUME IInv, WindowsInv, DocNext
               PROVE  IF is_markdown THEN ParserAdvances \/ ChunkerAdvances ELSE WindowAdvances
    OBVIOUS
  <2>1. CASE is_markdown /\ Next
    BY <2>1, ParsingAdvances, ChunkingAdvances DEF Next
  <2>2. CASE ~is_markdown /\ WindowsNext
    BY <2>2, WindowsAdvance
  <2>3. QED
    BY <2>1, <2>2 DEF DocNext
<1>2. DocSpec => []IInv
  BY DocumentParses, Invariance, PTL
<1>3. QED
  BY <1>1, <1>2, WindowsHold, PTL DEF DocSpec
=============================================================================
