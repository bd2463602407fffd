--------------------------- MODULE MarkdownChunks ---------------------------
(***************************************************************************)
(* From a Markdown text to its chunks: the parser, then the loop of        *)
(* _chunk_markdown_page over the blocks it found.  The size of a text is   *)
(* the number of its lines that are not blank, so that _clean_markdown_text*)
(* does not change it.  A line is a unit, one the model never cuts and no  *)
(* budget is too small for: the code also cuts inside a line that is long  *)
(* for its budget, and what is said of lines here is said of the parts.    *)
(***************************************************************************)
EXTENDS MarkdownBlocks, SequencesExt

CONSTANTS ChunkSize, MinBudget
ASSUME SizesAssumption == ChunkSize \in Nat \ {0} /\ MinBudget \in Nat \ {0}

VARIABLES
    pos,        \* the block the loop looks at
    path,       \* current_path
    cut,        \* the line from which that block is still to be split, or 0
    gathered,   \* current_blocks
    chunks      \* what goes to the store, in this order

chunkerVars == <<pos, path, cut, gathered, chunks>>
vars == <<parserVars, chunkerVars>>

----------------------------------------------------------------------------
Body(b) == {k \in b.first .. b.last : lines[k] # "blank"}

(* The length of _markdown_chunk_content: the headings, then the bodies.   *)
Size(p, bs) == Len(p) + Cardinality(UNION {{i} \X Body(bs[i]) : i \in DOMAIN bs})

Chunk(p, bs) ==
    [path |-> p, start |-> bs[1].first, end |-> bs[Len(bs)].last, body |-> bs]

Flushed == IF gathered = <<>> THEN chunks ELSE Append(chunks, Chunk(path, gathered))

(* _split_markdown_block: what it never cuts, and what the headings leave   *)
(* of the size for a piece of anything else.                               *)
Whole == {"code", "table", "html_block", "front_matter"}

\* Mutant: prefix_chars is left out.
BudgetOfBody(p) == ChunkSize

Budget(p) == LET left == ChunkSize - Len(p)
             IN  IF left > MinBudget THEN left ELSE MinBudget

----------------------------------------------------------------------------
Block == blocks[pos]
TooLong(bs) == Size(path, bs) > ChunkSize

\* Mutant: a title does not flush.
NewSectionUnflushed ==
    /\ Block.type = "heading"
    /\ path' = Block.path
    /\ UNCHANGED <<gathered, chunks>>

(* A title ends the chunk before it; its own text is only a path.          *)
NewSection ==
    /\ Block.type = "heading"
    /\ chunks' = Flushed
    /\ gathered' = <<>>
    /\ path' = Block.path

(* The block still fits.  (The flush after the append never happens: what  *)
(* is gathered was just found to fit.)                                     *)
Gather ==
    /\ Block.type # "heading"
    /\ ~TooLong(Append(gathered, Block))
    /\ gathered' = Append(gathered, Block)
    /\ UNCHANGED <<path, chunks>>

(* It does not: what was gathered becomes a chunk, and the block starts    *)
(* the next one if it fits there.                                          *)
Overflow ==
    /\ Block.type # "heading"
    /\ TooLong(Append(gathered, Block))
    /\ ~TooLong(<<Block>>)
    /\ chunks' = Flushed
    /\ gathered' = <<Block>>
    /\ UNCHANGED path

(* Nor does it fit there, and is not cut: a chunk of its own.              *)
TakeWhole ==
    /\ Block.type \in Whole
    /\ TooLong(<<Block>>)
    /\ chunks' = Append(Flushed, Chunk(path, <<Block>>))
    /\ gathered' = <<>>
    /\ UNCHANGED path

(* Else it is split from its first line on...                              *)
StartSplit ==
    /\ at > Len(lines) /\ pos <= Len(blocks) /\ cut = 0
    /\ Block.type \notin Whole \cup {"heading"}
    /\ TooLong(<<Block>>)
    /\ chunks' = Flushed
    /\ gathered' = <<>>
    /\ cut' = Block.first
    /\ UNCHANGED <<parserVars, pos, path>>

\* Mutant: target is start + budget, past the end of the block too.
CutsAtUnclipped(last) == 2 * (last - cut + 1) >= Budget(path)

(* ... and _best_markdown_split cuts a piece that is not the last at an    *)
(* end of line or sentence in the second half of the budget.  Where there  *)
(* is none, inside a line that is long for the budget, it cuts at its end. *)
CutsAt(last) ==
    IF Block.last - cut < Budget(path)
      THEN last = Block.last
      ELSE 2 * (last - cut + 1) >= Budget(path)

CutPiece ==
    /\ cut # 0
    /\ \E last \in cut .. cut + Budget(path) - 1 :
          LET piece == [type |-> Block.type, level |-> Block.level,
                        first |-> cut, last |-> last, path |-> Block.path]
          IN  /\ CutsAt(last)
              /\ chunks' = Append(chunks, Chunk(path, <<piece>>))
              /\ IF last = Block.last
                   THEN cut' = 0 /\ pos' = pos + 1
                   ELSE cut' = last + 1 /\ UNCHANGED pos
    /\ UNCHANGED <<parserVars, path, gathered>>

ChunkStep ==
    /\ at > Len(lines)
    /\ pos <= Len(blocks)
    /\ cut = 0
    /\ NewSection \/ Gather \/ Overflow \/ TakeWhole
    /\ pos' = pos + 1
    /\ UNCHANGED <<parserVars, cut>>

\* Mutant: no flush after the loop.
FinishUnflushed ==
    /\ at > Len(lines)
    /\ pos = Len(blocks) + 1
    /\ pos' = pos + 1
    /\ UNCHANGED <<parserVars, path, cut, gathered, chunks>>

(* The flush after the loop.                                               *)
Finish ==
    /\ at > Len(lines)
    /\ pos = Len(blocks) + 1
    /\ pos' = pos + 1
    /\ chunks' = Flushed
    /\ gathered' = <<>>
    /\ UNCHANGED <<parserVars, path, cut>>

Done == at > Len(lines) /\ pos = Len(blocks) + 2

Init ==
    /\ ParserInit
    /\ pos = 1
    /\ path = <<>>
    /\ cut = 0
    /\ gathered = <<>>
    /\ chunks = <<>>

Next ==
    \/ ParseStep /\ UNCHANGED chunkerVars
    \/ ChunkStep
    \/ StartSplit
    \/ CutPiece
    \/ Finish

Spec == Init /\ [][Next]_vars

----------------------------------------------------------------------------
Headings == {h \in DOMAIN blocks : blocks[h].type = "heading"}

Lines == 1 .. Len(lines)
Spans == [type : {"heading", "list", "blockquote", "paragraph"} \cup Whole,
          level : 0 .. 3, first : Lines, last : Lines, path : Seq(Lines)]

(* Positions are lines, levels of titles 1 to 3, and nothing lies outside  *)
(* the text: what the store is given as start_pos, end_pos and locator.    *)
TypeOK ==
    /\ lines \in Documents
    /\ at \in 1 .. Len(lines) + 1
    /\ stack \in Seq([level : 1 .. 3, title : Lines])
    /\ blocks \in Seq(Spans)
    /\ pos \in 1 .. Len(blocks) + 2
    /\ path \in Seq(Lines)
    /\ cut \in 0 .. Len(lines)
    /\ gathered \in Seq(Spans)
    /\ chunks \in Seq([path : Seq(Lines), start : Lines, end : Lines, body : Seq(Spans)])

(* The branches of _parse_blocks share the lines out: whichever of them    *)
(* takes a line, every line that is not blank lands in one block, and the  *)
(* blocks keep the order of the text.                                      *)
EveryLineInOneBlock ==
    /\ \A k \in 1 .. at - 1 : lines[k] # "blank" =>
          \E i \in DOMAIN blocks : k \in blocks[i].first .. blocks[i].last
    /\ \A i, j \in DOMAIN blocks : i < j => blocks[i].last < blocks[j].first

(* The path that the stack of _heading_path gives a block is the chain of  *)
(* the titles over it: those that no later title of their level or above   *)
(* has closed, from the outermost in.                                      *)
PathIsHeadingChain ==
    \A b \in DOMAIN blocks :
        LET Over == {h \in Headings :
                        /\ h <= b
                        /\ \A g \in Headings : g \in h + 1 .. b => blocks[g].level > blocks[h].level}
        IN  /\ Range(blocks[b].path) = {blocks[h].first : h \in Over}
            /\ \A i, j \in DOMAIN blocks[b].path : i < j => blocks[b].path[i] < blocks[b].path[j]

(* "子标题内容不与兄弟标题混合": a chunk holds text of one section, and its    *)
(* path is the path of that section, although the loop of                  *)
(* _chunk_markdown_page keeps the path and the blocks apart.               *)
ChunksStayInSection ==
    \A c \in Range(chunks) :
        /\ \A b \in Range(c.body) : b.path = c.path
        /\ \A h \in Headings : blocks[h].first \notin c.start .. c.end

(* Whatever was gathered, flushed or split on the way, in the end every    *)
(* line of the text that is no title is in one chunk, at most one, and the *)
(* chunks follow the text (chunk_index is their reading order).            *)
NoTextLost ==
    /\ Done => \A b \in Range(blocks) : b.type # "heading" =>
          \A k \in b.first .. b.last : \E c \in Range(chunks) : \E part \in Range(c.body) :
              k \in part.first .. part.last
    /\ \A i, j \in DOMAIN chunks : i < j => chunks[i].end < chunks[j].start
    /\ \A c \in Range(chunks) : \A i, j \in DOMAIN c.body :
          i < j => c.body[i].last < c.body[j].first

(* Neither gathering nor splitting makes a chunk too long: one over the    *)
(* size is a single block of the kinds that _split_markdown_block passes   *)
(* through, or stands so deep under titles that they leave less than the   *)
(* least budget.  docs/backend/docs-parse-and-chunk.md (5.6, 7.1, 7.4)     *)
(* asks for more, that a long table is split by rows and long code at its  *)
(* inner boundaries: no code does that, and this does not say it.          *)
OversizeIsOneBlock ==
    \A c \in Range(chunks) : Size(c.path, c.body) > ChunkSize =>
        /\ Len(c.body) = 1
        /\ c.body[1].type \in Whole \/ Len(c.path) + MinBudget > ChunkSize

(* docs/backend/docs-parse-and-chunk.md: "代码块必须整体保留".  The first      *)
(* fence of a text, when no HTML or front matter precedes it, opens code,  *)
(* and that code lies in one chunk.                                        *)
CodeIsWhole ==
    Done => \A f, last \in DOMAIN lines :
        (/\ lines[f] \in Fences
         /\ lines[1] # "dashes"
         /\ \A k \in 1 .. f - 1 : lines[k] \notin Fences \cup {"open"}
         /\ lines[last] # "blank"
         /\ EndsAtClosing(f, last, lines[f]))
        => \E c \in Range(chunks) : c.start <= f /\ last <= c.end
=============================================================================
