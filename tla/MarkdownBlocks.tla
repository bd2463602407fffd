--------------------------- MODULE MarkdownBlocks ---------------------------
(***************************************************************************)
(* The Markdown parser: one turn of the loop of _parse_blocks per step.    *)
(* A document is a sequence of lines, a line the regular expression it     *)
(* matches; a position is a line number, and a title is the number of the  *)
(* line it stands on.  What a line says, and where in it a span is trimmed,*)
(* is left out.                                                            *)
(***************************************************************************)
EXTENDS Integers, Sequences, FiniteSets

Atx == {"h1", "h2", "h3"}                \* _HEADING_RE, with its level
Underlines == {"dashes", "equals"}       \* _SETEXT_HEADING_RE: --- and ===
Fences == {"backticks", "tildes"}        \* _FENCE_RE: ``` and ~~~
Piped == {"row", "rule"}                 \* hold a |; a rule is _TABLE_SEPARATOR_RE
Kinds == Atx \cup Underlines \cup Fences \cup Piped
            \cup {"blank", "open", "close", "item", "quote", "indented", "text"}

(* The texts of the instance: any set of sequences of kinds of lines.      *)
CONSTANT Documents
ASSUME DocumentsAssumption == Documents \subseteq Seq(Kinds)

VARIABLES
    lines,      \* the lines of the document: a parameter, it never changes
    at,         \* index: the line the loop looks at
    stack,      \* heading_stack
    blocks      \* the blocks found so far

parserVars == <<lines, at, stack, blocks>>

Level(kind) ==
    IF kind \in {"h1", "equals"} THEN 1 ELSE IF kind \in {"h2", "dashes"} THEN 2 ELSE 3

Titles(s) == [i \in DOMAIN s |-> s[i].title]

----------------------------------------------------------------------------
(* What the line at i starts: the tests of the loop, in their order.       *)
IsTableStart(i) ==
    i < Len(lines) /\ lines[i] \in Piped /\ lines[i + 1] = "rule"

IsSetextHeading(i) ==
    /\ i < Len(lines)
    /\ lines[i] \notin Piped \cup {"blank"}
    /\ lines[i + 1] \in Underlines

Starts(i) ==
    IF lines[i] = "blank" THEN "blank"
    ELSE IF i = 1 /\ lines[i] = "dashes" THEN "front_matter"
    ELSE IF lines[i] \in Atx THEN "atx"
    ELSE IF IsSetextHeading(i) THEN "setext"
    ELSE IF lines[i] \in Fences THEN "code"
    ELSE IF lines[i] = "open" THEN "html_block"
    ELSE IF IsTableStart(i) THEN "table"
    ELSE IF lines[i] = "item" THEN "list"
    ELSE IF lines[i] = "quote" THEN "blockquote"
    ELSE "paragraph"

(* The inner loops, as what is true of the line j they end on: j is the    *)
(* first line that closes what i opened (or the last of the text), or the  *)
(* line before the first that does not go on.                              *)
EndsAtClosing(i, j, closing) ==
    /\ \A k \in i + 1 .. j - 1 : lines[k] # closing
    /\ j < Len(lines) => (j > i /\ lines[j] = closing)

EndsBefore(i, j, Goes(_)) ==
    /\ \A k \in i + 1 .. j : Goes(k)
    /\ j < Len(lines) => ~Goes(j + 1)

GoesOnParagraph(k) ==
    /\ lines[k] \notin {"blank", "open", "item"} \cup Atx \cup Fences
    /\ ~IsTableStart(k)

----------------------------------------------------------------------------
(* _append_block: lines i to j, without the blank ones at its end, under   *)
(* the headings of s.                                                      *)
AddBlock(type, level, i, j, s) ==
    /\ \E last \in i .. j :
          /\ lines[last] # "blank"
          /\ \A k \in last + 1 .. j : lines[k] = "blank"
          /\ blocks' = Append(blocks, [type |-> type, level |-> level,
                                       first |-> i, last |-> last, path |-> Titles(s)])
    /\ stack' = s
    /\ UNCHANGED lines

\* Mutant: a title stays open under the next of its level.
HeadingPathSiblings(level, title) ==
    LET open == Cardinality({i \in DOMAIN stack : stack[i].level <= level})
    IN  Append(SubSeq(stack, 1, open), [level |-> level, title |-> title])

(* A title closes the titles of its level and below.  Levels grow along    *)
(* the stack, so that those the filter keeps are its first ones.           *)
HeadingPath(level, title) ==
    LET open == Cardinality({i \in DOMAIN stack : stack[i].level < level})
    IN  Append(SubSeq(stack, 1, open), [level |-> level, title |-> title])

\* Mutant: `continue' without `index += 1'.
SkipBlankForEver ==
    /\ Starts(at) = "blank"
    /\ UNCHANGED <<lines, at, stack, blocks>>

SkipBlank ==
    /\ Starts(at) = "blank"
    /\ at' = at + 1
    /\ UNCHANGED <<lines, stack, blocks>>

AtxHeading ==
    /\ Starts(at) = "atx"
    /\ LET level == Level(lines[at])
       IN  AddBlock("heading", level, at, at, HeadingPath(level, at))
    /\ at' = at + 1

SetextHeading ==
    /\ Starts(at) = "setext"
    /\ LET level == Level(lines[at + 1])
       IN  AddBlock("heading", level, at, at + 1, HeadingPath(level, at))
    /\ at' = at + 2

\* Mutant: the index stays on the closing line.
EnclosedBlockNotPast ==
    /\ Starts(at) \in {"front_matter", "code", "html_block"}
    /\ LET closing == IF Starts(at) = "html_block" THEN "close" ELSE lines[at]
       IN  \E j \in at .. Len(lines) :
              /\ EndsAtClosing(at, j, closing)
              /\ AddBlock(Starts(at), 0, at, j, stack)
              /\ at' = j

(* Front matter, fenced code and HTML run to what closes them.             *)
EnclosedBlock ==
    /\ Starts(at) \in {"front_matter", "code", "html_block"}
    /\ LET closing == IF Starts(at) = "html_block" THEN "close" ELSE lines[at]
       IN  \E j \in at .. Len(lines) :
              /\ EndsAtClosing(at, j, closing)
              /\ AddBlock(Starts(at), 0, at, j, stack)
              /\ at' = j + 1

Table ==
    /\ Starts(at) = "table"
    /\ LET Goes(k) == lines[k] \in Piped
       IN  \E j \in at + 1 .. Len(lines) :
              /\ EndsBefore(at + 1, j, Goes)
              /\ AddBlock("table", 0, at, j, stack)
              /\ at' = j + 1

ListOrQuote ==
    /\ Starts(at) \in {"list", "blockquote"}
    /\ LET Goes(k) == lines[k] \in {lines[at], "indented"}
       IN  \E j \in at .. Len(lines) :
              /\ EndsBefore(at, j, Goes)
              /\ AddBlock(Starts(at), 0, at, j, stack)
              /\ at' = j + 1

Paragraph ==
    /\ Starts(at) = "paragraph"
    /\ \E j \in at .. Len(lines) :
          /\ EndsBefore(at, j, GoesOnParagraph)
          /\ AddBlock("paragraph", 0, at, j, stack)
          /\ at' = j + 1

ParserInit ==
    /\ lines \in Documents
    /\ at = 1
    /\ stack = <<>>
    /\ blocks = <<>>

ParseStep ==
    /\ at <= Len(lines)
    /\ \/ SkipBlank
       \/ AtxHeading
       \/ SetextHeading
       \/ EnclosedBlock
       \/ Table
       \/ ListOrQuote
       \/ Paragraph
=============================================================================
