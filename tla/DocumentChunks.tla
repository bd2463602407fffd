--------------------------- MODULE DocumentChunks ---------------------------
(***************************************************************************)
(* _iter_document_chunks: a Markdown document goes to the parser and the   *)
(* chunker of its blocks, any other to the windows.  (A Markdown page      *)
(* without blocks is sent to the windows too, but every line that shows    *)
(* is in a block -- EveryLineInOneBlock -- so that there is none in a      *)
(* document that parse lets through.)                                      *)
(***************************************************************************)
EXTENDS MarkdownChunks, TextWindows

VARIABLE is_markdown

docVars == <<is_markdown, vars, windowVars>>

NoLines == <<>>
NoPages == <<>>

DocInit ==
    \/ /\ is_markdown = TRUE
       /\ Init
       /\ pages = NoPages /\ page = 1 /\ text = <<>> /\ start = 0 /\ windows = <<>>
    \/ /\ is_markdown = FALSE
       /\ WindowsInit
       /\ lines = NoLines
       /\ Init

DocNext ==
    \/ is_markdown /\ Next /\ UNCHANGED <<is_markdown, windowVars>>
    \/ ~is_markdown /\ WindowsNext /\ UNCHANGED <<is_markdown, vars>>

DocSpec == DocInit /\ [][DocNext]_docVars
FairDocSpec == DocSpec /\ WF_docVars(DocNext)

----------------------------------------------------------------------------
(* Whatever the document, its chunks are all made at some time: each turn  *)
(* of the three loops -- the parser's, the chunker's, the windows' -- moves *)
(* on, whatever the size and the overlap.                                  *)
Finishes == <>(IF is_markdown THEN Done ELSE AllLaid)
=============================================================================
