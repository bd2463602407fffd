---------------------------- MODULE TextWindows ----------------------------
(***************************************************************************)
(* From the pages of a document that is not Markdown to its chunks: the    *)
(* page loop of _iter_document_chunks, and in it the overlapping windows   *)
(* that _chunk_text lays over the cleaned text of a page.  A character is  *)
(* "space", "newline" or one that shows.                                   *)
(***************************************************************************)
EXTENDS Integers, SequencesExt

CONSTANTS
    Texts,          \* the documents: sequences of pages, a page a sequence of characters
    WindowSize,     \* chunk_size
    GivenOverlap    \* overlap, as passed

ASSUME WindowAssumption == WindowSize \in Nat \ {0} /\ GivenOverlap \in Nat
ASSUME PagesAssumption == Texts \subseteq Seq(Seq(STRING))

VARIABLES
    pages,      \* document.pages
    page,       \* the page the outer loop is at
    text,       \* that page, cleaned
    start,      \* where the next window starts, counted from 0 as in the code
    windows     \* what goes to the store, in this order

windowVars == <<pages, page, text, start, windows>>

----------------------------------------------------------------------------
Blanks == {"space", "newline"}
Shows(t) == {k \in DOMAIN t : t[k] \notin Blanks}

(* The characters of t at some positions, in their order.                  *)
Kept(t, positions) ==
    [n \in 1 .. Cardinality(positions) |->
        t[CHOOSE k \in positions : Cardinality({i \in positions : i <= k}) = n]]

(* Of a run of one character, the first few.                               *)
Squeezed(t, char, most) ==
    Kept(t, {k \in DOMAIN t : k <= most \/ \E i \in k - most .. k : t[i] # char})

Stripped(t) == Kept(t, {k \in DOMAIN t : \E i, j \in Shows(t) : i <= k /\ k <= j})

CleanText(t) == Stripped(Squeezed(Squeezed(t, "space", 1), "newline", 2))

(* An overlap that would not let the window advance is cut to a tenth.     *)
Overlap == IF GivenOverlap < WindowSize THEN GivenOverlap ELSE WindowSize \div 10

End == IF Len(text) < start + WindowSize THEN Len(text) ELSE start + WindowSize

\* Mutant: start = end.
StartAtEnd(end) == end

NextStart(end) == IF end - Overlap > 0 THEN end - Overlap ELSE 0

----------------------------------------------------------------------------
(* The body of the while loop.  A window of blanks alone is passed over.   *)
Laid == IF \E k \in Shows(text) : k \in start + 1 .. End
          THEN Append(windows, [page |-> page, from |-> start, to |-> End])
          ELSE windows

Window ==
    /\ page \in DOMAIN pages
    /\ End < Len(text)
    /\ windows' = Laid
    /\ start' = NextStart(End)
    /\ UNCHANGED <<pages, page, text>>

(* The window that reaches the end of the text, or the text is empty: the  *)
(* loop is left, and the next page cleaned.                                *)
LastWindow ==
    /\ page \in DOMAIN pages
    /\ End = Len(text)
    /\ windows' = Laid
    /\ page' = page + 1
    /\ text' = IF page + 1 \in DOMAIN pages THEN CleanText(pages[page + 1]) ELSE <<>>
    /\ start' = 0
    /\ UNCHANGED pages

AllLaid == page > Len(pages)

(* parse raises ParseError when no page has anything to show.              *)
WindowsInit ==
    /\ pages \in {t \in Texts : \E p \in Range(t) : Shows(p) # {}}
    /\ page = 1
    /\ text = CleanText(pages[1])
    /\ start = 0
    /\ windows = <<>>

WindowsNext == Window \/ LastWindow

WindowsSpec == WindowsInit /\ [][WindowsNext]_windowVars

----------------------------------------------------------------------------
(* What the overlap is for: a passage that is no longer than the overlap,  *)
(* and one character, is whole in some window, wherever the windows' edges *)
(* and the blanks fall; and the chunks follow the text (chunk_index is     *)
(* their reading order), none of them inside the one before it.            *)
PassagesSurvive ==
    /\ \A p \in 1 .. page - 1 :
          LET t == CleanText(pages[p])
          IN  \A i, j \in Shows(t) : j \in i .. i + Overlap =>
                \E w \in Range(windows) : w.page = p /\ i > w.from /\ j <= w.to
    /\ \A v, w \in DOMAIN windows : v < w =>
          \/ windows[v].page < windows[w].page
          \/ /\ windows[v].page = windows[w].page
             /\ windows[v].from < windows[w].from
             /\ windows[v].to < windows[w].to
=============================================================================
