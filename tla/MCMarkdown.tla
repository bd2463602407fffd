----------------------------- MODULE MCMarkdown -----------------------------
(***************************************************************************)
(* All texts of up to three lines of any kind, where every branch of the   *)
(* parser meets every other, and longer ones of fewer kinds, where the     *)
(* chunker gathers, overflows and splits.  And all pages of up to seven    *)
(* characters, longer ones where a whole window may be blank, and          *)
(* documents of two pages.                                                 *)
(***************************************************************************)
EXTENDS DocumentChunks

UpTo(n, kinds) == UNION {[1 .. k -> kinds] : k \in 0 .. n}

MCDocuments ==
    UpTo(3, Kinds)
        \cup UpTo(6, {"h1", "h2", "text", "blank"})
        \cup UpTo(5, {"h3", "equals", "backticks", "text", "item"})
        \cup UpTo(5, {"h1", "h2", "h3", "text"})
        \cup UpTo(4, {"dashes", "backticks", "text", "item", "row", "rule", "open", "close"})

Characters == {"a", "space", "newline"}

MCTexts ==
    {<<p>> : p \in UpTo(7, Characters)}
        \cup {<<<<"a", "a", "a">> \o t \o <<"a">>>> : t \in [1 .. 6 -> Characters]}
        \cup {<<p, q>> : p \in UpTo(2, Characters), q \in UpTo(3, Characters)}
        \cup {<<[k \in 1 .. n |-> "a"]>> : n \in 8 .. 16}
=============================================================================
