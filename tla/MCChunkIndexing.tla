-------------------------- MODULE MCChunkIndexing --------------------------
(* The instances TLC checks.                                               *)
EXTENDS ChunkIndexing

File(kind, windows, texts, tables) ==
    [kind |-> kind, windows |-> windows, texts |-> texts, tables |-> tables]

\* Texts of up to two windows, an image, and a text of two pages.
MCUploads ==
    {File("text", n, {}, {}) : n \in 0 .. 2}
      \cup {File("image", 1, {}, {}), File("pdf", 1, {1, 2}, {})}

\* Text on two pages, with a table on the first: the file whose second page is
\* detected before the table, and listed after it whatever the ties.
MCPapers == {File("pdf", n, {1, 2}, {1}) : n \in 1 .. 2}
=============================================================================
