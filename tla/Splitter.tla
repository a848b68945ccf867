------------------------------ MODULE Splitter ------------------------------
(***************************************************************************)
(* Cutting a text into overlapping windows (chunk/splitter.go).  A text is *)
(* what the splitter can tell of it: which of its bytes start a rune.      *)
(***************************************************************************)
EXTENDS Integers, Sequences

CONSTANTS
    MaxRune,        \* bytes of the longest rune
    MaxBytes        \* bound: bytes of a text

ASSUME TextBounds == MaxRune \in Nat \ {0} /\ MaxBytes \in Nat

VARIABLE fed        \* a text, a size and an overlap the splitter was fed

\* Well-formed: it starts with a rune, and no rune is too long.
Text(n) ==
    {t \in [1 .. n -> BOOLEAN] :
        /\ n > 0 => t[1]
        /\ \A i \in 1 .. n : \E j \in 1 .. i : i - j < MaxRune /\ t[j]}

Fed == [text : UNION {Text(n) : n \in 0 .. MaxBytes}, size : 1 .. MaxBytes, overlap : 0 .. MaxBytes]
NothingFed == [text |-> <<>>, size |-> 1, overlap |-> 0]

\* Mutant: an offset inside a rune is moved to the rune's end.
AlignToRuneBoundaryForward(text, i) ==
    LET starts == {j \in i .. Len(text) - 1 : text[j + 1]} \cup {Len(text)}
    IN  CHOOSE j \in starts : \A k \in starts : j <= k

\* alignToRuneBoundary; offsets count from 0.
AlignToRuneBoundary(text, i) ==
    LET starts == {j \in 0 .. i : j = 0 \/ j = Len(text) \/ text[j + 1]}
    IN  CHOOSE j \in starts : \A k \in starts : k <= j

\* Split: the windows, as [start, end).
Split(text, size, overlap) ==
    LET length == Len(text)
        step == IF size - overlap <= 0 THEN 1 ELSE size - overlap
        aligned(start, i) ==
            LET at == AlignToRuneBoundary(text, i) IN IF at > start THEN at ELSE i
        end(start) ==
            IF start + size >= length THEN length ELSE aligned(start, start + size)
        next(start) ==
            IF start + step >= length THEN start + step ELSE aligned(start, start + step)
        from[start \in 0 .. length + size] ==
            IF start >= length THEN <<>>
            ELSE <<[start |-> start, end |-> end(start)]>>
                   \o IF end(start) = length THEN <<>> ELSE from[next(start)]
    IN  from[0]

-----------------------------------------------------------------------------
(* Properties                                                              *)

\* Whatever the size and the overlap, the windows cover the text from its
\* first byte to its last without a gap, each starts after the one before,
\* and none is empty or longer than the size.  With steps no shorter than a
\* rune, no window is cut inside one, and neighbours still share the overlap
\* but for what moving to a rune's start took of it.
SplitCovers ==
    LET windows == Split(fed.text, fed.size, fed.overlap)
        n == Len(windows)
        boundary(i) == i = Len(fed.text) \/ fed.text[i + 1]
    IN  /\ (n = 0) = (fed.text = <<>>)
        /\ n > 0 => windows[1].start = 0 /\ windows[n].end = Len(fed.text)
        /\ \A i \in 1 .. n : windows[i].end - windows[i].start \in 1 .. fed.size
        /\ \A i \in 1 .. n - 1 : /\ windows[i].start < windows[i + 1].start
                                 /\ windows[i].end <= windows[i + 1].end
                                 /\ windows[i + 1].start <= windows[i].end
        /\ fed.size - fed.overlap >= MaxRune =>
              /\ \A i \in 1 .. n : boundary(windows[i].start) /\ boundary(windows[i].end)
              /\ \A i \in 1 .. n - 1 :
                    windows[i].end - windows[i + 1].start > fed.overlap - MaxRune
=============================================================================
