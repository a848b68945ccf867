---------------------------- MODULE SearchAnswer ----------------------------
(***************************************************************************)
(* The pure parts of answering a query: rank fusion (retrieval/fusion.go), *)
(* the documents retrieved (search/service.go), and finding the citations  *)
(* footer, in the complete answer (search/answerer.go) and in a stream of  *)
(* it (search/footerfilter.go).                                            *)
(*                                                                         *)
(* A text is a sequence of letters, alike in upper and lower case.  The    *)
(* marker "citations:" is shortened to three of them; like it, it has no   *)
(* prefix that is also its suffix.  "wide" is a letter, like U+023A, whose *)
(* lower case takes more bytes.                                            *)
(***************************************************************************)
EXTENDS Integers, Sequences, FiniteSets, SequencesExt, FiniteSetsExt, Ordering

CONSTANTS
    MaxText,        \* bound: letters of an answer
    MaxRanks        \* bound: chunks of a ranked list, defaultK or fewer

\* Twice 1/(60 + rank) is more than 1/61 up to rank 61; defaultK is 12.
ASSUME SearchBounds == MaxText \in Nat /\ MaxRanks \in 0 .. 61

Marker == <<"c", "s", ":">>
Letters == {"a", "c", "s", ":"}
Texts == BoundedSeq(Letters, MaxText)

-----------------------------------------------------------------------------
(* The footer in a complete answer                                         *)

Occurs(text) == {i \in 1 .. Len(text) - 2 : SubSeq(text, i, i + 2) = Marker}

Bytes(text) == FoldSeq(LAMBDA l, n : n + IF l = "wide" THEN 2 ELSE 1, 0, text)
LowerBytes(text) == FoldSeq(LAMBDA l, n : n + IF l = "wide" THEN 3 ELSE 1, 0, text)

\* Mutant: the first marker ends the summary.
FooterAtFirst(text) ==
    IF Occurs(text) = {} THEN Bytes(text)
    ELSE LowerBytes(SubSeq(text, 1, Min(Occurs(text)) - 1))

\* parseResponse: the byte of the answer at which its summary ends, found in
\* the answer's lower case.
FooterAt(text) ==
    IF Occurs(text) = {} THEN Bytes(text)
    ELSE LowerBytes(SubSeq(text, 1, Max(Occurs(text)) - 1))

\* Mutant: numbers are cited as often as they are listed.
CitationsRepeated(listed, n) == SelectSeq(listed, LAMBDA c : c \in 1 .. n)

\* The footer's numbers, each cited once and only if there is such a chunk.
Citations(listed, n) ==
    FoldLeft(LAMBDA cited, c : IF c \in 1 .. n /\ ~Contains(cited, c)
                               THEN Append(cited, c) ELSE cited,
             <<>>, listed)

-----------------------------------------------------------------------------
(* The footer in a stream                                                  *)

\* The longest end of the text that may yet become the marker.
Held(text) ==
    LET ends == {l \in 1 .. 2 : l <= Len(text) /\
                    SubSeq(text, Len(text) - l + 1, Len(text)) = SubSeq(Marker, 1, l)}
    IN  IF ends = {} THEN 0 ELSE Max(ends)

\* Mutant: what cannot be a whole marker is shown at once.
WriteUnheld(filter, delta) ==
    LET text == filter.buf \o delta
    IN  IF Occurs(text) # {}
        THEN [shown |-> filter.shown \o SubSeq(text, 1, Min(Occurs(text)) - 1),
              buf |-> SubSeq(text, Min(Occurs(text)), Len(text)), matched |-> TRUE]
        ELSE [filter EXCEPT !.shown = @ \o text, !.buf = <<>>]

\* footerFilter.Write.
Write(filter, delta) ==
    LET text == filter.buf \o delta
        keep == Len(text) - Held(text)
    IN  IF Occurs(text) # {}
        THEN [shown |-> filter.shown \o SubSeq(text, 1, Min(Occurs(text)) - 1),
              buf |-> SubSeq(text, Min(Occurs(text)), Len(text)), matched |-> TRUE]
        ELSE IF filter.matched
        THEN [filter EXCEPT !.buf = <<>>]
        ELSE [filter EXCEPT !.shown = @ \o SubSeq(text, 1, keep),
                            !.buf = SubSeq(text, keep + 1, Len(text))]

\* footerFilter.Flush.
Flush(filter) == IF filter.matched THEN filter.shown ELSE filter.shown \o filter.buf

\* AnswerStream: what the client is shown of an answer generated in deltas.
LiveText(deltas) ==
    Flush(FoldLeft(Write, [shown |-> <<>>, buf |-> <<>>, matched |-> FALSE], deltas))

\* An answer cut into deltas after each of the given letters.
Deltas(text, cuts) ==
    LET ends == Ordered(cuts \cup {Len(text)}, <)
    IN  [i \in 1 .. Len(ends) |->
            SubSeq(text, (IF i = 1 THEN 0 ELSE ends[i - 1]) + 1, ends[i])]

-----------------------------------------------------------------------------
(* Rank fusion                                                             *)

\* rrfK is 60; scores are taken times a number all denominators divide.
Scale == ProductSet({60 + r : r \in 1 .. MaxRanks})

\* Mutant: reciprocal ranks without the smoothing constant.
RankScoreUnsmoothed(rank) == ProductSet(1 .. MaxRanks) \div rank

RankScore(rank) == Scale \div (60 + rank)

Score(lists, c) ==
    FoldLeft(LAMBDA sum, list : sum + IF Contains(list, c)
                                      THEN RankScore(CHOOSE i \in DOMAIN list : list[i] = c)
                                      ELSE 0,
             0, lists)

\* Mutant: chunks of equal score are dropped but one.
RRFMergeNoTies(k, lists) ==
    LET chunks == UNION {ToSet(lists[i]) : i \in DOMAIN lists}
        score == [c \in chunks |-> Score(lists, c)]
        top == {c \in chunks : \A d \in chunks : d < c => score[c] # score[d]}
        ranked == Ordered(top, LAMBDA c, d : score[c] > score[d])
    IN  IF k > 0 /\ Len(ranked) > k THEN SubSeq(ranked, 1, k) ELSE ranked

\* The best k by score, ties by id (chunks are numbered).
RRFMerge(k, lists) ==
    LET chunks == UNION {ToSet(lists[i]) : i \in DOMAIN lists}
        score == [c \in chunks |-> Score(lists, c)]
        ranked == Ordered(chunks, LAMBDA c, d :
                      score[c] > score[d] \/ (score[c] = score[d] /\ c < d))
    IN  IF k > 0 /\ Len(ranked) > k THEN SubSeq(ranked, 1, k) ELSE ranked

\* Retrieve and SearchStream: vector and keyword legs are fused, then the
\* graph leg with the result.
Fused(k, vector, keyword, graph) == RRFMerge(k, <<RRFMerge(k, <<vector, keyword>>), graph>>)

\* Mutant: a document keeps its last place.
RetrievedDocumentsLast(chunks, docOf) ==
    FoldLeft(LAMBDA docs, c : Append(SelectSeq(docs, LAMBDA d : d # docOf[c]), docOf[c]),
             <<>>, chunks)

\* retrievedDocuments: a document keeps its first place.
RetrievedDocuments(chunks, docOf) ==
    FoldLeft(LAMBDA docs, c : IF Contains(docs, docOf[c]) THEN docs ELSE Append(docs, docOf[c]),
             <<>>, chunks)

-----------------------------------------------------------------------------
(* One query's data: an answer, a footer's numbers, or the legs' rankings. *)

Rankings == {r \in BoundedSeq(1 .. MaxRanks, MaxRanks) : IsInjective(r)}

Inputs ==
    [kind : {"answer"}, text : Texts]
      \cup [kind : {"footer"}, listed : BoundedSeq(-1 .. 3, 4), chunks : 0 .. 2]
      \cup [kind : {"legs"}, vector : Rankings, keyword : Rankings, k : 1 .. MaxRanks]
      \cup [kind : {"ranked"}, chunks : Rankings, docOf : [1 .. MaxRanks -> {"d1", "d2"}]]

NoInput == [kind |-> "none"]

VARIABLE input

-----------------------------------------------------------------------------
(* Properties                                                              *)

\* However an answer is cut into deltas, the client is shown what precedes
\* the first marker, never a part of the footer and never less
\* (footerFilter).  With one footer that is the summary stored in the end,
\* and a marker quoted in the answer does not end its summary
\* (parseResponse).
StreamShowsSummary ==
    input.kind = "answer" =>
        LET text == input.text
        IN  /\ \A cuts \in SUBSET (1 .. Len(text) - 1) :
                  LiveText(Deltas(text, cuts)) =
                      IF Occurs(text) = {} THEN text ELSE SubSeq(text, 1, Min(Occurs(text)) - 1)
            /\ Cardinality(Occurs(text)) = 1 => Len(LiveText(<<text>>)) = FooterAt(text)
            /\ \A i \in Occurs(text) : FooterAt(text) >= i - 1

\* list has the members of S once each, by increasing place.
RankedBy(list, S, place(_)) ==
    /\ ToSet(list) = S
    /\ \A i, j \in DOMAIN list : i < j => place(list[i]) < place(list[j])

\* What an answer shows of its sources is complete, without repetition, and
\* in order of rank.  Cited is each chunk the footer names, by first mention
\* (parseResponse); found in is each document, by its best chunk
\* (retrievedDocuments).  Fusion returns the best k of all chunks ranked,
\* whatever the order of its lists; a chunk in both comes before one that
\* only one ranks, at whatever places (the comment of RRFMerge; the smoothing
\* constant sees to it).
SourcesRanked ==
    /\ input.kind = "footer" =>
          RankedBy(Citations(input.listed, input.chunks),
                   ToSet(input.listed) \cap 1 .. input.chunks,
                   LAMBDA c : Min({i \in DOMAIN input.listed : input.listed[i] = c}))
    /\ input.kind = "ranked" =>
          RankedBy(RetrievedDocuments(input.chunks, input.docOf),
                   {input.docOf[c] : c \in ToSet(input.chunks)},
                   LAMBDA d : Min({i \in DOMAIN input.chunks : input.docOf[input.chunks[i]] = d}))
    /\ input.kind = "legs" =>
          LET legs == <<input.vector, input.keyword>>
              out == RRFMerge(input.k, legs)
              all == ToSet(input.vector) \cup ToSet(input.keyword)
              both == ToSet(input.vector) \cap ToSet(input.keyword)
              score == [c \in all |-> Score(legs, c)]
          IN  /\ out = RRFMerge(input.k, Reverse(legs))
              /\ IsInjective(out)
              /\ Len(out) = Min({input.k, Cardinality(all)})
              /\ \A i \in DOMAIN out : \A c \in all :
                    score[c] > score[out[i]] => Contains(SubSeq(out, 1, i - 1), c)
              /\ \A i, j \in DOMAIN out : out[i] \in both /\ out[j] \notin both => i < j
=============================================================================
