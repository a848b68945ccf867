---------------------------- MODULE ModelAnswers ----------------------------
(***************************************************************************)
(* How the responses of language models are read: which answer belongs to  *)
(* which of the items that were asked about, whatever lines the model left *)
(* out, repeated, reordered or garbled (canonical/aliasjudge, relation and *)
(* crosslink extractors, theme/summarize, intrusion/tester).               *)
(*                                                                         *)
(* A line is its prefix, and the number or the text after that; a number   *)
(* that cannot be read is 0.                                               *)
(***************************************************************************)
EXTENDS Integers, Sequences, SequencesExt, FiniteSets, FiniteSetsExt, Ordering

CONSTANTS
    Items,          \* items asked about, numbered from 1
    MaxLines,       \* bound: lines of a response
    MaxThemes       \* maxSignificantThemes

ASSUME AnswerBounds == {Items, MaxLines, MaxThemes} \subseteq Nat \ {0}

VARIABLE response   \* a response and how it is read

NoAnswers == [k \in {} |-> ""]

\* The answers with this text under key, in place of any there.
Put(answers, key, text) ==
    [k \in DOMAIN answers \cup {key} |-> IF k = key THEN text ELSE answers[k]]

-----------------------------------------------------------------------------
(* Answers by number                                                       *)

\* parseAliasBatchVerdicts, and parseResponse of crosslink: an answer is that
\* of the last numbered line, unless its number is unreadable.
NumberedAnswers(lines) ==
    LET read(s, l) ==
            CASE l.prefix = "item" -> [s EXCEPT !.cur = l.number]
              [] l.prefix = "answer" /\ s.cur # 0 ->
                    [s EXCEPT !.answers = Put(@, s.cur, l.text)]
              [] OTHER -> s
    IN  FoldLeft(read, [cur |-> 0, answers |-> NoAnswers], lines).answers

\* SameEntityBatch numbers its candidates from 1: what was not addressed is not the same.
SameEntityBatch(lines) ==
    LET verdicts == NumberedAnswers(lines)
    IN  [k \in 1 .. Items |-> k \in DOMAIN verdicts /\ verdicts[k] = "SAME"]

\* Extract of crosslink: an update of each candidate that was answered.
Extract(lines) ==
    LET answers == NumberedAnswers(lines)
        label(text) == IF text \in {"", "NONE"} THEN "none" ELSE text
    IN  [k \in DOMAIN answers \cap 1 .. Items |-> label(answers[k])]

\* parseResponse of intrusion: an unreadable number ends the set before it.
Intruders(lines) == NumberedAnswers(lines)

\* Run of intrusion: the sets answered with their intruder, here the text
\* "x"; no answer is a wrong one.
Correct(lines) ==
    LET answers == Intruders(lines)
    IN  {k \in DOMAIN answers \cap 1 .. Items : answers[k] = "x"}

-----------------------------------------------------------------------------
(* Answers by chunk and pair                                               *)

\* Mutant: the pair of the chunk before is kept.
PairAnswersCarried(lines) ==
    LET read(s, l) ==
            CASE l.prefix = "chunk" -> [s EXCEPT !.chunk = l.number]
              [] l.prefix = "item" -> [s EXCEPT !.pair = l.number]
              [] l.prefix = "answer" /\ s.chunk # 0 /\ s.pair # 0 ->
                    [s EXCEPT !.answers = Put(@, <<s.chunk, s.pair>>, l.text)]
              [] OTHER -> s
    IN  FoldLeft(read, [chunk |-> 0, pair |-> 0, answers |-> NoAnswers], lines).answers

\* parseResponse of relation: a chunk's line ends the pair before it.
PairAnswers(lines) ==
    LET read(s, l) ==
            CASE l.prefix = "chunk" -> [s EXCEPT !.chunk = l.number, !.pair = 0]
              [] l.prefix = "item" -> [s EXCEPT !.pair = l.number]
              [] l.prefix = "answer" /\ s.chunk # 0 /\ s.pair # 0 ->
                    [s EXCEPT !.answers = Put(@, <<s.chunk, s.pair>>, l.text)]
              [] OTHER -> s
    IN  FoldLeft(read, [chunk |-> 0, pair |-> 0, answers |-> NoAnswers], lines).answers

-----------------------------------------------------------------------------
(* Themes                                                                  *)

NoTheme == [community |-> 0, label |-> "", summary |-> ""]

\* flush: a theme of no candidate is dropped, and one without a label is
\* called "Untitled".
Flush(s) ==
    LET theme == [s.cur EXCEPT !.label = IF @ = "" THEN "Untitled" ELSE @]
    IN  [s EXCEPT !.cur = NoTheme,
                  !.themes = IF s.cur.community \in 1 .. Items THEN Append(@, theme) ELSE @]

\* parseResponse of theme; a note stands only beside themes.
Themes(lines) ==
    LET read(s, l) ==
            CASE l.prefix = "item" -> [Flush(s) EXCEPT !.cur.community = l.number]
              [] l.prefix = "note" -> [Flush(s) EXCEPT !.note = l.text]
              [] l.prefix = "answer" /\ s.cur.community # 0 -> [s EXCEPT !.cur.label = l.text]
              [] l.prefix = "summary" /\ s.cur.community # 0 -> [s EXCEPT !.cur.summary = l.text]
              [] OTHER -> s
        end == Flush(FoldLeft(read, [cur |-> NoTheme, themes |-> <<>>, note |-> ""], lines))
        themes == SubSeq(end.themes, 1, Min({MaxThemes, Len(end.themes)}))
    IN  [themes |-> themes, note |-> IF themes = <<>> THEN "" ELSE end.note]

-----------------------------------------------------------------------------
(* Responses                                                               *)

Numbers == 0 .. Items + 1

Lines(kind) ==
    LET numbered(prefix) == [prefix : {prefix}, number : Numbers]
        texts(prefix) == [prefix : {prefix}, text : {"x", ""}]
    IN  numbered("item") \cup texts("answer")
          \cup CASE kind = "numbered" -> [prefix : {"answer"}, text : {"SAME"}]
                 [] kind = "pairs" -> numbered("chunk")
                 [] kind = "themes" -> [prefix : {"summary", "note"}, text : {"y"}]

Responses ==
    UNION {[kind : {kind}, lines : SeqOf(Lines(kind), MaxLines)] : kind \in {"numbered", "pairs", "themes"}}

NoResponse == [kind |-> "none"]

-----------------------------------------------------------------------------
(* Properties                                                              *)

\* The last line up to i with one of these prefixes, or 0.
LastLine(lines, prefixes, i) ==
    Max({0} \cup {j \in 1 .. i : lines[j].prefix \in prefixes})

NumberAt(lines, i) == IF i = 0 THEN 0 ELSE lines[i].number

\* answers has for each key the text of the last answer that was given under
\* it, and none for 0.
LastGiven(answers, lines, key(_), none) ==
    LET given == {i \in DOMAIN lines : lines[i].prefix = "answer" /\ key(i) \notin none}
    IN  /\ DOMAIN answers = {key(i) : i \in given}
        /\ \A k \in DOMAIN answers : answers[k] = lines[Max({i \in given : key(i) = k})].text

\* Whatever lines are missing, repeated, reordered or unreadable, an answer
\* goes to the item its block names, the last one counts, and what stands in
\* a block that names none goes to no other item: it stays unanswered, is not
\* merged, is not correct, or is no theme.  Themes are of candidates only,
\* in the response's order, and each has the label of its own block.
AnswersFindTheirItems ==
    LET lines == response.lines
        item(i) == NumberAt(lines, LastLine(lines, {"item"}, i))
        pair(i) == LET last == LastLine(lines, {"item", "chunk"}, i) IN
                   <<NumberAt(lines, LastLine(lines, {"chunk"}, i)),
                     IF last = 0 \/ lines[last].prefix = "chunk" THEN 0 ELSE lines[last].number>>
    IN  /\ response.kind = "numbered" =>
              LET answers == NumberedAnswers(lines)
                  said(k, text) == k \in DOMAIN answers /\ answers[k] = text
              IN  /\ LastGiven(answers, lines, item, {0})
                  /\ SameEntityBatch(lines) = [k \in 1 .. Items |-> said(k, "SAME")]
                  /\ Correct(lines) = {k \in 1 .. Items : said(k, "x")}
                  /\ DOMAIN Extract(lines) = {k \in 1 .. Items : \E text \in {"x", "", "SAME"} : said(k, text)}
        /\ response.kind = "pairs" =>
              LastGiven(PairAnswers(lines), lines, pair, ({0} \X Numbers) \cup (Numbers \X {0}))
        /\ response.kind = "themes" =>
              LET read == Themes(lines)
                  heads == Ordered({i \in DOMAIN lines : lines[i].prefix = "item"
                                                           /\ lines[i].number \in 1 .. Items}, <)
                  labels(h) == {i \in DOMAIN lines : lines[i].prefix = "answer"
                                                       /\ LastLine(lines, {"item", "note"}, i) = h}
                  label(h) == IF labels(h) = {} THEN "" ELSE lines[Max(labels(h))].text
              IN  /\ Len(read.themes) = Min({MaxThemes, Len(heads)})
                  /\ \A t \in DOMAIN read.themes :
                        /\ read.themes[t].community = lines[heads[t]].number
                        /\ read.themes[t].label =
                              IF label(heads[t]) = "" THEN "Untitled" ELSE label(heads[t])
                  /\ read.note # "" => read.themes # <<>>
=============================================================================
