------------------------------ MODULE Chunking ------------------------------
(***************************************************************************)
(* How the content of a record is cut into the chunks that are embedded    *)
(* (ChunkingService).                                                      *)
(*                                                                         *)
(* A text is a sequence of characters, [kind, at]: a letter "a", one of    *)
(* the terminators ".", or a line feed "n", which stands for all white     *)
(* space; and its place in the content, 0 for what the code puts between.  *)
(* So one can tell what became of every character.                         *)
(***************************************************************************)
EXTENDS Integers, Sequences, SequencesExt

CONSTANTS
    AtomicThreshold, \* 1000
    ChunkSize,       \* 512
    ChunkOverlap     \* 50

ASSUME ChunkingAssumption == {AtomicThreshold, ChunkSize, ChunkOverlap} \subseteq Nat

Blank(text) == \A k \in DOMAIN text : text[k].kind = "n"

Trim(text) ==
    LET Ink == {k \in DOMAIN text : text[k].kind # "n"}
    IN IF Ink = {} THEN <<>> ELSE SubSeq(text, Min(Ink), Max(Ink))

GetOverlapText(text) ==
    IF Len(text) <= ChunkOverlap THEN text
    ELSE SubSeq(text, Len(text) - ChunkOverlap + 1, Len(text))

\* A paragraph ends where two line feeds or more follow each other.
Paragraphs(text) ==
    LET Feed(k) == k \in DOMAIN text /\ text[k].kind = "n"
        In(k) == k \in DOMAIN text /\ ~ (Feed(k) /\ (Feed(k - 1) \/ Feed(k + 1)))
        From(k) == SubSeq(text, k, Min({l \in k .. Len(text) : ~ In(l + 1)}))
        Starts == {k \in DOMAIN text : In(k) /\ ~ In(k - 1) /\ ~ Blank(From(k))}
        Nth(n) == CHOOSE k \in Starts : Cardinality({l \in Starts : l < k}) = n - 1
    IN [n \in 1 .. Cardinality(Starts) |-> From(Nth(n))]

\* The match of [^.!?]+[.!?]+\s* after one more character.
MatchOn(at, c) ==
    LET Closed == Append(at.sentences, at.body)
        Longer(where) == [at EXCEPT !.body = Append(@, c), !.where = where]
    IN IF at.where = "none" /\ c.kind = "." THEN at
       ELSE IF at.where \in {"none", "body"}
            THEN Longer(IF c.kind = "." THEN "stop" ELSE "body")
       ELSE IF c.kind = "n" THEN Longer("space")
       ELSE IF c.kind = "." /\ at.where = "stop" THEN Longer("stop")
       ELSE IF c.kind = "."
            THEN [sentences |-> Closed, body |-> <<>>, where |-> "none"]
       ELSE [sentences |-> Closed, body |-> <<c>>, where |-> "body"]

\* What has no terminator is matched by nothing, unless nothing is matched.
Matched(at) ==
    IF at.where \in {"stop", "space"} THEN Append(at.sentences, at.body) ELSE at.sentences
OrAll(matches, text) == IF matches = <<>> THEN <<text>> ELSE matches
Sentences(text) ==
    OrAll(Matched(FoldLeft(MatchOn, [sentences |-> <<>>, body |-> <<>>, where |-> "none"], text)),
          text)

\* State of both loops: the chunks so far, [content, index], and the current.
Begin(index) == [chunks |-> <<>>, current |-> <<>>, index |-> index]
Push(at) == [at EXCEPT !.chunks = Append(@, [content |-> Trim(at.current), index |-> at.index])]

\* The current chunk is closed if the piece would make it too long.
Add(at, piece, between) ==
    IF at.current # <<>> /\ Len(at.current) + Len(piece) + Len(between) > ChunkSize
    THEN [chunks |-> Push(at).chunks, index |-> at.index + 1,
          current |-> GetOverlapText(at.current) \o piece]
    ELSE [at EXCEPT !.current = IF @ = <<>> THEN piece ELSE @ \o between \o piece]

\* What is left after the loop is a chunk as well.
Rest(at) == IF Blank(at.current) THEN at.chunks ELSE Push(at).chunks

SplitBySentences(text, startIndex) ==
    Rest(FoldLeft(LAMBDA at, s : Add(at, s, <<>>), Begin(startIndex), Sentences(text)))

Break == <<[kind |-> "n", at |-> 0], [kind |-> "n", at |-> 0]>>

\* Mutants of Reopen: the index of the last sentence chunk is used again; the
\* last sentence chunk is taken for closed.
ReopenSameIndex(at, pieces) ==
    IF Len(pieces) > 1
    THEN [chunks |-> at.chunks \o Front(pieces),
          current |-> Last(pieces).content, index |-> Last(pieces).index - 1]
    ELSE at
ReopenNothing(at, pieces) ==
    IF Len(pieces) > 1
    THEN [chunks |-> at.chunks \o Front(pieces), current |-> <<>>, index |-> Last(pieces).index]
    ELSE at

\* The last of several sentence chunks goes on as the current chunk.
Reopen(at, pieces) ==
    IF Len(pieces) > 1
    THEN [chunks |-> at.chunks \o Front(pieces),
          current |-> Last(pieces).content, index |-> Last(pieces).index]
    ELSE at

\* A chunk that is too long is cut into sentences.
Cut(at) ==
    IF Len(at.current) > ChunkSize THEN Reopen(at, SplitBySentences(at.current, at.index))
    ELSE at

AddParagraph(before, paragraph) == Cut(Add(before, paragraph, Break))

RecursiveSplit(text) == Rest(FoldLeft(AddParagraph, Begin(0), Paragraphs(text)))

SplitText(text) ==
    IF Blank(text) THEN <<>>
    ELSE IF Len(text) < AtomicThreshold THEN <<[content |-> Trim(text), index |-> 0]>>
    ELSE RecursiveSplit(text)
=============================================================================
