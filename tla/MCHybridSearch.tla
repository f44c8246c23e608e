--------------------------- MODULE MCHybridSearch ---------------------------
\* Instances of HybridSearch for TLC.
EXTENDS HybridSearch

CONSTANTS x

OneChunkEach == [q \in Quad |-> 1]

\* The texts differ in a filler word only.
Texts == [q \in Quad |-> IF q = 1 THEN <<{"the", "cat"}>> ELSE <<{"cat"}>>]

\* The two quads share their predicate.
SomeTerms == [q \in Quad |->
    [d \in Dimension |-> IF d = "predicate" THEN 1 ELSE q]]

Empty == [d \in Dimension |-> {}]
Subject(q) == [Empty EXCEPT !["subject"] = {q}]

Ask(words, limit) == [NoRequest EXCEPT !.query = words, !.limit = limit]

\* Words, filler alone, no words at all, a filter, a limit that cuts, a score.
SomeRequests == {
    Ask({"the", "cat"}, 2),
    Ask({"the"}, 2),
    Ask({}, 2),
    Ask({"cat"}, 1),
    [Ask({"cat"}, 2) EXCEPT !.exclude = Subject(1)],
    [Ask({"cat"}, 2) EXCEPT !.include = Subject(1), !.minScore = <<1, 40>>]}

\* One quad inserted or deleted at a time.
SingleQuads == [t \in Task |->
    {[ins |-> {q}, del |-> {}, import |-> FALSE, replace |-> FALSE] : q \in Quad}
    \cup {[ins |-> {}, del |-> {q}, import |-> FALSE, replace |-> FALSE] : q \in Quad}]
=============================================================================
