---------------------------- MODULE MCQuadStore ----------------------------
\* Instances of QuadStore for TLC.
EXTENDS QuadStore

CONSTANTS x, y

\* Quad 1 is a literal of two chunks, quad 2 of one, quad 3 has no text.
SomeParts == [q \in Quad |-> CASE q = 1 -> 2 [] q = 2 -> 1 [] OTHER -> 0]

OneChunkEach == [q \in Quad |-> 1]

Plain(ins, del) == [ins |-> ins, del |-> del, import |-> FALSE, replace |-> FALSE]
Merge(ins) == [ins |-> ins, del |-> {}, import |-> TRUE, replace |-> FALSE]
Replace(ins) == [ins |-> ins, del |-> {}, import |-> TRUE, replace |-> TRUE]

\* Every patch over the quads, and imports of every set of them.
EveryPatch == [t \in Task |->
    {Plain(i, d) : i \in SUBSET Quad, d \in SUBSET Quad}
    \cup {Merge(i) : i \in SUBSET Quad} \cup {Replace(i) : i \in SUBSET Quad}]

\* One quad inserted or deleted at a time, by either task.
SingleRows == [t \in Task |->
    {Plain({q}, {}) : q \in Quad} \cup {Plain({}, {q}) : q \in Quad}]

\* Bounds the run: overlapping calls may leave vectors of no chunk, without end.
NoStrayVectors == vec \subseteq Ids(chunks)
=============================================================================
