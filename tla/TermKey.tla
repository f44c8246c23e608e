------------------------------ MODULE TermKey ------------------------------
(***************************************************************************)
(* How a quad becomes a row and a row a quad: term-key.ts, the quad keys   *)
(* built from it, and the JSON payload.  A string is a sequence of marks:  *)
(* the tags and separators the code writes are marks of their own, and     *)
(* nothing keeps them out of the text of a literal.                        *)
(*                                                                         *)
(* A term is [type, value], for a literal also [lang, dir, dt], for a      *)
(* triple term [type, s, p, o]: two terms are the same RDF term when these *)
(* are equal (sameRdfTerm).  Variables are never stored.                   *)
(***************************************************************************)
EXTENDS Integers, Sequences, FiniteSetsExt

\* The separator of a joined key.
Nul == "\\0"

\* The marks the code writes into a key itself.
Written == {"uri:", "bnode:", "default", "literal:", "quad:", "|", Nul}

CONSTANT Mark  \* the marks of texts and keys

ASSUME MarkAssumption == Written \cup {"langString"} \subseteq Mark

\* The three functions of a term call themselves on the terms of a triple
\* term.  What they make of a triple term is a constant each here, to which a
\* configuration gives the recursive definition in the module TripleTerm; one
\* call of each is TripleAssumption (QuadRows).
CONSTANTS
    TripleText(_),    \* the key of a triple term, after its tag
    TripleRecord(_),  \* the record of a triple term
    FromTriple(_)     \* the triple term of a record

\* termKey
PlainKey(term) ==
    CASE term.type = "NamedNode" -> <<"uri:">> \o term.value
      [] term.type = "BlankNode" -> <<"bnode:">> \o term.value
      [] term.type = "DefaultGraph" -> <<"default">>
      [] term.type = "Literal" ->
            <<"literal:">> \o term.value \o <<"|">> \o term.lang \o <<"|">>
            \o term.dir \o <<"|">> \o term.dt

KeyOf(term) == IF term.type = "Quad" THEN <<"quad:">> \o TripleText(term) ELSE PlainKey(term)

\* quadKeyFor: the composite primary key.
QuadKeyFor(q) == <<KeyOf(q.s), KeyOf(q.p), KeyOf(q.o), KeyOf(q.g)>>

\* quadKey, in a transaction's buffer and in removeQuad: the keys joined.
QuadKey(q) == LET k == QuadKeyFor(q)
              IN  k[1] \o <<Nul>> \o k[2] \o <<Nul>> \o k[3] \o <<Nul>> \o k[4]

\* Where s is cut next after its n-th mark: at a Nul, or at its end.
NextCut(s, n) == Min({m \in (n + 1)..Len(s) : s[m] = Nul} \cup {Len(s) + 1})

\* removeQuadByKey: split at every Nul, of which the first four pieces count.
SplitKey(s) ==
    LET a == NextCut(s, 0)
        b == NextCut(s, a)
        c == NextCut(s, b)
        d == NextCut(s, c)
    IN  <<SubSeq(s, 1, a - 1), SubSeq(s, a + 1, b - 1),
          SubSeq(s, b + 1, c - 1), SubSeq(s, c + 1, d - 1)>>

\* toTermRecord and fromTermRecord; a language implies its datatype.
PlainRecord(term) ==
    CASE term.type = "Literal" ->
            [t |-> "L", v |-> term.value, lang |-> term.lang, dt |-> term.dt]
      [] term.type = "DefaultGraph" -> [t |-> "D"]
      [] term.type = "NamedNode" -> [t |-> "N", v |-> term.value]
      [] term.type = "BlankNode" -> [t |-> "B", v |-> term.value]

RecordOf(term) == IF term.type = "Quad" THEN TripleRecord(term) ELSE PlainRecord(term)

FromPlainRecord(rec) ==
    CASE rec.t = "L" ->
            [type |-> "Literal", value |-> rec.v, lang |-> rec.lang, dir |-> <<>>,
             dt |-> IF rec.lang = <<>> THEN rec.dt ELSE <<"langString">>]
      [] rec.t = "D" -> [type |-> "DefaultGraph"]
      [] rec.t = "N" -> [type |-> "NamedNode", value |-> rec.v]
      [] rec.t = "B" -> [type |-> "BlankNode", value |-> rec.v]

FromRecord(rec) == IF rec.t = "Q" THEN FromTriple(rec) ELSE FromPlainRecord(rec)

Payload(q) == [s |-> RecordOf(q.s), p |-> RecordOf(q.p), o |-> RecordOf(q.o), g |-> RecordOf(q.g)]

\* A mutant: the quad is rebuilt without its graph.
QuadFromTriple(rec) == [s |-> FromRecord(rec.s), p |-> FromRecord(rec.p),
                        o |-> FromRecord(rec.o), g |-> [type |-> "DefaultGraph"]]

QuadFrom(rec) == [s |-> FromRecord(rec.s), p |-> FromRecord(rec.p),
                  o |-> FromRecord(rec.o), g |-> FromRecord(rec.g)]

-----------------------------------------------------------------------------
\* The terms that keys and payloads carry unharmed.  Left out, because the code
\* is wrong about them: a text with U+0000, at which a joined key is cut; a
\* literal with a base direction, which no record holds; and the triple terms
\* beyond RDF's that the code takes as well, with a literal or a triple term for
\* a subject, or an IRI with "|": their keys do not say where the subject ends,
\* and two of them can share one.  By RDF's grammar a language tag, a datatype
\* IRI, and the IRIs and blank nodes inside a triple term have no "|".

Text == {s \in Seq(Mark) : \A i \in DOMAIN s : s[i] # Nul}
Tag == {s \in Text : \A i \in DOMAIN s : s[i] # "|"}

PlainTerm(t) ==
    \/ t \in [type : {"NamedNode", "BlankNode"}, value : Text]
    \/ t = [type |-> "DefaultGraph"]
    \/ /\ t \in [type : {"Literal"}, value : Text, lang : Tag, dir : {<<>>}, dt : Tag]
       /\ t.lang # <<>> => t.dt = <<"langString">>

\* What is the subject or the predicate of a triple term; its object is any term.
BarFree == [type : {"NamedNode", "BlankNode"}, value : Tag]

TripleOver(t, terms) ==
    /\ t \in [type : {"Quad"}, s : terms, p : terms, o : terms]
    /\ {t.s, t.p} \subseteq BarFree
=============================================================================
