----------------------------- MODULE MCQuadRows -----------------------------
\* Instances of QuadRows for TLC: quads that differ in one term, with texts
\* that imitate the tags, separators and keys of one another.
EXTENDS TripleTerm

Marks == Written \cup {"s", "p", "a", "b", "g", "en", "string", "langString"}

Iri(v) == [type |-> "NamedNode", value |-> v]
Str(v) == [type |-> "Literal", value |-> v, lang |-> <<>>, dir |-> <<>>, dt |-> <<"string">>]
Lang(v, l) == [type |-> "Literal", value |-> v, lang |-> l, dir |-> <<>>, dt |-> <<"langString">>]
Triple(s, p, o) == [type |-> "Quad", s |-> s, p |-> p, o |-> o]
Default == [type |-> "DefaultGraph"]

About(o, g) == [s |-> Iri(<<"s">>), p |-> Iri(<<"p">>), o |-> o, g |-> g]

Inner == Triple(Iri(<<"b">>), Iri(<<"p">>), Str(<<"a">>))

\* An IRI and the literals that read like it, or like its key; a language that
\* reads like a part of the text; a triple term in a triple term and the text of
\* its key.
Confusable ==
    {About(Str(<<"a">>), Default),
     About(Str(<<"a">>), Iri(<<"g">>)),
     About(Lang(<<"a">>, <<"en">>), Default),
     About(Str(<<"a", "|", "en">>), Default),
     About(Triple(Iri(<<"a">>), Iri(<<"p">>), Inner), Default),
     About(Iri(<<"a", "|", "uri:", "p", "|", "quad:">> \o TripleTextOf(Inner)), Default)}

\* The terms of some quads, by position.
Positions(quads) == UNION {{q.s, q.p, q.o, q.g} : q \in quads}

ConfusableTerms == Positions(Confusable) \cup {Inner, Inner.s, Iri(<<"a">>)}

Few == {About(Iri(<<"a">>), Default), About(Str(<<"a">>), Default)}

FewTerms == Positions(Few)
=============================================================================
