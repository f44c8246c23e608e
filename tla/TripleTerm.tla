----------------------------- MODULE TripleTerm -----------------------------
(***************************************************************************)
(* termKey, toTermRecord and fromTermRecord on triple terms: they call     *)
(* themselves on the terms inside, which may be triple terms again.        *)
(***************************************************************************)
EXTENDS QuadRows

RECURSIVE TripleTextOf(_), TripleRecordOf(_), TripleFrom(_)

\* The key of a triple term, after its tag.
TripleTextOf(term) ==
    LET Key(t) == IF t.type = "Quad" THEN <<"quad:">> \o TripleTextOf(t) ELSE PlainKey(t)
    IN  Key(term.s) \o <<"|">> \o Key(term.p) \o <<"|">> \o Key(term.o)

\* Its record, and the triple term of a record.
TripleRecordOf(term) ==
    LET Rec(t) == IF t.type = "Quad" THEN TripleRecordOf(t) ELSE PlainRecord(t)
    IN  [t |-> "Q", s |-> Rec(term.s), p |-> Rec(term.p), o |-> Rec(term.o)]

TripleFrom(rec) ==
    LET Term(r) == IF r.t = "Q" THEN TripleFrom(r) ELSE FromPlainRecord(r)
    IN  [type |-> "Quad", s |-> Term(rec.s), p |-> Term(rec.p), o |-> Term(rec.o)]
=============================================================================
