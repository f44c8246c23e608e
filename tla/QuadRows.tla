------------------------------ MODULE QuadRows ------------------------------
(***************************************************************************)
(* The rows of one quads table, by their real keys: what the L1 calls, a   *)
(* buffered transaction and its commit, and the deletes of the L2 commit   *)
(* make of it.  A call runs to its end here; what other processes do       *)
(* between its statements is the module SqliteStore.                       *)
(***************************************************************************)
EXTENDS TermKey

CONSTANTS
    Quads,    \* the quads the client uses: [s, p, o, g], terms
    Terms,    \* the terms in them, and those inside triple terms
    MaxCalls  \* bounds the calls on one transaction

ASSUME MaxCallsAssumption == MaxCalls \in Nat

ASSUME QuadsAssumption ==
    /\ IsFiniteSet(Quads)
    /\ Quads \subseteq [s : Terms, p : Terms, o : Terms, g : Terms]
    /\ \A t \in Terms : PlainTerm(t) \/ TripleOver(t, Terms)

\* One call of termKey, toTermRecord and fromTermRecord on a triple term.
ASSUME TripleAssumption ==
    \A t \in {t \in Terms : t.type = "Quad"} :
        /\ TripleText(t) \in Seq(Mark)
        /\ TripleText(t) = KeyOf(t.s) \o <<"|">> \o KeyOf(t.p) \o <<"|">> \o KeyOf(t.o)
        /\ LET rec == TripleRecord(t)
           IN  /\ rec = [t |-> "Q", s |-> RecordOf(t.s), p |-> RecordOf(t.p), o |-> RecordOf(t.o)]
               /\ FromTriple(rec) = [type |-> "Quad", s |-> FromRecord(rec.s),
                                     p |-> FromRecord(rec.p), o |-> FromRecord(rec.o)]

Buf == INSTANCE TransactionBuffer WITH Key <- {QuadKey(q) : q \in Quads}

VARIABLES
    rows,   \* the quads table: rows[key] is the payload, a quad's record
    buf,    \* the transaction's buffer, by joined keys
    new,    \* new[k]: the quad the buffer's map inserted holds under k
    calls,  \* history: the calls on the transaction since it was fresh
    held    \* history: the quads that should be in the table

vars == <<rows, buf, new, calls, held>>

Init ==
    /\ rows = <<>>
    /\ buf = Buf!EmptyBuffer
    /\ new = <<>>
    /\ calls = <<>>
    /\ held = {}

\* The table without the rows of some keys, and with the rows of some quads
\* (INSERT OR REPLACE).
Without(table, keys) == [k \in DOMAIN table \ keys |-> table[k]]

With(table, quads) ==
    LET keys == {QuadKeyFor(q) : q \in quads}
    IN  [k \in DOMAIN table \cup keys |->
            IF k \in keys THEN Payload(CHOOSE q \in quads : QuadKeyFor(q) = k)
                          ELSE table[k]]

-----------------------------------------------------------------------------
\* The calls on a transaction.

Called(op, q) ==
    /\ Len(calls) < MaxCalls
    /\ calls' = Append(calls, <<op, q>>)
    /\ UNCHANGED <<rows, held>>

Add(q) ==
    /\ Called("add", q)
    /\ buf' = Buf!BufferAdd(buf, QuadKey(q))
    /\ new' = [k \in buf'.ins |-> IF k = QuadKey(q) THEN q ELSE new[k]]

Delete(q) ==
    /\ Called("delete", q)
    /\ buf' = Buf!BufferDelete(buf, QuadKey(q))
    /\ new' = [k \in buf'.ins |-> new[k]]

\* rollback(), or createTransaction() giving a fresh one.
Rollback ==
    /\ buf' = Buf!EmptyBuffer
    /\ new' = <<>>
    /\ calls' = <<>>
    /\ UNCHANGED <<rows, held>>

\* The last of the first n calls that is on q is op.
Last(op, q, n) ==
    \E i \in 1..n : /\ calls[i] = <<op, q>>
                    /\ \A j \in (i + 1)..n : calls[j][2] # q

\* What a transaction makes of q, said of its calls: the last call decides,
\* except that a delete right after an add only takes that add back.
Added(q) == Last("add", q, Len(calls))

Deleted(q) ==
    \E i \in DOMAIN calls : /\ calls[i] = <<"delete", q>>
                            /\ \A j \in (i + 1)..Len(calls) : calls[j][2] # q
                            /\ ~Last("add", q, i - 1)

\* What commit() makes of the table: every delete, then every insert.
CommittedRows == With(Without(rows, {SplitKey(k) : k \in buf.del}),
                      {new[k] : k \in buf.ins})

\* commit(); the buffer stays as it is.
Commit ==
    /\ rows' = CommittedRows
    /\ held' = {q \in Quads : Added(q) \/ (q \in held /\ ~Deleted(q))}
    /\ UNCHANGED <<buf, new, calls>>

-----------------------------------------------------------------------------
\* The calls that go straight to the table.

\* addQuad, and the inserts of the L2 commit.
InsertQuad(q) ==
    /\ rows' = With(rows, {q})
    /\ held' = held \cup {q}
    /\ UNCHANGED <<buf, new, calls>>

\* removeQuad joins the four keys, and splits them again.
RemoveQuad(q) ==
    /\ rows' = Without(rows, {SplitKey(QuadKey(q))})
    /\ held' = held \ {q}
    /\ UNCHANGED <<buf, new, calls>>

\* The L2 commit deletes by the four keys themselves.
DeleteByQuadKey(q) ==
    /\ rows' = Without(rows, {QuadKeyFor(q)})
    /\ held' = held \ {q}
    /\ UNCHANGED <<buf, new, calls>>

Next ==
    \/ \E q \in Quads : Add(q) \/ Delete(q)
    \/ Rollback \/ Commit
    \/ \E q \in Quads : InsertQuad(q) \/ RemoveQuad(q) \/ DeleteByQuadKey(q)

Spec == Init /\ [][Next]_vars

\* getQuads with one position bound: the quads rebuilt from the rows found.
Match(pos, term) ==
    LET i == CASE pos = "s" -> 1 [] pos = "p" -> 2 [] pos = "o" -> 3 [] pos = "g" -> 4
    IN  {QuadFrom(rows[k]) : k \in {k \in DOMAIN rows : k[i] = KeyOf(term)}}

-----------------------------------------------------------------------------
\* After any calls, transactions and commits (also a commit repeated, or other
\* calls between two commits of one transaction), the table has a row for each
\* quad that should be there, under its key, and no other row.
RowPerQuad ==
    /\ Cardinality(DOMAIN rows) = Cardinality(held)
    /\ \A q \in held : QuadKeyFor(q) \in DOMAIN rows

\* match gives back exactly the quads that should be there and have the term in
\* the position, each as it was added, although texts imitate the keys.
MatchFindsTheQuads ==
    \A pos \in {"s", "p", "o", "g"} : \A q \in Quads :
        Match(pos, q[pos]) = {h \in held : h[pos] = q[pos]}

\* "delete buffers a single quad for deletion on the next commit": a quad on
\* which the last call was delete is not in the table a commit leaves.
DeleteIsBuffered ==
    \A q \in Quads : Last("delete", q, Len(calls)) =>
        QuadKeyFor(q) \notin DOMAIN CommittedRows
=============================================================================
