----------------------------- MODULE QuadStore -----------------------------
(***************************************************************************)
(* The L2 store: commitPatchToSqlite, the search projection that follows   *)
(* it, the clean-up when the projection fails, and reindexAll.  They run   *)
(* as asynchronous JavaScript tasks over one handle: each SQL statement or *)
(* batch is one step, and other tasks run at every await between two.      *)
(***************************************************************************)
EXTENDS Naturals, FiniteSets, Sequences, FiniteSetsExt, KeysetPage

CONSTANTS
    Task,       \* the asynchronous calls that may be under way together
    Quad,       \* the quads, as primary keys: positive numbers
    Parts,      \* Parts[q]: into how many chunks the text of q is split
    Scope,      \* the quads the include/exclude filter lets through
    Patch,      \* Patch[t]: the patches task t may be asked to commit
    Reindexer,  \* the tasks that may be asked to reindexAll
    Mode,       \* the values of searchIndexOnImport to consider
    Vectors,    \* sqlite-vec is loaded and there is an embedding service
    LookupSize, \* maxLookupChunkSize
    InsertSize, \* BULK_INSERT_QUAD_ROWS_PER_STATEMENT
    Threshold,  \* STAGING_FLUSH_THRESHOLD
    PageSize,   \* readPageSize
    Fault       \* what may go wrong: "statement", "embed", "crash"

PatchType == [ins : SUBSET Quad, del : SUBSET Quad,
              import : BOOLEAN, replace : BOOLEAN]

ASSUME QuadAssumption == Quad \subseteq Nat \ {0} /\ IsFiniteSet(Quad)
ASSUME PartsAssumption == Parts \in [Quad -> Nat]
ASSUME ScopeAssumption == Scope \subseteq Quad
ASSUME PatchAssumption == /\ Patch \in [Task -> SUBSET PatchType]
                          /\ Reindexer \subseteq Task
ASSUME SizeAssumption == /\ LookupSize \in Nat \ {0} /\ InsertSize \in Nat \ {0}
                         /\ PageSize \in Nat \ {0}
                         /\ Threshold \in Nat /\ Threshold > 3
ASSUME OptionAssumption == /\ Mode \subseteq {"incremental", "deferred", "disabled"}
                           /\ Vectors \in BOOLEAN
                           /\ Fault \subseteq {"statement", "embed", "crash"}

VARIABLES
    quads,   \* the rows of quads
    chunks,  \* the rows of chunks: [id, quad, part]
    vec,     \* the rowids of chunks_vec
    mode,    \* searchIndexOnImport of this store
    pc,      \* pc[t]: the await task t stands at
    patch,   \* patch[t]: the filtered patch of its commit
    look,    \* look[t]: the insertions whose presence is not yet queried
    known,   \* known[t]: the insertions found present
    batch,   \* batch[t]: the quads in hand (novelInsertions, pageQuads)
    todo,    \* todo[t]: the chunks still to insert, as <<quad, part>>
    staged,  \* staged[t]: the statements its batch executor holds
    scan,    \* scan[t]: where its rebuild stands, or that it is none
    held,    \* the rowids of chunks that a search has read and still holds
    start,   \* history: the quads there were when t's commit was called
    landed,  \* history: landed[t], a part of what t staged has landed
    index,   \* history: what the search index should be (see below)
    apart    \* history: calls that overlapped were about different quads

database == <<quads, chunks, vec>>
local == <<patch, look, known, batch, todo, staged, scan>>
history == <<start, landed, index, apart>>
vars == <<database, local, mode, pc, history, held>>

NoPatch == [ins |-> {}, del |-> {}, import |-> FALSE, replace |-> FALSE]
NoScan == [on |-> FALSE, anchor |-> 0, last |-> FALSE]

\* index: "kept" when every call since the last rebuild ended as it should,
\* "rebuilt" right after a reindexAll that had the store to itself, "doubtful"
\* after a crash, a rebuild or clean-up that failed, a commit that failed with a
\* part of it landed, or chunks left out.
\* alone: the task whose rebuild no other call has overlapped so far, or none.
IndexState == [is : {"kept", "rebuilt", "doubtful"}, alone : SUBSET Task]

Init ==
    /\ quads = {} /\ chunks = {} /\ vec = {}
    /\ mode \in Mode
    /\ pc = [t \in Task |-> "idle"]
    /\ patch = [t \in Task |-> NoPatch]
    /\ look = [t \in Task |-> {}]
    /\ known = [t \in Task |-> {}]
    /\ batch = [t \in Task |-> {}]
    /\ todo = [t \in Task |-> {}]
    /\ staged = [t \in Task |-> <<>>]
    /\ scan = [t \in Task |-> NoScan]
    /\ held = {}
    /\ start = [t \in Task |-> {}]
    /\ landed = [t \in Task |-> FALSE]
    /\ index = [is |-> "kept", alone |-> {}]
    /\ apart = TRUE

Go(t, from, to) == pc[t] = from /\ pc' = [pc EXCEPT ![t] = to]

RowsOf(Q) == {c \in chunks : c.quad \in Q}
Ids(rows) == {c.id : c \in rows}

-----------------------------------------------------------------------------
\* Statements, as [op, of]: "vec-" and "chunks-" delete the vectors and the
\* chunks of the quads in "of", "quads-" and "quads+" those quads, "vec+" inserts
\* the vectors with the rowids in "of".

\* The i-th slice of at most n quads, in the order of their keys.
Slice(Q, n, i) == {q \in Q : Cardinality({r \in Q : r < q}) \div n = i - 1}
SliceCount(Q, n) == (Cardinality(Q) + n - 1) \div n

\* For each slice of Q in turn, the statements ops.
PerSlice(Q, n, ops) ==
    [i \in 1..(SliceCount(Q, n) * Len(ops)) |->
        [op |-> ops[((i - 1) % Len(ops)) + 1],
         of |-> Slice(Q, n, ((i - 1) \div Len(ops)) + 1)]]

\* Mutant: the chunks go first, so that their vectors are not found.
SweepOpsChunksFirst == IF Vectors THEN <<"chunks-", "vec-">> ELSE <<"chunks-">>

\* buildDeleteByQuadIds
SweepOps == IF Vectors THEN <<"vec-", "chunks-">> ELSE <<"chunks-">>

\* Mutants: the quads go before their chunks; only the quads go.
DeletionsQuadsFirst(Q) == PerSlice(Q, LookupSize, <<"quads-">> \o SweepOps)
DeletionsOfQuads(Q) == PerSlice(Q, LookupSize, <<"quads-">>)

\* stageDeletionStatementsChunked
Deletions(Q) == PerSlice(Q, LookupSize, Append(SweepOps, "quads-"))

ChunkDeletions(Q) == PerSlice(Q, LookupSize, SweepOps)

\* A clean slate for the novel quads, then their rows.
Insertions(Q) == Deletions(Q) \o PerSlice(Q, InsertSize, <<"quads+">>)

\* The quads, or rowids, the statements S name under op.
Named(S, op) == UNION {S[i].of : i \in {j \in DOMAIN S : S[j].op = op}}

\* The vectors S deletes: a "vec-" finds them through the chunks still there.
VectorsSwept(S) ==
    {c.id : c \in {d \in chunks : \E i \in DOMAIN S :
        /\ S[i].op = "vec-" /\ d.quad \in S[i].of
        /\ \A j \in 1..(i - 1) : ~(S[j].op = "chunks-" /\ d.quad \in S[j].of)}}

\* The batch S lands.  No executor deletes a quad or a vector after inserting it.
Land(S) ==
    /\ quads' = (quads \ Named(S, "quads-")) \cup Named(S, "quads+")
    /\ chunks' = chunks \ RowsOf(Named(S, "chunks-"))
    /\ vec' = (vec \ VectorsSwept(S)) \cup Named(S, "vec+")

\* A mutant: without AUTOINCREMENT the rowid of a deleted chunk comes again.
FreshIdReused == Min(1..(Cardinality(chunks) + 1) \ Ids(chunks))

\* AUTOINCREMENT gives a rowid nothing refers to, here the least one.
UsedIds == Ids(chunks) \cup vec \cup held
           \cup UNION {Named(staged[t], "vec+") : t \in Task}
FreshId == Min(1..(Cardinality(UsedIds) + 1) \ UsedIds)

\* The call ends: the task forgets what it held.
End(t) ==
    /\ pc' = [pc EXCEPT ![t] = "idle"]
    /\ patch' = [patch EXCEPT ![t] = NoPatch]
    /\ look' = [look EXCEPT ![t] = {}]
    /\ known' = [known EXCEPT ![t] = {}]
    /\ batch' = [batch EXCEPT ![t] = {}]
    /\ todo' = [todo EXCEPT ![t] = {}]
    /\ staged' = [staged EXCEPT ![t] = <<>>]
    /\ scan' = [scan EXCEPT ![t] = NoScan]
    /\ start' = [start EXCEPT ![t] = {}]
    /\ landed' = [landed EXCEPT ![t] = FALSE]

\* The import leaves the search index to a rebuild after its flush.
Deferred(t) == patch[t].import /\ mode = "deferred"

\* The quads the call t is in may write, or read and act upon.
Concerns(t) ==
    IF pc[t] = "idle" THEN {}
    ELSE IF scan[t].on \/ patch[t].replace \/ Deferred(t) THEN Quad
    ELSE patch[t].ins \cup patch[t].del

\* A call about some quads begins.
CallBegins(t, about) ==
    apart' = (apart /\ \A u \in Task \ {t} : Concerns(u) \cap about = {})

Doubt == index' = [index EXCEPT !.is = "doubtful"]

-----------------------------------------------------------------------------
\* SqliteBatchExecutor.stage: at the threshold what is staged lands as a batch of
\* its own.  While a projection inserts chunks its vectors only wait.
FlushEarly(t) ==
    /\ pc[t] \in {"lookup", "flush", "insert", "cleanup", "sweep"}
    /\ pc[t] = "insert" => todo[t] = {}
    /\ Len(staged[t]) >= Threshold
    /\ Land(SubSeq(staged[t], 1, Threshold))
    /\ staged' = [staged EXCEPT ![t] = SubSeq(@, Threshold + 1, Len(@))]
    /\ landed' = [landed EXCEPT ![t] = TRUE]
    /\ UNCHANGED <<mode, pc, patch, look, known, batch, todo, scan, start, index, apart>>

\* SqliteBatchExecutor.flush: the rest of what task t staged lands.
FlushRest(t) == Len(staged[t]) < Threshold /\ Land(staged[t])

-----------------------------------------------------------------------------
\* commitPatchToSqlite

CallCommit(t, p) ==
    LET q == [p EXCEPT !.ins = @ \cap Scope, !.del = @ \cap Scope]
    IN  /\ Go(t, "idle", IF p.replace THEN "wipe" ELSE "lookup")
        /\ patch' = [patch EXCEPT ![t] = q]
        /\ look' = [look EXCEPT ![t] = q.ins]
        /\ staged' = [staged EXCEPT ![t] = IF p.replace THEN <<>> ELSE Deletions(q.del)]
        /\ start' = [start EXCEPT ![t] = quads]
        /\ index' = [is |-> IF index.is = "doubtful" THEN "doubtful" ELSE "kept",
                     alone |-> {}]
        /\ CallBegins(t, IF p.replace \/ (p.import /\ mode = "deferred") THEN Quad
                         ELSE q.ins \cup q.del)
        /\ UNCHANGED <<database, mode, known, batch, todo, scan, landed>>

\* A replace-mode import empties the world first, in a batch of its own.
Wipe(t) ==
    /\ Go(t, "wipe", "lookup")
    /\ quads' = {} /\ chunks' = {} /\ vec' = {}
    /\ staged' = [staged EXCEPT ![t] = Deletions(patch[t].del)]
    /\ UNCHANGED <<patch, look, known, batch, todo, scan, mode, history>>

\* queryQuadPresence: one SELECT per slice of the insertions.
Lookup(t) ==
    /\ pc[t] = "lookup" /\ look[t] # {} /\ Len(staged[t]) < Threshold
    /\ LET slice == Slice(look[t], LookupSize, 1)
       IN  /\ known' = [known EXCEPT ![t] = @ \cup (slice \cap quads)]
           /\ look' = [look EXCEPT ![t] = @ \ slice]
    /\ UNCHANGED <<database, mode, pc, patch, batch, todo, staged, scan, history>>

\* A mutant: an insertion found present is not put back after its deletion.
NovelByPresence(t) == {q \in patch[t].ins : q \notin known[t]}

\* The insertions taken for new: not found present, or deleted by this patch.
Novel(t) == {q \in patch[t].ins : q \notin known[t] \/ q \in patch[t].del}

\* What the new quads need is staged behind the deletions.
Stage(t) ==
    /\ Go(t, "lookup", "flush")
    /\ look[t] = {} /\ Len(staged[t]) < Threshold
    /\ batch' = [batch EXCEPT ![t] = Novel(t)]
    /\ staged' = [staged EXCEPT ![t] = @ \o Insertions(Novel(t))]
    /\ UNCHANGED <<database, mode, patch, look, known, todo, scan, history>>

Projects(t) == mode # "disabled" /\ ~Deferred(t) /\ batch[t] # {}

\* What awaits a commit whose last batch has landed.
AfterFlush(t) ==
    IF Projects(t) THEN
        /\ pc' = [pc EXCEPT ![t] = "embed"]
        /\ staged' = [staged EXCEPT ![t] = <<>>]
        /\ UNCHANGED <<patch, look, known, batch, todo, scan, start, landed, index>>
    ELSE IF Deferred(t) THEN
        /\ pc' = [pc EXCEPT ![t] = "page"]
        /\ staged' = [staged EXCEPT ![t] = <<>>]
        /\ scan' = [scan EXCEPT ![t] = [NoScan EXCEPT !.on = TRUE]]
        /\ UNCHANGED <<patch, look, known, batch, todo, start, landed, index>>
    ELSE
        /\ End(t)
        /\ IF batch[t] = {} THEN UNCHANGED index ELSE Doubt

\* The last batch of the commit.
Flush(t) ==
    /\ pc[t] = "flush"
    /\ FlushRest(t)
    /\ AfterFlush(t)
    /\ UNCHANGED <<mode, apart>>

\* The wipe, a lookup or a batch fails: the call throws, that batch undone and
\* nothing else.
CommitFails(t) ==
    /\ "statement" \in Fault
    /\ pc[t] \in {"wipe", "lookup", "flush"}
    /\ End(t)
    /\ IF landed[t] THEN Doubt ELSE UNCHANGED index
    /\ UNCHANGED <<database, mode, apart>>

-----------------------------------------------------------------------------
\* projectChunks: split and embed the texts, insert each chunk row by itself,
\* then flush the vectors together.

\* A mutant: the parts are counted from zero.
EmbedFromZero(t) ==
    /\ Go(t, "embed", "insert")
    /\ todo' = [todo EXCEPT
                  ![t] = UNION {{q} \X (0..Parts[q]) : q \in batch[t]}]
    /\ UNCHANGED <<database, mode, patch, look, known, batch, staged, scan, history>>

Embed(t) ==
    /\ Go(t, "embed", "insert")
    /\ todo' = [todo EXCEPT
                  ![t] = UNION {{q} \X (1..Parts[q]) : q \in batch[t]}]
    /\ UNCHANGED <<database, mode, patch, look, known, batch, staged, scan, history>>

InsertChunk(t) ==
    /\ pc[t] = "insert"
    /\ \E c \in todo[t] :
          /\ chunks' = chunks \cup {[id |-> FreshId, quad |-> c[1], part |-> c[2]]}
          /\ todo' = [todo EXCEPT ![t] = @ \ {c}]
    /\ staged' = [staged EXCEPT
                    ![t] = IF Vectors THEN Append(@, [op |-> "vec+", of |-> {FreshId}])
                           ELSE @]
    /\ UNCHANGED <<quads, vec, mode, pc, patch, look, known, batch, scan, history>>

\* A rebuild ends well: a lone one leaves the index rebuilt.
RebuildEnds(t) ==
    /\ End(t)
    /\ index' = IF t \in index.alone THEN [is |-> "rebuilt", alone |-> {}] ELSE index

\* flushVecStatements
FlushVec(t) ==
    /\ pc[t] = "insert" /\ todo[t] = {}
    /\ FlushRest(t)
    /\ \/ /\ ~scan[t].on
          /\ End(t) /\ UNCHANGED index
       \/ /\ scan[t].on /\ scan[t].last
          /\ RebuildEnds(t)
       \/ /\ scan[t].on /\ ~scan[t].last
          /\ pc' = [pc EXCEPT ![t] = "page"]
          /\ batch' = [batch EXCEPT ![t] = {}]
          /\ staged' = [staged EXCEPT ![t] = <<>>]
          /\ UNCHANGED <<patch, look, known, todo, scan, start, landed, index>>
    /\ UNCHANGED <<mode, apart>>

\* The splitter, the embedding service or a statement fails: a commit goes on
\* to clean up, a rebuild just throws.
ProjectionFails(t) ==
    /\ \/ "embed" \in Fault /\ pc[t] = "embed"
       \/ "statement" \in Fault /\ pc[t] = "insert"
    /\ \/ /\ ~scan[t].on
          /\ pc' = [pc EXCEPT ![t] = "cleanup"]
          /\ todo' = [todo EXCEPT ![t] = {}]
          /\ staged' = [staged EXCEPT ![t] = Deletions(batch[t])]
          /\ UNCHANGED <<patch, look, known, batch, scan, start, landed, index>>
       \/ /\ scan[t].on
          /\ End(t) /\ Doubt
    /\ UNCHANGED <<database, mode, apart>>

\* A mutant: every insertion of the patch is taken back, not the novel ones.
CleanupAllInsertions(t) ==
    /\ pc[t] = "cleanup"
    /\ Len(staged[t]) < Threshold /\ Land(staged[t] \o Deletions(patch[t].ins))
    /\ End(t)
    /\ UNCHANGED <<mode, apart, index>>

\* A mutant: the quads are put back as they were when the commit was called.
CleanupRestores(t) ==
    /\ pc[t] = "cleanup"
    /\ quads' = start[t] \ patch[t].del
    /\ chunks' = chunks \ RowsOf(batch[t]) /\ vec' = vec \ Ids(RowsOf(batch[t]))
    /\ End(t)
    /\ UNCHANGED <<mode, apart, index>>

\* rollbackNovelQuads, after which the commit rethrows.
Cleanup(t) ==
    /\ pc[t] = "cleanup"
    /\ FlushRest(t)
    /\ End(t)
    /\ UNCHANGED <<mode, apart, index>>

CleanupFails(t) ==
    /\ "statement" \in Fault
    /\ pc[t] = "cleanup"
    /\ End(t) /\ Doubt
    /\ UNCHANGED <<database, mode, apart>>

-----------------------------------------------------------------------------
\* rebuildSqliteSearchIndexFromQuads

CallReindex(t) ==
    /\ Go(t, "idle", "page")
    /\ scan' = [scan EXCEPT ![t] = [NoScan EXCEPT !.on = TRUE]]
    /\ index' = [index EXCEPT !.alone =
                    IF \A u \in Task : pc[u] = "idle" THEN {t} ELSE {}]
    /\ CallBegins(t, Quad)
    /\ UNCHANGED <<database, mode, patch, look, known, batch, todo, staged, start, landed>>

\* One page of durable quads; the filtered ones go on to be projected.
Page(t) ==
    LET rows == PageAfter(quads, scan[t].anchor, PageSize)
        last == Cardinality(rows) < PageSize
        fresh == rows \cap Scope
    IN  /\ pc[t] = "page"
        /\ IF fresh # {} THEN
               /\ pc' = [pc EXCEPT ![t] = "sweep"]
               /\ batch' = [batch EXCEPT ![t] = fresh]
               /\ staged' = [staged EXCEPT ![t] = ChunkDeletions(fresh)]
               /\ scan' = [scan EXCEPT ![t] =
                    [on |-> TRUE, anchor |-> AnchorAfter(rows, scan[t].anchor),
                     last |-> last]]
               /\ UNCHANGED <<patch, look, known, todo, start, landed, index>>
           ELSE IF last THEN RebuildEnds(t)
           ELSE
               /\ scan' = [scan EXCEPT ![t].anchor = AnchorAfter(rows, @)]
               /\ UNCHANGED <<pc, patch, look, known, batch, todo, staged, start, landed, index>>
        /\ UNCHANGED <<database, mode, apart>>

\* A mutant: a rebuild adds to the chunks there are.
SweepSkipped(t) ==
    /\ Go(t, "sweep", "embed")
    /\ staged' = [staged EXCEPT ![t] = <<>>]
    /\ UNCHANGED <<database, patch, look, known, batch, todo, scan, mode, history>>

\* refreshSearchChunksForQuads sweeps the old chunks before it adds new ones.
Sweep(t) ==
    /\ Go(t, "sweep", "embed")
    /\ FlushRest(t)
    /\ staged' = [staged EXCEPT ![t] = <<>>]
    /\ UNCHANGED <<patch, look, known, batch, todo, scan, mode, history>>

RebuildFails(t) ==
    /\ "statement" \in Fault
    /\ pc[t] \in {"page", "sweep"}
    /\ End(t) /\ Doubt
    /\ UNCHANGED <<database, mode, apart>>

-----------------------------------------------------------------------------
\* The process dies and starts again: every call is lost, the tables stay as
\* the last statement left them.
Crash ==
    /\ "crash" \in Fault
    /\ \E t \in Task : pc[t] # "idle"
    /\ pc' = [t \in Task |-> "idle"]
    /\ patch' = [t \in Task |-> NoPatch]
    /\ look' = [t \in Task |-> {}]
    /\ known' = [t \in Task |-> {}]
    /\ batch' = [t \in Task |-> {}]
    /\ todo' = [t \in Task |-> {}]
    /\ staged' = [t \in Task |-> <<>>]
    /\ scan' = [t \in Task |-> NoScan]
    /\ start' = [t \in Task |-> {}]
    /\ landed' = [t \in Task |-> FALSE]
    /\ index' = [is |-> "doubtful", alone |-> {}]
    /\ UNCHANGED <<database, mode, apart>>

Step(t) ==
    \/ Wipe(t) \/ Lookup(t) \/ Stage(t) \/ Flush(t) \/ CommitFails(t)
    \/ Embed(t) \/ InsertChunk(t) \/ FlushVec(t) \/ ProjectionFails(t)
    \/ Cleanup(t) \/ CleanupFails(t)
    \/ Page(t) \/ Sweep(t) \/ RebuildFails(t)
    \/ FlushEarly(t)

Write ==
    \/ \E t \in Task : \/ \E p \in Patch[t] : CallCommit(t, p)
                       \/ Step(t)
    \/ \E t \in Reindexer : CallReindex(t)
    \/ Crash

\* Searches are in HybridSearch.
Next == Write /\ UNCHANGED held

Spec == Init /\ [][Next]_vars

\* An awaited promise settles and its continuation runs: the event loop holds
\* up no task for ever, and the embedding service answers or fails.
FairSpec == Spec /\ \A t \in Task : WF_vars(Step(t) /\ UNCHANGED held)

-----------------------------------------------------------------------------
Place == {"idle", "wipe", "lookup", "flush", "embed", "insert", "cleanup", "page", "sweep"}

Statement == [op : {"vec-", "chunks-", "quads-", "quads+"}, of : SUBSET Quad]
             \cup [op : {"vec+"}, of : SUBSET Nat]

TypeOK ==
    /\ quads \subseteq Quad
    /\ chunks \subseteq [id : Nat, quad : Quad, part : Nat]
    /\ vec \subseteq Nat
    /\ mode \in Mode
    /\ pc \in [Task -> Place]
    /\ patch \in [Task -> PatchType]
    /\ look \in [Task -> SUBSET Quad] /\ known \in [Task -> SUBSET Quad]
    /\ batch \in [Task -> SUBSET Quad] /\ start \in [Task -> SUBSET Quad]
    /\ todo \in [Task -> SUBSET (Quad \X Nat)]
    /\ \A t \in Task : \A c \in todo[t] : c[2] \in 1..Parts[c[1]]
    /\ staged \in [Task -> Seq(Statement)]
    /\ scan \in [Task -> [on : BOOLEAN, anchor : Nat, last : BOOLEAN]]
    /\ held \subseteq Nat
    /\ landed \in [Task -> BOOLEAN] /\ index \in IndexState /\ apart \in BOOLEAN

AllIdle == \A t \in Task : pc[t] = "idle"

\* Search never finds what the store does not hold: whatever fails or crashes,
\* and whatever other calls do, about other quads, between the awaits of a
\* commit, every chunk belongs to a stored quad and every vector to a chunk.
NoOrphans ==
    apart => /\ \A c \in chunks : c.quad \in quads
             /\ vec \subseteq Ids(chunks)

\* The index of the quads in scope is exact: each has its chunks, once, with
\* their vectors, and there are no others.
IndexMatches ==
    /\ \A q \in Scope : /\ {c.part : c \in RowsOf({q})} = IF q \in quads THEN 1..Parts[q] ELSE {}
                       /\ \A c, d \in RowsOf({q}) : c.part = d.part => c = d
    /\ RowsOf(Quad \ Scope) = {}
    /\ vec = IF Vectors THEN Ids(chunks) ELSE {}

\* With no call under way the index is exact, unless something has happened
\* that only a reindex repairs; and a reindex that ends well repairs it, after
\* any crash and any failure half-way through a projection.
IndexIsExact == AllIdle /\ apart /\ index.is # "doubtful" => IndexMatches

\* A commit whose projection failed and was cleaned up leaves, of the quads its
\* patch names, those there were before less its deletions (which, like the
\* wipe of a replace import, are not restored): no half-indexed quad stays, and
\* none is lost that another commit, about other quads, put there meanwhile.
FailureUndoesInsertions ==
    [][\A t \in Task : apart /\ Cleanup(t) =>
          LET p == patch[t]
              before == IF p.replace THEN {} ELSE start[t]
              named == p.ins \cup p.del
          IN  /\ quads' \cap named = (before \cap p.ins) \ p.del
              /\ quads' \ named = quads \ named]_vars

\* A commit is under way (with a deferred import the rebuild is part of it), and
\* the quads it may change: a replace import wipes them all.
Committing(t) == pc[t] # "idle" /\ (scan[t].on => Deferred(t))

Touched(t) ==
    IF ~Committing(t) THEN {}
    ELSE IF patch[t].replace THEN Quad ELSE patch[t].ins \cup patch[t].del

\* The quads without the work of the commits under way.
Settled ==
    (quads \ UNION {Touched(t) : t \in Task})
    \cup UNION {start[t] \cap Touched(t) : t \in Task}

CallsOf(t) ==
    IF Committing(t)
    THEN {[ins |-> patch[t].ins, del |-> patch[t].del, replace |-> patch[t].replace]}
    ELSE {}

Promise == INSTANCE IndexedStore
    WITH data <- Settled, calls <- [t \in Task |-> CallsOf(t)],
         sound <- index.is # "doubtful"

\* The call of t ends without an exception.
Resolves(t) == (Flush(t) \/ FlushVec(t) \/ Page(t)) /\ pc'[t] = "idle"

\* Whatever awaits, batches, failures and calls about other quads fall into it, a
\* commit acts as one step: if it resolves its whole patch is there, if it throws
\* its insertions are taken back, or it did nothing, or the index is in doubt and
\* only quads of its patch are affected.
CallsAreAtomic ==
    /\ Promise!Spec
    /\ [][\A t \in Task : apart' /\ Committing(t) /\ Resolves(t) => Promise!Commit(t)]_vars

\* "reindexAll rebuilds the entire search index directly from durable quads":
\* right after one that had the store to itself, the index is exact.
RebuiltIsExact == AllIdle /\ index.is = "rebuilt" => IndexMatches

\* Every commit and every reindex comes to an end, even while other tasks keep
\* adding quads to the table a rebuild is paging through.
CallsEnd == \A t \in Task : pc[t] # "idle" ~> pc[t] = "idle"
=============================================================================
