# A specification of worlds-sqlite

worlds-sqlite keeps RDF quads in SQLite. It has two stores over the same
`quads` table: an RDF/JS store for one synchronous handle (**L1**,
`src/sqlite/rdfjs-store/`), and the quad store of the Worlds SDK (**L2**,
`src/sqlite/quad-store/`, `commit-patch-to-sqlite.ts`, `search-index/`), which
also keeps a search index of text chunks and vectors. The modules here model
what these do to their state, TLC checks them on small instances, and TLAPS
proves the main theorems for every value of the constants. Paths below are
relative to the repository.

## 1. Inventory

| Component | State | Operations | Interacts with |
|---|---|---|---|
| L1 transaction buffer, `SqliteTransactionImpl` | `inserted` (map key → quad), `deleted` (set of keys) | `add`, `delete`, `rollback`, `commit` | runs SQL on the store's handle under `BEGIN IMMEDIATE` |
| L1 store, `SqliteStore` | the `quads` table; for a call, its page anchor | `addQuad`, `removeQuad`, `import`, `remove`, `getQuads`, `match`, `countQuads`, `removeMatches`, `deleteGraph`, `createTransaction`, `close` | other processes through the file and SQLite's write lock; streams to its clients |
| Term and quad keys, `term-key.ts`, payload JSON | none | `termKey`, `quadKeyFor`, join and split of the four keys, `toTermRecord`, `fromTermRecord` | decide which row a quad is, and which quad a row |
| `MemoryStream` | array of quads, listeners, `_ended`, `_flowing`, `_readStarted`, queued microtasks | `on`, `once`, `prependListener`, `removeListener`, `read`, `destroy`; the drain, readable and end microtasks | its client, also from inside a listener |
| `SqliteConnectionDriver` | one handle: in a transaction or not, or closed | `execute`, `batch`, `transaction`, `close` | several asynchronous tasks share it |
| `SqliteBatchExecutor` | staged statements | `stage`, `flush`, a flush of its own at 10,000 statements | `driver.batch` |
| L2 commit, `commitPatchToSqlite`, `SqliteQuadStore` | `quads`, `chunks`, `chunks_vec` | commit of a patch, merge and replace import, clean-up after a failed projection | batch executor, projector |
| Search projection, `project-search-chunks.ts` | `chunks`, `chunks_vec` | split, embed, insert chunk rows, flush vectors; refresh | text splitter and embedding service (both may fail) |
| Index rebuild | page anchor | `reindexAll` | projection, and commits that overlap it |
| Search queries, `SqliteSearchIndex.search`, `keyword-fts-plan.ts` | for a call, its plan and the rows of its first statement | keyword, vector and hybrid search, filters, fusion, result ids | embedding service; reads `chunks`, `chunks_fts`, `chunks_vec` between the statements of writers |
| Chunk tables and triggers, `chunk-schema.ts` | `chunks_fts`, row ids | insert and delete of chunks, with their full-text entries | every writer of chunks |
| Schema and SDK assembly, `create-sqlite-sdk.ts`, `initialize-sqlite-schema.ts` | tables, indexes and triggers of the file, journal mode, each handle's timeout | open, create what is missing, close | other processes that open the file at the same time |

What is hard in each, and what makes it correct:

- **L1 buffer and store.** Several processes open one file. A commit is many
  statements; another process runs between any two of them, `busy_timeout` may
  expire, a statement or the `beforeCommit` hook may throw, the process may die.
  Correct: writers are excluded, a patch lands entirely or not at all, nothing
  uncommitted is read, and each call ends. `getQuads` reads in pages with no read
  transaction around them. Correct: no row that was there throughout is missed
  and none is returned twice.
- **Keys.** Keys are joined from texts, so texts may imitate keys. Correct: a row
  per quad, and `match` returns just the quads asked for, as they were added.
- **MemoryStream.** Whether anything still moves depends on three flags and on
  the order of microtasks. Correct: the end comes, once, and not before the last
  quad.
- **ConnectionDriver.** `transaction()` awaits, and calls of other tasks reach
  the same handle meanwhile. Correct: the handle is never left in a transaction;
  what a settled promise says is true.
- **L2 store.** Reads before an `await` are used after it; the flush and the
  projection are separate batches, with an embedding call in between that may
  fail. Correct: every chunk belongs to a stored quad and every vector to a
  chunk; the index is exact when nothing went wrong, and after a reindex. A
  commit of more than 10,000 statements lands in several batches.
- **Search.** A hybrid search runs two statements with an `await` between;
  writers run there. Correct: every result was stored at some moment of the
  search and passes its filter; what stood still is found; two chunks are never
  fused into one row.
- **Opening.** The schema is created a statement at a time, by processes that
  race, fail or die. Correct: whoever gets through finds every object it needs,
  no chunk escapes the full-text index, and an opening that gives up has waited.

`PROJECT.json` lists the hazards at their lines with the properties that guard
each.

## 2. Modules

| Module | Models |
|---|---|
| `TransactionBuffer` | The buffer of one L1 transaction as two sets of keys, as operators |
| `KeysetPage` | `WHERE key > anchor ORDER BY key LIMIT n`, used by `getQuads` and by the rebuild |
| `SqliteStore` | Processes with one L1 store each on one file; extends the two above |
| `PatchStore` | Abstract: a set of quads that changes by whole patches and single rows |
| `TermKey` | Terms to keys and payloads and back; on triple terms they are constants |
| `TripleTerm` | The same on triple terms, recursively, for TLC |
| `QuadRows` | The rows under their real keys: buffer, commit and direct calls (`INSTANCE TransactionBuffer` over joined keys) |
| `MemoryStream` | The stream, its client and its microtasks |
| `ConnectionDriver` | One handle shared by tasks |
| `QuadStore` | L2 commits with their batches, projection, clean-up and rebuild; extends `KeysetPage` |
| `IndexedStore` | Abstract: the quads, and commits that change them in one step at their end |
| `HybridSearch` | A search beside the writers; extends `QuadStore` |
| `OpenStore` | Processes of both layers opening one file, and writing chunks when they are open |
| `MC*` | Instances for TLC |
| `KeysetPageTheorems`, `SqliteStoreProofs`, `ConnectionDriverProofs`, `OpenStoreProofs`, `QuadStoreProofs`, `SearchIndexProofs`, `MemoryStreamProofs`, `QuadRowsProofs` | Theorems |

**SqliteStore.** A process runs one call at a time, so `pc[p]` says where in
its call it stands, and each SQL statement is one action. `table` is what every
reader sees; `work` is the table as the lock holder sees it between `BEGIN
IMMEDIATE` and `COMMIT`. `CallCommit`, `Begin`/`BeginBusy`, `HookReturns`,
`RemoveNext`, `RemovesDone`, `InsertNext`, `Commit` follow the lines of
`commit()`; `Fail` is its catch, `BeginBusy` the throw of `BEGIN IMMEDIATE`
outside the `try`. The buffer is not cleared by a commit, as in the code, so a
second `commit()` replays it. `ReadPage` is one `SELECT` of `getQuads`, and
`ReadFails` its throwing, or that of a payload that cannot be parsed;
`SweepNext`/`SweepBusy` are the deletes of `removeMatches`, by the key of the
quad *rebuilt* from the payload (`ReadBack`). `Stop` is death anywhere in a
call, and also `close()`. Keys are positive numbers because SQLite orders them;
`snaps` is history for the properties and no action reads it.

**QuadRows and TermKey.** Strings are sequences of marks; the code's tags and
separators are marks that may also occur in texts. The history variable `held`
says which quads should be there: for a commit, by the calls on the transaction
(the last call on a quad decides, and a delete directly after an add only takes
that add back), for a direct call by that call. `termKey`, `toTermRecord` and
`fromTermRecord` call themselves on the terms of a triple term; in `TermKey` what
they make of one are the constants `TripleText`, `TripleRecord` and `FromTriple`,
to which the `.cfg` files give the recursive definitions of `TripleTerm`: TLC
computes them, and the theorems need only `TripleAssumption`, which is one call of
each function on a triple term, as the code writes it. The triple terms are RDF's
(`TripleOver`): subject and predicate are IRIs or blank nodes without `|`, the
object is any term, to any depth of nesting.

**MemoryStream.** Quads are told apart by their place only, so the array is its
length. Client calls happen between microtasks or inside a listener, that is
after a turn of the drain loop. Listeners of one kind behave as one.

**ConnectionDriver.** `execute` and `batch` are synchronous inside and so are
single actions, with `BatchFails` standing for a `BEGIN` or a statement that
throws and the `ROLLBACK` in the catch; `transaction()` is `Begin`, `TxExecute`
per `tx.execute`, and `Commit` or `Throws`. `alone` is history.

**QuadStore.** Each awaited statement or batch is an action: `Wipe` (replace
import), `Lookup` per slice of presence queries, `Flush`, `Embed`,
`InsertChunk`, `FlushVec`, `Cleanup`; `Page` and `Sweep` for the rebuild, which
goes on through `Embed`, `InsertChunk` and `FlushVec`. `staged[t]` holds the
statements of the task's batch executor in their order, each as what it does to
which quads; `Land` is what a batch of them does. `FlushEarly` is the flush that
`stage` makes at the threshold, `FlushRest` the last one. Statements are staged
when the call that stages them begins, so the lookups of a commit happen, as in
the code, after the early flushes of its deletions and before those of its
insertions. `AfterFlush` follows `createTransaction`'s commit: project, or
rebuild after a deferred import, or stop. `index`, `start`, `landed` and `apart`
are history: what the index should be, the quads when the commit was called,
whether a part of the commit has landed already, and whether all calls that
overlapped so far were about different quads (a rebuild and a replace import are
about all).

**IndexedStore.** What a caller of the L2 store may rely on: `Call` hands in a
patch and changes nothing; at the end of the call `Commit` applies all of it,
`TakeBack` only its deletions (after a failed projection), `Refuse` nothing (or,
of a replace import, the wipe), and `Fail` any part of it, of one commit or in a
crash of all, and then the index is not `sound`; `Reindexed` makes it sound again.
`Promise` in `QuadStore` is the mapping. `Settled` is the table without the work of
commits under way: a quad that one of them may touch counts as it stood when that
commit was called (`start`), so batches that have landed show only when the call
ends. `CallsOf` is the patch of a task that commits (the rebuild of a deferred
import is still its commit), `sound` is `index.is # "doubtful"`. Once calls that
overlapped were about one quad (`~apart`) nothing is promised. The
refinement alone would allow a commit to resolve by a `Fail`, so `CallsAreAtomic`
adds that a commit that ends without an exception (`Resolves`) is a `Commit`.

**HybridSearch.** A search embeds its query (`QueryEmbedded`, or
`QueryNotEmbedded` when the service fails or the width is wrong), runs the
keyword statement (in `Execute`) and then the vector statement
(`SearchVectors`), and answers. Between these, `Writes` is any step of
`QuadStore`. A text is its set of words (of the object literal only, as
`fts-value.ts` says); the order in which SQLite ranks what it finds is any order;
the window takes the best `limit` of it before the filter looks at it, as in both
statements. The fusion is exact arithmetic on fractions. `seen`, `steady`,
`lasting` and `roomy` are history: what was stored at some moment, what stood
still, and whether the windows held all there was.

**OpenStore.** `todo[p]` is the list of statements an opening has still to run:
the constructor's for an L1 store, and for the SDK the schema's followed by the
constructor's. A statement that finds its object is passed over; one that has to
write takes the lock (`TakeLock`) and lands (`Create`); one that meets another's
lock fails (`Busy`), after waiting if its handle has a timeout. `FtsFollowsChunks`
needs the triggers of the model to act only if they exist, so they are looked up
in `schema` at each write.

Operators whose comment says *a mutant* stand beside the definition they vary in
the way a slip in the code would; no action uses them. `PROJECT.json` pairs each
property with one that breaks it, which shows that the property can fail.

External, modelled from how the code uses it: SQLite's lock, snapshot and
rollback, row ids and `SQLITE_BUSY`; the death of a process; the microtask queue.

## 3. Runs

| Run | Instance | Shows |
|---|---|---|
| `rows` | 6 quads with confusable texts, 3 calls on a transaction | `RowPerQuad`, `MatchFindsTheQuads` |
| `store_commit` | 2 processes, a transaction each, 3 keys | `TypeOK`, `WritersExcluded`, `BuffersSettled`, `WorkIsPartialPatch`, `CallReturns`, and `Implements` (the refinement of `PatchStore`) |
| `store_read` | a reader and a process with a transaction, 2 keys, pages of 1 | `PagesLoseNothing`, `CountsOnce`, `AnchorIsLast`, `CallReturns` |
| `stream` | 2 quads, 5 client calls of any kind | `EndLosesNothing`, `NoDataAfterEnd`, `DataDrains`, `EndIsTold` |
| `driver` | 3 tasks, any calls, another process, close | `NothingLeftOpen`, `BatchesAreAtomic`, `CallsKeepTheirWord` |
| `quads_alone` | 1 task, 3 quads (two chunks, one, none; one out of scope), every patch, mode and failure, crash | `NoOrphans`, `IndexIsExact`, `FailureUndoesInsertions`, and `CallsAreAtomic` (the refinement of `IndexedStore`) |
| `quads_shared` | 2 tasks, 2 quads, overlapping commits and reindexes, failing embeddings | `NoOrphans`, `IndexIsExact`, `CallsAreAtomic`, `CallsEnd` |
| `search` | a writer and a search, 2 quads whose texts differ in a filler word, 6 requests, failing statements and embeddings | `FoundWasStored`, `SteadyIsFound`, `FusionJoinsOneChunk`, `TwinsWereRefreshed` |
| `open` | 2 SDK processes and an L1 store on one new file, 1 chunk | `OpenIsComplete`, `FtsFollowsChunks`, `StoreOpenWaits`, `OpeningEnds` |

*Bounds.* Two processes suffice for every conflict on one lock, and two keys for
a patch that can be half done (three in `store_commit`, so that half a patch is
not mistaken for a single row). What holds of two keys and pages of one (several
full pages, an empty last one, rows coming and going on both sides of the anchor)
is proved for all sizes. `MaxCalls = 3` lets every pattern the buffer tells apart
on one quad occur (add–delete–add, delete–add–delete, ...), and calls on several
quads mix. Five stream calls let a listener come, leave and come back with an
end listener and a read in between. Three tasks let a transaction, a batch that
breaks it and a third transaction that is then open meet. In `quads_shared` a
vector row id is never used again, so stray vectors of overlapping calls on *one*
quad could pile up: the constraint `NoStrayVectors` stops there. With
`Threshold = 4`, `LookupSize = 1` and `InsertSize = 1` a commit of two quads is
two batches or more, and every cut between its statements occurs; a threshold of 10 in
`search` lets a commit land in one. A search needs two quads to have a row of one
branch beside a row of both, and a text with a filler word to tell the cleaned
query from the given one. Three processes in `open` let one hold the lock while
another has a timeout and a third has none. `MaxOps`, `MaxCalls` and
`NoStrayVectors` are the only bounds on behaviour; `stream` may stop when the
client has no more calls (`CHECK_DEADLOCK FALSE`).

*Fairness.* `SqliteStore!FairSpec`: the steps of a call already begun. A
synchronous call cannot be held up within its process, and `busy_timeout` ends a
wait for the lock; nothing is assumed of clients. `MemoryStream!FairSpec`: queued
microtasks run. `QuadStore!FairSpec`: an awaited promise settles and its task is
resumed, for each task; the embedding service answers or fails.
`OpenStore!FairSpec`: an opening goes on with its next statement, and a wait for
the lock ends when the timeout does.

*Where the code departs from what it says.* Each is a run that TLC refutes:

| Run | Property | What happens |
|---|---|---|
| `rows_delete` | `DeleteIsBuffered` | `add(q)`, `delete(q)`, `commit()` leaves a `q` that was already stored: `delete` only drops the buffered add (`sqlite-store.ts:240-245`) |
| `quads_rebuilt` | `RebuiltIsExact` | a quad deleted between the flush of its insertion and its projection gets a chunk nobody owns, which `reindexAll` does not remove |
| `open_busy` | `OpenWaits` | `createSqliteWorldsSdk` creates the schema before any `busy_timeout` is set, so of two processes that open a new file one may fail at once (`create-sqlite-sdk.ts:147`) |

Others are in the models, met in reading or excepted by a property, and have no
run of their own:

- `getQuads` reads its pages with no read transaction around them, so a call that
  spans a commit returns a part of both tables;
  `docs/durable-transactions.md:98-99` says readers see the snapshot.
- In `MemoryStream`, `_flowing` stays set when the last data listener leaves, so
  a new one starts nothing and the rest of the quads never comes
  (`memory-stream.ts:61`); `DataDrains` excepts it (`stopped`).
- A `batch` on the handle while a `transaction()`'s function awaits fails at its
  `BEGIN` and its catch rolls the transaction back; the function's later
  statements are committed one by one (`sqlite-connection-driver.ts:101`).
  `CallsKeepTheirWord` excepts it (`alone`).
- `docs/durable-transactions.md:93-94` states the netting of add and delete the
  other way round.
- The payload drops a literal's base direction (`sqlite-store.ts:126`), so
  `removeMatches` may delete by another quad's key (`ReadBack`).
- `termKey` joins the parts of a triple term unescaped (`term-key.ts:31`). The code
  takes literals and triple terms as subjects there (`sqlite-store.ts:157-159`), and
  then two triple terms can share a key: subject literal `a` with object literal
  `b|||X|uri:P|literal:c`, and subject literal `a|||X|uri:P|literal:b` with object
  literal `c`, both of datatype `X` and predicate `P`. An IRI that holds a `|` does
  the same. `TripleOver` leaves both out; for RDF's own triple terms
  `KeysTellTermsApart` shows that it cannot happen.
- A joined key is split at every NUL, also one inside a literal
  (`sqlite-store.ts:487`); the texts of the model have none (`Text`).
- Two overlapping commits of one quad may both take it for novel
  (`commit-patch-to-sqlite.ts:132`); `apart` excepts it.
- A patch that deletes and inserts one quad, cut by an early flush, loses the quad
  when the process dies between the batches.
- With a limit over 61 (`FusionK + 1`) a row that both branches rank near the end
  of their windows scores less than the first row of one branch, and may be cut;
  the default limit is 100 (`sqlite-search-index.ts:98`). `SteadyIsFound` excepts
  it (`RankedHigh`).
- A filter looks only at the best `limit` rows of each branch
  (`keyword-fts-plan.ts:122`); `SteadyIsFound` excepts it (`roomy`).
- The query's cleaning drops a hyphen or an apostrophe inside a word
  (`fts-sanitize.ts:76`), where FTS5's tokenizer cuts the word in two: the one is
  then not found by the other. The model's texts are sets of words.

## 4. Theorems

Proved by TLAPS for all constants that satisfy the named assumptions:

- `SqliteStoreProofs` (from `KeyAssumption`, `HostAssumption`,
  `ReadBackAssumption`, `PatternAssumption`, `PageSizeAssumption`,
  `NoneAssumption`): `TypeCorrect`, `WritersAreExcluded`,
  `WorkStaysPartialPatch`, `StoreImplements`, `PagingLosesNothing`,
  `CountingIsExact`, `BuffersStaySettled`, `AnchorStaysLast`.
  `WritersExcluded` says the lock holder is the one in a transaction, which is
  what makes the table stand still under it; `BuffersSettled` says that the
  transaction a process commits is its own and no other process may change its
  buffer meanwhile, and that no quad has two verdicts. Only with both is
  `WorkIsPartialPatch` inductive: `work` is the table at `BEGIN` with the walked
  part of the patch applied. Their conjunction with `TypeOK` is `CommitInv`. At
  `COMMIT` nothing is left to walk, so the new table is the whole patch applied:
  that is the step of `PatchStore`, and every other step of a commit is a stutter.
  The reads have an invariant of their own, `ReadInv`: a read in progress has
  missed nothing at or before its anchor that was there throughout, and its
  anchor is its greatest key, so a page and what was read before are disjoint.
- `KeysetPageTheorems`: `PageSkipsNothing` and `ShortPageIsLast`, the two facts
  about pages that the above rests on.
- `ConnectionDriverProofs`, for any tasks and calls: `DriverTypeCorrect`,
  `NothingStaysOpen`, `BatchesStayAtomic`, `SettledCallsAreTrue`. What a settled
  call says is kept is not inductive by itself: a call that is rejected must have
  had no row in view before. The invariant says of each task that before its call
  none of its rows are seen, and that while a lone transaction is in its function
  it has the handle (or the handle was closed), none of its rows is committed and
  all it wrote so far is pending. A step of another task never takes a committed
  row away and never adds a row of this one (`OthersStep`), so the word of a
  settled call stays kept; the step that settles a call is the case analysis of
  `OwnStepWord`.

- `OpenStoreProofs` (from `NoneAssumption`, `LayerAssumption`), for any number of
  processes of either layer: `OpenTypeCorrect`, `OpenStaysComplete`,
  `FtsStaysExact`, `StoreOpensPatiently`. That an open process finds all it needs
  is not inductive: the invariant `OpenInv` adds `NothingForgotten` (each object
  an opening process will need exists or is among the statements it has left),
  `TimeoutFirst` (an L1 store past its first statement has its timeout set) and
  `LockIsUsed` (an opening process with the lock has a statement that writes).
  Objects are never dropped, so what an opening has passed over stays; a chunk is
  written by an open L2 process only, for which the triggers then exist.

- `QuadStoreProofs` (from `QuadAssumption`, `PartsAssumption`, `ScopeAssumption`,
  `PatchAssumption`, `SizeAssumption`, `OptionAssumption`): `QuadTypeCorrect`.
  Typing rests on there being a rowid to give a new chunk, hence the invariant
  `TypeInv` adds that only finitely many are in use. The module also proves what
  the slices of a patch are: they cover it, each quad falls into one
  (`SliceFacts`), and within a slice the statements come in their order
  (`PerSliceSweeps`).
  Its second part proves, from the same, `NoOrphansEver`. What a batch leaves behind
  depends on where the executor cut the statements, so the invariant `OrphanInv`
  is about what is *still staged*: a quad's deletion is preceded by that of its
  chunks unless it has none (`ChunksFirst`), this by that of its vectors unless
  they are gone (`VectorsFirst`), and a quad is inserted after its deletion
  (`InsertsLast`). A first part of a list in order can be landed (`LandSound`) and
  its rest is in order for the new tables (`RestInOrder`). Beside this, `InOrder`
  says what each place in a call has in hand: a projection's quads are stored, its
  pending vectors are of chunks of these quads. Finally `Apart` keeps the concerns
  of the calls disjoint, so that a step of one leaves the others' tables aside
  (`LandAside`, `AsideKeeps`). The invariant holds as long as `apart` does, which
  is where `NoOrphans` speaks.
- `SearchIndexProofs`, first from the same and on top of `OrphanInv`:
  `IndexStaysExact`, `FailureAlwaysUndone` and `CommitsAreAtomic`.
  That the index is exact *at rest* says nothing of the calls under way, so the
  invariant `IndexInv` says that each stored quad in scope is indexed or *owed* by
  some task (`Owes`): the task has it in its batch, has staged its deletion, or
  runs a rebuild that has not come to it. `InHand` is what makes a task pay: a
  staged deletion of chunks or vectors is followed by that of the quad
  (`DeletesThrough`); the quads of a batch have no chunks when the embedding is
  asked for, or the statement that deletes them is staged; from then on each part
  of theirs has its chunk and vector or is still to come (`Pending`). Since the executor may cut a
  list of statements anywhere, each step is shown for any first part of it. A step
  of another call, about other quads, leaves all this aside (`OthersInHand`); a
  call that fails either spoils the promise, and `index.is` says so, or still owes.
  `Lone` covers the rebuild that restores the promise: no other call runs then.
  For what a commit does to the quads, `UndoInv` relates its lookups to what was
  there when it was called (`start`): at the flush, the batch is just what the
  commit adds (`Fresh`), and what it spares (`Spared`) is still stored. So the last
  batch leaves exactly the insertions of the patch (`LastBatchLands`: each of the
  batch is inserted by a statement still staged, or has been and is not deleted
  any more); and a clean-up deletes the batch, by `OrphanInv` leaving nothing of it.
  `CommitsAreAtomic`, the refinement of `IndexedStore`, needs besides what the
  tables have of a patch at each place of its commit, `AtomicInv`: a replace import
  has wiped all but quads of its patch, before a part has landed nothing of the
  patch is there, and while a deferred import rebuilds, all of it is and no lone
  rebuild is credited to it. Then each step of a task is one of five (`StepMoves`).
  One that goes on, wipes or lands a part changes only quads that its commit may
  touch (`FlushEarlyQuads`, `NamedIsTouched`), so what is settled stays
  (`GoingOnIsHidden`). One that ends a call settles just these quads as the tables
  have them (`EndSettles`): the whole patch if it resolved (`FlushLandsPatch`,
  `WholePatch`), else what `CleanedUp`, `NothingLanded` or `OnlyInsertions` say.
  Then (from `RequestAssumption` and the above), for any
  requests, texts, limits and writers: `SearchTypeCorrect`, `FindsWhatWasStored`,
  `FusionJoinsRightly`, `TwinsAreRefreshed`, `SteadyStaysFound`. The rows of the first statement are
  kept over an `await` while writers delete and insert chunks. `SearchInv` says
  that a rowid among them is of no other chunk since (`RowsStayKnown`), as SQLite
  never uses an AUTOINCREMENT rowid again, so the second statement meets it as the same
  chunk; that `seen` holds all that is stored now and was stored since the call,
  so rows of chunks are of seen quads by `OrphanInv`; and that the chunks that
  stood still are of different parts, by `IndexInv`.
  For `SteadyStaysFound` it adds that the statements find what stands still
  (`KeywordFound`, `VectorFound`), each with ranks of its own for its rows. Two ranks
  of at most `FusionK + 1` add up to at least the best share of one branch
  (`BothBeatOne`), so only rows of both branches come before such a row, fewer than
  the limit (`FewRows`, `ListedIfFirst`).
- `MemoryStreamProofs` (from the assumptions on its two bounds), for any number of
  quads and of calls: `StreamTypeCorrect`, `EndNeverLoses`, `NothingAfterEnd`.
  `StreamInv` says that what is left and what was given are of one array
  (`Shared`), that without a consumer so far nothing was given (`TakenByConsumer`),
  that a drain is queued or runs only while the stream flows (`DrainsInFlow`), and
  that after the end event no drain can emit (`EndIsOver`).
- `QuadRowsProofs` (from `MarkAssumption`, `QuadsAssumption`, `TripleAssumption`),
  for any finite set of quads and any number of calls: `KeysTellTermsApart`,
  `RowsStayExact`, `MatchStaysExact`. A literal's key is its text and three tags
  behind bars; the tags hold none, so the last bar of a key tells where the
  last tag begins whatever the text imitates (`LastBar`). A triple term's key is
  two keys without a bar and a third behind bars, so its first bars tell where the
  third begins (`FirstBar`, `TripleKeysCut`). The tag in front tells the kinds
  apart. Of two triple terms with one key the objects have one key too, and a
  shorter one: were there such pairs, a shortest would contradict this
  (`SmallestTriple`, from the library's theorems on well-founded sets), and the
  same argument gives `KeyShape` and `RecordReadBack` for triple terms of any depth.
  Splitting a joined key gives the four keys back (`SplitUndoesJoin`), a record its
  term (`RecordReadBack`). The invariant `RowsInv` says that the table has the rows
  of `held` (`RowsOf`) and that the buffer says of each quad what the calls on the
  transaction say of it (`BufferSaysTheCalls`); `OneMoreCall` is how a call changes
  the latter. All three theorems are about the terms of `QuadsAssumption`: those
  `Text` and `TripleOver` leave out, since the code is wrong about them, are listed
  in section 3. TLC evaluates the assumptions in the run `rows`, with one triple
  term inside another.

Only model-checked: liveness (`CallReturns`, `DataDrains`, `EndIsTold`,
`CallsEnd`, `OpeningEnds`), which the prover does not reach; and that the recursive
definitions of `TripleTerm` satisfy `TripleAssumption`. Every other property of a
passing run is a theorem.

## 5. Not modelled

- **Several searches at once**: a search writes nothing another could see.
- **SQLite's own ranking and tokenizing**: any order of what matches; a text is
  its set of words.
- **The width of the vectors, and sqlite-vec coming and going between processes
  that write**: `CREATE IF NOT EXISTS` keeps a `chunks_vec` of another width, and a
  process without sqlite-vec leaves the vectors of chunks it deletes. Within one
  run of `QuadStore` all writers have it or none has.
- **A filter or page size given to one `reindex` call**: `Scope` and `PageSize`
  stand for both, the same for all calls of a run.
- **A patch that lists one quad twice**: patches are sets of quads.
- **A row whose payload cannot be read**: the rebuild skips it with a warning
  (`rebuild-sqlite-search-index-from-quads.ts:73-84`). The rows of `QuadStore` are
  those the code wrote, which can be read; in `SqliteStore` such a row is one of
  the reasons of `ReadFails`.
- **Import and export parsing**, the text splitter and the embedding service:
  outside the repository. The last two only fail or answer.
- **A listener that throws** inside the stream's microtask: the runtime ends the
  process there.
- Handles, lazy loading, benchmarks, examples and the portability suite: no state
  of their own.

## 6. Plan

Done: the L1 store with its abstract specification and theorems, keys and rows,
the stream and the driver with their theorems, the L2 commit with its batches,
projection and rebuild and the theorems that it leaves no orphans, keeps the index
exact, undoes what failed and implements an abstract store, hybrid search beside
it with its theorems, and opening a file with its theorems. To do: two processes
with and without sqlite-vec writing one file.
