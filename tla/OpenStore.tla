----------------------------- MODULE OpenStore -----------------------------
(***************************************************************************)
(* Processes that open one database file, new or not: the constructor of   *)
(* SqliteStore (layer "L1"), or createSqliteWorldsSdk, which creates the   *)
(* schema and then runs that constructor on its handle (layer "L2").       *)
(* Opened processes write chunks meanwhile; SQLite's triggers, if they are *)
(* there, keep the full-text index beside them.                            *)
(***************************************************************************)
EXTENDS Naturals, Sequences

CONSTANTS
    Opener,  \* the processes
    Layer,   \* Layer[p]: what p opens
    Chunk,   \* the chunks that may be written
    None     \* no process

ASSUME NoneAssumption == None \notin Opener
ASSUME LayerAssumption == Layer \in [Opener -> {"L1", "L2"}]

VARIABLES
    schema,   \* the tables, indexes and triggers of the file
    wal,      \* its journal is a write-ahead log
    lock,     \* the process that holds the write lock, or None
    pc,       \* pc[p]: "closed", "opening", "open", or "failed" to open
    todo,     \* todo[p]: the statements p has yet to run to be open
    patient,  \* patient[p]: busy_timeout is set on the handle of p
    vectors,  \* vectors[p]: sqlite-vec loaded in p
    chunks,   \* the rows of chunks
    fts       \* the rows chunks_fts has entries for

file == <<schema, wal, chunks, fts>>
vars == <<file, lock, pc, todo, patient, vectors>>

-----------------------------------------------------------------------------
\* The statements: a PRAGMA by its name, CREATE IF NOT EXISTS by its object.

\* A mutant: the switch to WAL comes before the timeout.
StoreOpeningWalFirst ==
    <<"wal", "busy_timeout", "quads", "idx_quads_pkey", "idx_quads_okey", "idx_quads_gkey">>

\* The SqliteStore constructor.
StoreOpening ==
    <<"busy_timeout", "wal", "quads", "idx_quads_pkey", "idx_quads_okey", "idx_quads_gkey">>

\* buildTables
Tables(vec) == <<"quads", "chunks">> \o IF vec THEN <<"chunks_vec">> ELSE <<>>

\* A mutant: the index on quad_id is forgotten.
IndexesOfQuads == <<"idx_quads_pkey", "idx_quads_okey", "idx_quads_gkey">>

\* buildIndexes
Indexes ==
    <<"idx_quads_pkey", "idx_quads_okey", "idx_quads_gkey", "idx_chunks_quad_id">>

\* A mutant: the trigger for deletions is forgotten.
FullTextInserts == <<"chunks_fts", "chunks_ai">>

\* buildSqliteChunksFtsTable, buildSqliteChunksTriggers
FullText == <<"chunks_fts", "chunks_ai", "chunks_ad">>

\* initializeSqliteSchema
InitializeSchema(vec) == Tables(vec) \o Indexes \o FullText

Pragma == {"busy_timeout", "wal"}

\* What the queries of an open process name.
Needs(p) ==
    {"quads", "idx_quads_pkey", "idx_quads_okey", "idx_quads_gkey"}
    \cup IF Layer[p] = "L1" THEN {}
         ELSE {"chunks", "idx_chunks_quad_id", "chunks_fts", "chunks_ai", "chunks_ad"}
              \cup IF vectors[p] THEN {"chunks_vec"} ELSE {}

Init ==
    /\ schema = {} /\ wal = FALSE /\ lock = None
    /\ pc = [p \in Opener |-> "closed"]
    /\ todo = [p \in Opener |-> <<>>]
    /\ patient = [p \in Opener |-> FALSE]
    /\ vectors = [p \in Opener |-> FALSE]
    /\ chunks = {} /\ fts = {}

-----------------------------------------------------------------------------
\* A new handle; sqlite-vec loads or does not.  One that failed tries again.
CallOpen(p) ==
    /\ pc[p] \in {"closed", "failed"}
    /\ pc' = [pc EXCEPT ![p] = "opening"]
    /\ patient' = [patient EXCEPT ![p] = FALSE]
    /\ \E vec \in IF Layer[p] = "L2" THEN BOOLEAN ELSE {FALSE} :
          /\ vectors' = [vectors EXCEPT ![p] = vec]
          /\ todo' = [todo EXCEPT ![p] =
                IF Layer[p] = "L2" THEN InitializeSchema(vec) \o StoreOpening
                ELSE StoreOpening]
    /\ UNCHANGED <<file, lock>>

\* The statement p runs next.
Statement(p) == Head(todo[p])

\* p has run it: the next is due, or p is open.
Advance(p) ==
    /\ todo' = [todo EXCEPT ![p] = Tail(@)]
    /\ pc' = [pc EXCEPT ![p] = IF Len(todo[p]) = 1 THEN "open" ELSE @]

\* The statement has to write the file.
Writes(p) ==
    \/ Statement(p) = "wal" /\ ~wal
    \/ Statement(p) \notin Pragma /\ Statement(p) \notin schema

SetTimeout(p) ==
    /\ pc[p] = "opening" /\ Statement(p) = "busy_timeout"
    /\ Advance(p)
    /\ patient' = [patient EXCEPT ![p] = TRUE]
    /\ UNCHANGED <<file, lock, vectors>>

\* The object is there already, or the file is in WAL mode already.
PassOver(p) ==
    /\ pc[p] = "opening" /\ Statement(p) # "busy_timeout" /\ ~Writes(p)
    /\ Advance(p)
    /\ UNCHANGED <<file, lock, patient, vectors>>

TakeLock(p) ==
    /\ pc[p] = "opening" /\ Writes(p) /\ lock = None
    /\ lock' = p
    /\ UNCHANGED <<file, pc, todo, patient, vectors>>

\* The statement lands.
Create(p) ==
    /\ pc[p] = "opening" /\ lock = p
    /\ IF Statement(p) = "wal"
       THEN wal' = TRUE /\ UNCHANGED schema
       ELSE schema' = schema \cup {Statement(p)} /\ UNCHANGED wal
    /\ lock' = None
    /\ Advance(p)
    /\ UNCHANGED <<chunks, fts, patient, vectors>>

\* Another process has the lock (and without WAL readers need it too).
Blocked(p) ==
    /\ pc[p] = "opening" /\ Statement(p) # "busy_timeout"
    /\ lock \notin {None, p}
    /\ Writes(p) \/ ~wal

\* A mutant: an opening that failed keeps the statements it had left.
FailsMidway(p) ==
    /\ pc' = [pc EXCEPT ![p] = "failed"]
    /\ UNCHANGED <<file, lock, todo, patient, vectors>>

Fails(p) ==
    /\ pc' = [pc EXCEPT ![p] = "failed"]
    /\ todo' = [todo EXCEPT ![p] = <<>>]
    /\ UNCHANGED <<file, lock, patient, vectors>>

\* A mutant: the timeout never expires.
BusyWaits(p) == Blocked(p) /\ ~patient[p] /\ Fails(p)

\* SQLITE_BUSY: at once, or with a timeout set after waiting for it.
Busy(p) == Blocked(p) /\ Fails(p)

-----------------------------------------------------------------------------
\* A batch of an open process: BEGIN IMMEDIATE ...
BeginBatch(p) ==
    /\ pc[p] = "open" /\ lock = None
    /\ lock' = p
    /\ UNCHANGED <<file, pc, todo, patient, vectors>>

\* ... a chunk inserted or deleted, with what the triggers there are do, COMMIT.
InsertChunk(p, c) ==
    /\ c \notin chunks
    /\ chunks' = chunks \cup {c}
    /\ fts' = IF {"chunks_fts", "chunks_ai"} \subseteq schema THEN fts \cup {c} ELSE fts

\* A mutant: the trigger for deletions takes no entry out.
DeleteChunkUntold(p, c) ==
    /\ c \in chunks
    /\ chunks' = chunks \ {c}
    /\ UNCHANGED fts

DeleteChunk(p, c) ==
    /\ c \in chunks
    /\ chunks' = chunks \ {c}
    /\ fts' = IF {"chunks_fts", "chunks_ad"} \subseteq schema THEN fts \ {c} ELSE fts

EndBatch(p) ==
    /\ pc[p] = "open" /\ lock = p
    /\ \/ /\ Layer[p] = "L2"
          /\ \E c \in Chunk : InsertChunk(p, c) \/ DeleteChunk(p, c)
       \/ UNCHANGED <<chunks, fts>>   \* quads alone, or ROLLBACK
    /\ lock' = None
    /\ UNCHANGED <<schema, wal, pc, todo, patient, vectors>>

\* close(), or the death of the process, which frees the lock.
Stop(p) ==
    /\ pc[p] \in {"opening", "open"}
    /\ pc' = [pc EXCEPT ![p] = "closed"]
    /\ todo' = [todo EXCEPT ![p] = <<>>]
    /\ lock' = IF lock = p THEN None ELSE lock
    /\ UNCHANGED <<file, patient, vectors>>

\* What an opening does of itself.
Step(p) == SetTimeout(p) \/ PassOver(p) \/ TakeLock(p) \/ Create(p) \/ Busy(p)

Next == \E p \in Opener :
    CallOpen(p) \/ Step(p) \/ BeginBatch(p) \/ EndBatch(p) \/ Stop(p)

Spec == Init /\ [][Next]_vars

\* Opening is synchronous but for the awaits between statements, and a wait for
\* the lock ends when the timeout does.
FairSpec == Spec /\ \A p \in Opener : WF_vars(Step(p))

-----------------------------------------------------------------------------
Object == {"quads", "idx_quads_pkey", "idx_quads_okey", "idx_quads_gkey", "chunks",
           "idx_chunks_quad_id", "chunks_fts", "chunks_ai", "chunks_ad", "chunks_vec"}

TypeOK ==
    /\ schema \subseteq Object /\ wal \in BOOLEAN
    /\ lock \in Opener \cup {None}
    /\ pc \in [Opener -> {"closed", "opening", "open", "failed"}]
    /\ todo \in [Opener -> Seq(Object \cup Pragma)]
    /\ \A p \in Opener : pc[p] = "opening" <=> todo[p] # <<>>
    /\ patient \in [Opener -> BOOLEAN] /\ vectors \in [Opener -> BOOLEAN]
    /\ chunks \subseteq Chunk /\ fts \subseteq Chunk

\* Whoever raced, failed, died half-way or opened the file in another layer or
\* without sqlite-vec before: a process that has opened finds every table, index
\* and trigger its later statements rely on.
OpenIsComplete == \A p \in Opener : pc[p] = "open" => Needs(p) \subseteq schema

\* The full-text index has an entry for each chunk and for no other, though
\* processes may already write chunks while others still create the schema: no
\* chunk is inserted, or deleted, before the triggers are there.
FtsFollowsChunks == fts = chunks

\* "busy_timeout goes first": an L1 store that gives up opening has waited for
\* the lock.
StoreOpenWaits ==
    \A p \in Opener : pc[p] = "failed" /\ Layer[p] = "L1" => patient[p]

\* The same of any process that opens the database.
OpenWaits == \A p \in Opener : pc[p] = "failed" => patient[p]

\* Each opening comes to an end, open or failed, though other processes may take
\* the lock again and again.
OpeningEnds == \A p \in Opener : pc[p] = "opening" ~> pc[p] # "opening"
=============================================================================
