---------------------------- MODULE SqliteStore ----------------------------
(***************************************************************************)
(* The L1 store of rdfjs-store/sqlite-store.ts: several processes, each    *)
(* with one SqliteStore on the same database file.  A JavaScript process   *)
(* runs one call at a time to its end, but other processes run between any *)
(* two SQL statements of it, and it may die between any two.               *)
(*                                                                         *)
(* SQLite itself (WAL mode) is modelled from how the code uses it: readers *)
(* see the last committed table, one connection at a time may write, what  *)
(* a connection wrote shows to others only at COMMIT, and a dead           *)
(* connection's uncommitted writes are gone.                               *)
(***************************************************************************)
EXTENDS TransactionBuffer, KeysetPage

CONSTANTS
    Proc,       \* the processes
    Tx,         \* the transactions their clients hold
    Host,       \* Host[t]: the process that created transaction t
    ReadBack,   \* ReadBack[k]: the key of the quad rebuilt from row k's payload
    Pattern,    \* Pattern[p]: the patterns p's clients match, as sets of keys
    PageSize,   \* matchPageSize
    NoProc,     \* nobody holds the write lock
    NoTx        \* no transaction is being committed

\* The primary key of the quads table orders the keys, so they are positive
\* numbers; 0 is free to mean "no key yet".
ASSUME KeyAssumption == Key \subseteq Nat \ {0} /\ IsFiniteSet(Key)
ASSUME HostAssumption == Host \in [Tx -> Proc]
ASSUME ReadBackAssumption == ReadBack \in [Key -> Key]
ASSUME PatternAssumption == Pattern \in [Proc -> SUBSET SUBSET Key]
ASSUME PageSizeAssumption == PageSize \in Nat \ {0}
ASSUME NoneAssumption == NoProc \notin Proc /\ NoTx \notin Tx

VARIABLES
    table,  \* the committed rows of quads
    lock,   \* the process holding SQLite's write lock
    work,   \* the table as the lock holder sees it, while it holds the lock
    buf,    \* buf[t]: what SqliteTransactionImpl t has buffered
    pc,     \* pc[p]: where process p's current call stands
    cur,    \* cur[p]: the transaction p is committing
    todo,   \* todo[p]: the keys p's loop has yet to walk
    read    \* read[p]: p's getQuads call

vars == <<table, lock, work, buf, pc, cur, todo, read>>

\* Between calls, stopped, in commit (from its wait for the lock on), in
\* getQuads, and in the loop of removeMatches.
Place == {"idle", "down", "begin", "hook", "removing", "inserting",
          "reading", "sweeping", "returning"}

InTransaction == {"hook", "removing", "inserting"}

\* pat: the pattern; sweep: called by removeMatches; anchor: the last key
\* read; got: the keys read; rows: the length of the array of quads.
\* snaps remembers every committed table during the call; no step reads it.
Read == [pat : SUBSET Key, sweep : BOOLEAN, anchor : Nat, got : SUBSET Key,
         rows : Nat, snaps : SUBSET SUBSET Key]

NewRead(pat, sweep, snaps) ==
    [pat |-> pat, sweep |-> sweep, anchor |-> 0, got |-> {}, rows |-> 0,
     snaps |-> snaps]

NoRead == NewRead({}, FALSE, {})

Init ==
    /\ table = {}
    /\ lock = NoProc
    /\ work = {}
    /\ buf = [t \in Tx |-> EmptyBuffer]
    /\ pc = [p \in Proc |-> "idle"]
    /\ cur = [p \in Proc |-> NoTx]
    /\ todo = [p \in Proc |-> {}]
    /\ read = [p \in Proc |-> NoRead]

Go(p, from, to) == pc[p] = from /\ pc' = [pc EXCEPT ![p] = to]

\* The committed table becomes `new`, under the eyes of the calls now reading.
CommitTable(new) ==
    /\ table' = new
    /\ read' = [q \in Proc |->
                   IF pc[q] = "reading"
                   THEN [read[q] EXCEPT !.snaps = @ \cup {new}] ELSE read[q]]

-----------------------------------------------------------------------------
\* The client's transaction calls touch only the buffer.

Add(t, k) ==
    /\ pc[Host[t]] = "idle"
    /\ buf' = [buf EXCEPT ![t] = BufferAdd(buf[t], k)]
    /\ UNCHANGED <<table, lock, work, pc, cur, todo, read>>

Delete(t, k) ==
    /\ pc[Host[t]] = "idle"
    /\ buf' = [buf EXCEPT ![t] = BufferDelete(buf[t], k)]
    /\ UNCHANGED <<table, lock, work, pc, cur, todo, read>>

\* rollback(), or createTransaction() giving the client a fresh one.
Rollback(t) ==
    /\ pc[Host[t]] = "idle"
    /\ buf' = [buf EXCEPT ![t] = EmptyBuffer]
    /\ UNCHANGED <<table, lock, work, pc, cur, todo, read>>

-----------------------------------------------------------------------------
\* commit()

CallCommit(t) ==
    /\ Go(Host[t], "idle", "begin")
    /\ cur' = [cur EXCEPT ![Host[t]] = t]
    /\ UNCHANGED <<table, lock, work, buf, todo, read>>

\* A mutant: BEGIN DEFERRED.
BeginDeferred(p) ==
    /\ Go(p, "begin", "hook")
    /\ lock' = p
    /\ work' = table
    /\ UNCHANGED <<table, buf, cur, todo, read>>

\* BEGIN IMMEDIATE takes the write lock before anything is written.
Begin(p) ==
    /\ Go(p, "begin", "hook")
    /\ lock = NoProc
    /\ lock' = p
    /\ work' = table
    /\ UNCHANGED <<table, buf, cur, todo, read>>

\* A mutant: the process waits without a busy_timeout.
BeginBusyWaits(p) ==
    /\ Go(p, "begin", "waiting")
    /\ lock # NoProc
    /\ UNCHANGED <<table, lock, work, buf, cur, todo, read>>

\* BEGIN IMMEDIATE waited busy_timeout in vain: it throws, outside the try, and
\* the buffered patch is kept.
BeginBusy(p) ==
    /\ Go(p, "begin", "idle")
    /\ lock # NoProc
    /\ cur' = [cur EXCEPT ![p] = NoTx]
    /\ UNCHANGED <<table, lock, work, buf, todo, read>>

\* The beforeCommit hook returns; the loop over the deletes begins.
HookReturns(p) ==
    /\ Go(p, "hook", "removing")
    /\ todo' = [todo EXCEPT ![p] = buf[cur[p]].del]
    /\ UNCHANGED <<table, lock, work, buf, cur, read>>

RemoveNext(p) ==
    /\ pc[p] = "removing"
    /\ \E k \in todo[p] :
          /\ work' = work \ {k}
          /\ todo' = [todo EXCEPT ![p] = todo[p] \ {k}]
    /\ UNCHANGED <<table, lock, buf, pc, cur, read>>

\* A mutant: the loop over the deletes is left early.
RemovesDoneEarly(p) ==
    /\ Go(p, "removing", "inserting")
    /\ todo' = [todo EXCEPT ![p] = buf[cur[p]].ins]
    /\ UNCHANGED <<table, lock, work, buf, cur, read>>

RemovesDone(p) ==
    /\ Go(p, "removing", "inserting")
    /\ todo[p] = {}
    /\ todo' = [todo EXCEPT ![p] = buf[cur[p]].ins]
    /\ UNCHANGED <<table, lock, work, buf, cur, read>>

InsertNext(p) ==
    /\ pc[p] = "inserting"
    /\ \E k \in todo[p] :
          /\ work' = work \cup {k}
          /\ todo' = [todo EXCEPT ![p] = todo[p] \ {k}]
    /\ UNCHANGED <<table, lock, buf, pc, cur, read>>

\* COMMIT.  The buffer is not cleared.
Commit(p) ==
    /\ Go(p, "inserting", "idle")
    /\ todo[p] = {}
    /\ CommitTable(work)
    /\ lock' = NoProc
    /\ work' = {}
    /\ cur' = [cur EXCEPT ![p] = NoTx]
    /\ UNCHANGED <<buf, todo>>

\* A mutant: COMMIT in a finally, also when a statement threw.
FailCommits(p) ==
    /\ pc[p] \in InTransaction
    /\ CommitTable(work)
    /\ pc' = [pc EXCEPT ![p] = "idle"]
    /\ lock' = NoProc
    /\ work' = {}
    /\ cur' = [cur EXCEPT ![p] = NoTx]
    /\ todo' = [todo EXCEPT ![p] = {}]
    /\ UNCHANGED buf

\* The hook or a statement throws: ROLLBACK, and the promise is rejected.
Fail(p) ==
    /\ pc[p] \in InTransaction
    /\ pc' = [pc EXCEPT ![p] = "idle"]
    /\ lock' = NoProc
    /\ work' = {}
    /\ cur' = [cur EXCEPT ![p] = NoTx]
    /\ todo' = [todo EXCEPT ![p] = {}]
    /\ UNCHANGED <<table, buf, read>>

-----------------------------------------------------------------------------
\* addQuad and removeQuad (and import and remove, which call them from a data
\* listener): one autocommitted statement.  When the lock stays taken it throws
\* and nothing changes.

AddQuad(p, k) ==
    /\ pc[p] = "idle" /\ lock = NoProc
    /\ CommitTable(table \cup {k})
    /\ UNCHANGED <<lock, work, buf, pc, cur, todo>>

RemoveQuad(p, k) ==
    /\ pc[p] = "idle" /\ lock = NoProc
    /\ CommitTable(table \ {k})
    /\ UNCHANGED <<lock, work, buf, pc, cur, todo>>

-----------------------------------------------------------------------------
\* getQuads (also through match, countQuads, removeMatches and deleteGraph)

CallGetQuads(p, pat, sweep) ==
    /\ Go(p, "idle", "reading")
    /\ read' = [read EXCEPT ![p] = NewRead(pat, sweep, {table})]
    /\ UNCHANGED <<table, lock, work, buf, cur, todo>>

\* A mutant: a page sees what a commit has not committed yet.
ReadPageDirty(p) ==
    LET r == read[p]
        rows == IF lock = NoProc THEN table ELSE work
        page == PageAfter(rows \cap r.pat, r.anchor, PageSize)
    IN  /\ pc[p] = "reading"
        /\ read' = [read EXCEPT ![p] =
                      [r EXCEPT !.got = r.got \cup page,
                                !.rows = r.rows + Cardinality(page),
                                !.anchor = AnchorAfter(page, r.anchor)]]
        /\ pc' = [pc EXCEPT ![p] = IF Cardinality(page) = PageSize
                                   THEN "reading" ELSE "returning"]
        /\ UNCHANGED <<table, lock, work, buf, cur, todo>>

\* One SELECT: the next page of the committed table after the anchor.
ReadPage(p) ==
    LET r == read[p]
        page == PageAfter(table \cap r.pat, r.anchor, PageSize)
        last == Cardinality(page) < PageSize
    IN  /\ pc[p] = "reading"
        /\ read' = [read EXCEPT ![p] =
                      [r EXCEPT !.got = r.got \cup page,
                                !.rows = r.rows + Cardinality(page),
                                !.anchor = AnchorAfter(page, r.anchor)]]
        /\ pc' = [pc EXCEPT ![p] = IF ~last THEN "reading"
                                   ELSE IF r.sweep THEN "sweeping"
                                   ELSE "returning"]
        /\ todo' = [todo EXCEPT ![p] =
                      IF last /\ r.sweep
                      THEN {ReadBack[k] : k \in r.got \cup page} ELSE {}]
        /\ UNCHANGED <<table, lock, work, buf, cur>>

\* The SELECT or the parsing of a payload throws out of the call.
ReadFails(p) ==
    /\ Go(p, "reading", "idle")
    /\ read' = [read EXCEPT ![p] = NoRead]
    /\ UNCHANGED <<table, lock, work, buf, cur, todo>>

\* The call returns its quads; the caller may go on.
Return(p) ==
    /\ Go(p, "returning", "idle")
    /\ read' = [read EXCEPT ![p] = NoRead]
    /\ UNCHANGED <<table, lock, work, buf, cur, todo>>

\* removeMatches: one autocommitted delete per quad read, by the quad's own key.
SweepNext(p) ==
    /\ pc[p] = "sweeping" /\ lock = NoProc
    /\ \E k \in todo[p] :
          /\ CommitTable(table \ {k})
          /\ todo' = [todo EXCEPT ![p] = todo[p] \ {k}]
    /\ UNCHANGED <<lock, work, buf, pc, cur>>

\* A mutant: the sweep waits without a busy_timeout.
SweepBusyWaits(p) ==
    /\ Go(p, "sweeping", "waiting")
    /\ todo[p] # {} /\ lock # NoProc
    /\ UNCHANGED <<table, lock, work, buf, cur, todo, read>>

\* A delete of the sweep finds the lock taken and throws out of the loop.
SweepBusy(p) ==
    /\ Go(p, "sweeping", "idle")
    /\ todo[p] # {} /\ lock # NoProc
    /\ todo' = [todo EXCEPT ![p] = {}]
    /\ read' = [read EXCEPT ![p] = NoRead]
    /\ UNCHANGED <<table, lock, work, buf, cur>>

SweepDone(p) ==
    /\ Go(p, "sweeping", "returning")
    /\ todo[p] = {}
    /\ UNCHANGED <<table, lock, work, buf, cur, todo, read>>

-----------------------------------------------------------------------------
\* close(), or the death of the process anywhere in a call: its transactions
\* are lost, and so is what it wrote and did not commit.
Stop(p) ==
    /\ pc[p] # "down"
    /\ pc' = [pc EXCEPT ![p] = "down"]
    /\ lock' = IF lock = p THEN NoProc ELSE lock
    /\ work' = IF lock = p THEN {} ELSE work
    /\ buf' = [t \in Tx |-> IF Host[t] = p THEN EmptyBuffer ELSE buf[t]]
    /\ cur' = [cur EXCEPT ![p] = NoTx]
    /\ todo' = [todo EXCEPT ![p] = {}]
    /\ read' = [read EXCEPT ![p] = NoRead]
    /\ UNCHANGED table

\* A new process opens the file: the constructor creates only what is missing.
Open(p) ==
    /\ Go(p, "down", "idle")
    /\ UNCHANGED <<table, lock, work, buf, cur, todo, read>>

-----------------------------------------------------------------------------
\* What a process does by itself once a call is under way.
Step(p) ==
    \/ Begin(p) \/ BeginBusy(p) \/ HookReturns(p)
    \/ RemoveNext(p) \/ RemovesDone(p) \/ InsertNext(p) \/ Commit(p) \/ Fail(p)
    \/ ReadPage(p) \/ ReadFails(p) \/ Return(p)
    \/ SweepNext(p) \/ SweepBusy(p) \/ SweepDone(p)

\* What a client asks for.
Ask(p) ==
    \/ \E k \in Key : AddQuad(p, k) \/ RemoveQuad(p, k)
    \/ \E pat \in Pattern[p], sweep \in BOOLEAN : CallGetQuads(p, pat, sweep)

AskTx(t) ==
    \/ \E k \in Key : Add(t, k) \/ Delete(t, k)
    \/ Rollback(t) \/ CallCommit(t)

Next ==
    \/ \E t \in Tx : AskTx(t)
    \/ \E p \in Proc : Ask(p) \/ Step(p) \/ Stop(p) \/ Open(p)

Spec == Init /\ [][Next]_vars

\* A synchronous call goes on by itself: nothing in the process can hold it up,
\* and busy_timeout bounds its wait for the lock.
FairSpec == Spec /\ \A p \in Proc : WF_vars(Step(p))
-----------------------------------------------------------------------------
TypeOK ==
    /\ table \subseteq Key
    /\ lock \in Proc \cup {NoProc}
    /\ work \subseteq Key
    /\ buf \in [Tx -> Buffer]
    /\ pc \in [Proc -> Place]
    /\ cur \in [Proc -> Tx \cup {NoTx}]
    /\ todo \in [Proc -> SUBSET Key]
    /\ read \in [Proc -> Read]

\* Exclusion of writers across processes: the processes between BEGIN IMMEDIATE
\* and the end of their transaction are the one that holds the lock, whatever
\* threw, timed out or died, and a free lock leaves no uncommitted write.
WritersExcluded ==
    /\ \A p \in Proc : lock = p <=> pc[p] \in InTransaction
    /\ lock = NoProc => work = {}

\* Each transaction of a process still in it, and no quad both to be deleted
\* and inserted in any buffer.
BuffersSettled ==
    /\ \A t \in Tx : buf[t].ins \cap buf[t].del = {}
    /\ \A p \in Proc : pc[p] \in InTransaction \cup {"begin"} =>
          cur[p] \in Tx /\ Host[cur[p]] = p

\* What commit()'s loops have written at any point is the table of BEGIN with
\* exactly the walked part of the patch applied: no other process, no failed
\* commit and no earlier crash shows in it.
WorkIsPartial(p) ==
    LET b == buf[cur[p]] IN
    /\ pc[p] = "hook" => work = table
    /\ pc[p] = "removing" => work = table \ (b.del \ todo[p])
                             /\ todo[p] \subseteq b.del
    /\ pc[p] = "inserting" => work = (table \ b.del) \cup (b.ins \ todo[p])
                              /\ todo[p] \subseteq b.ins

WorkIsPartialPatch == \A p \in Proc : WorkIsPartial(p)

Reading == {"reading", "sweeping", "returning"}

\* Paging while other processes commit between the pages: getQuads misses no
\* matching row that was in the table from its first page to its last, and
\* returns none that was not committed at some moment in between (no dirty
\* read, though the pages need not be of one table).
LosesNothing(p) ==
    LET r == read[p]
        always == {k \in r.pat : \A s \in r.snaps : k \in s}
        ever == {k \in r.pat : \E s \in r.snaps : k \in s}
    IN  /\ r.got \subseteq ever
        /\ {k \in always : pc[p] = "reading" => k <= r.anchor} \subseteq r.got

PagesLoseNothing == \A p \in Proc : pc[p] \in Reading => LosesNothing(p)

\* countQuads, the length of the array, counts each quad once, even when rows
\* come and go on both sides of the anchor between two pages.
CountsOnce == \A p \in Proc : read[p].rows = Cardinality(read[p].got)

\* The anchor is the last key read, and no page lies before it.
AnchorIsLast ==
    \A p \in Proc : LET r == read[p] IN
        r.got # {} => r.anchor \in r.got /\ \A k \in r.got : k <= r.anchor


\* Every call returns or throws, or its process stops: a wait for the lock
\* ends, and paging ends although others keep adding rows behind the anchor.
CallReturns ==
    \A p \in Proc : pc[p] \notin {"idle", "down"} ~> pc[p] \in {"idle", "down"}

-----------------------------------------------------------------------------
\* A transaction's buffer as one verdict per quad.
PatchOf(b) == [k \in Key |-> IF k \in b.ins THEN "add"
                             ELSE IF k \in b.del THEN "delete" ELSE "keep"]

Abstract == INSTANCE PatchStore
    WITH data <- table, patch <- [t \in Tx |-> PatchOf(buf[t])]

\* Through locks, failures, crashes and other processes, the store changes only
\* by whole patches and single rows: every commit lands in one step, entirely,
\* or not at all, and no uncommitted write is seen in the table.
Implements == Abstract!Spec
=============================================================================
