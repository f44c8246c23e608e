-------------------------- MODULE ConnectionDriver --------------------------
(***************************************************************************)
(* sqlite-connection-driver.ts: one synchronous SQLite handle offered to   *)
(* several asynchronous tasks.  execute and batch run to their end without *)
(* letting another task in; transaction() awaits its function between      *)
(* BEGIN and COMMIT, and every other call then reaches the same handle.    *)
(*                                                                         *)
(* A call writes the rows of Rows(t); a batch and a transaction write two, *)
(* an execute one.  SQLite is modelled from how the driver uses it: BEGIN  *)
(* fails inside a transaction, COMMIT and ROLLBACK fail outside one.       *)
(***************************************************************************)
EXTENDS Naturals, FiniteSets

CONSTANTS
    Task,   \* the tasks, each of which makes one call
    Kind    \* Kind[t]: the calls t may make

ASSUME KindAssumption ==
    Kind \in [Task -> SUBSET {"execute", "batch", "transaction"}]

VARIABLES
    db,     \* the committed rows
    view,   \* the rows as the handle sees them
    handle, \* "auto", or "open" inside a transaction, or "closed"
    busy,   \* another process holds the write lock
    pc,     \* pc[t]: "idle", in a transaction's function, or how t's call ended
    call,   \* call[t]: the kind of call t made
    done,   \* done[t]: how many rows t's function has written
    alone   \* history: the transactions no other call has overlapped

vars == <<db, view, handle, busy, pc, call, done, alone>>

Row == Task \X {1, 2}

Rows(t) == {t} \X (IF call[t] = "execute" THEN {1} ELSE {1, 2})

Init ==
    /\ db = {} /\ view = {}
    /\ handle = "auto"
    /\ busy = FALSE
    /\ pc = [t \in Task |-> "idle"]
    /\ call = [t \in Task |-> "none"]
    /\ done = [t \in Task |-> 0]
    /\ alone = {}

\* A write statement can run, and what it does: it joins the open transaction,
\* or is committed by itself.
Writable == handle = "open" \/ (handle = "auto" /\ ~busy)

Write(rows) ==
    /\ view' = view \cup rows
    /\ db' = IF handle = "open" THEN db ELSE db \cup rows

Call(t, kind, to) ==
    /\ pc[t] = "idle" /\ kind \in Kind[t]
    /\ pc' = [pc EXCEPT ![t] = to]
    /\ call' = [call EXCEPT ![t] = kind]

\* ROLLBACK: outside a transaction it throws and changes nothing.
RollBack ==
    /\ view' = db
    /\ handle' = IF handle = "open" THEN "auto" ELSE handle
    /\ UNCHANGED db

-----------------------------------------------------------------------------
Execute(t) ==
    /\ Call(t, "execute", "resolved")
    /\ Writable
    /\ Write({<<t, 1>>})
    /\ alone' = {}
    /\ UNCHANGED <<handle, busy, done>>

\* The statement is at fault, or the lock is taken, or the handle is closed.
ExecuteFails(t) ==
    /\ Call(t, "execute", "rejected")
    /\ alone' = {}
    /\ UNCHANGED <<db, view, handle, busy, done>>

\* A mutant: a batch joins the transaction that is open.
BatchJoins(t) ==
    /\ Call(t, "batch", "resolved")
    /\ Writable
    /\ Write({t} \X {1, 2})
    /\ alone' = {}
    /\ UNCHANGED <<handle, busy, done>>

Batch(t) ==
    /\ Call(t, "batch", "resolved")
    /\ handle = "auto" /\ ~busy
    /\ Write({t} \X {1, 2})
    /\ alone' = {}
    /\ UNCHANGED <<handle, busy, done>>

\* A mutant: no ROLLBACK after a statement of the batch threw.
BatchFailsOpen(t) ==
    /\ Call(t, "batch", "rejected")
    /\ handle' = IF handle = "auto" /\ ~busy THEN "open" ELSE handle
    /\ alone' = {}
    /\ UNCHANGED <<db, view, busy, done>>

\* BEGIN or a statement throws, and the catch rolls back whatever is open.
BatchFails(t) ==
    /\ Call(t, "batch", "rejected")
    /\ RollBack
    /\ alone' = {}
    /\ UNCHANGED <<busy, done>>

\* transaction() up to the first await of its function.
Begin(t) ==
    /\ Call(t, "transaction", "fn")
    /\ handle = "auto" /\ ~busy
    /\ handle' = "open"
    /\ alone' = IF \E u \in Task : pc[u] = "fn" THEN {} ELSE {t}
    /\ UNCHANGED <<db, view, busy, done>>

\* BEGIN throws outside the try: nothing else is touched.
BeginFails(t) ==
    /\ Call(t, "transaction", "rejected")
    /\ handle # "auto" \/ busy
    /\ alone' = {}
    /\ UNCHANGED <<db, view, handle, busy, done>>

\* A mutant: the function goes on writing when it has written all.
TxExecuteOn(t) ==
    /\ pc[t] = "fn" /\ done[t] <= 2
    /\ Writable
    /\ Write({<<t, done[t] + 1>>})
    /\ done' = [done EXCEPT ![t] = @ + 1]
    /\ UNCHANGED <<handle, busy, pc, call, alone>>

\* tx.execute, between two awaits of the function.
TxExecute(t) ==
    /\ pc[t] = "fn" /\ done[t] < 2
    /\ Writable
    /\ Write({<<t, done[t] + 1>>})
    /\ done' = [done EXCEPT ![t] = @ + 1]
    /\ UNCHANGED <<handle, busy, pc, call, alone>>

\* The function returns: COMMIT.
Commit(t) ==
    /\ pc[t] = "fn" /\ done[t] = 2
    /\ handle = "open"
    /\ db' = view
    /\ handle' = "auto"
    /\ pc' = [pc EXCEPT ![t] = "resolved"]
    /\ UNCHANGED <<view, busy, call, done, alone>>

\* A mutant: COMMIT in a finally, also when the function threw.
ThrowsCommits(t) ==
    /\ pc[t] = "fn"
    /\ db' = view
    /\ handle' = IF handle = "open" THEN "auto" ELSE handle
    /\ pc' = [pc EXCEPT ![t] = "rejected"]
    /\ UNCHANGED <<view, busy, call, done, alone>>

\* The function throws, or COMMIT does: ROLLBACK, and the call is rejected.
Throws(t) ==
    /\ pc[t] = "fn"
    /\ RollBack
    /\ pc' = [pc EXCEPT ![t] = "rejected"]
    /\ UNCHANGED <<busy, call, done, alone>>

\* close(): what was not committed is gone.
Close ==
    /\ handle # "closed"
    /\ handle' = "closed"
    /\ view' = db
    /\ UNCHANGED <<db, busy, pc, call, done, alone>>

\* Another process takes or leaves the write lock.
OtherProcess ==
    /\ handle # "open"
    /\ busy' = ~busy
    /\ UNCHANGED <<db, view, handle, pc, call, done, alone>>

Next ==
    \/ \E t \in Task :
          \/ Execute(t) \/ ExecuteFails(t) \/ Batch(t) \/ BatchFails(t)
          \/ Begin(t) \/ BeginFails(t) \/ TxExecute(t) \/ Commit(t) \/ Throws(t)
    \/ Close \/ OtherProcess

Spec == Init /\ [][Next]_vars

-----------------------------------------------------------------------------
TypeOK ==
    /\ db \subseteq Row /\ view \subseteq Row
    /\ handle \in {"auto", "open", "closed"}
    /\ busy \in BOOLEAN
    /\ pc \in [Task -> {"idle", "fn", "resolved", "rejected"}]
    /\ call \in [Task -> {"none", "execute", "batch", "transaction"}]
    /\ done \in [Task -> 0..2]
    /\ alone \subseteq Task

\* However calls overlap and fail, the handle is never left inside a
\* transaction nobody will end, and outside one it sees the committed rows.
NothingLeftOpen ==
    /\ handle = "open" => \E t \in Task : pc[t] = "fn"
    /\ handle # "open" => view = db

\* What a promise that settled says is so: resolved, all the call's rows are
\* committed; rejected, none of them is in the database or will be.
KeepsItsWord(t) ==
    /\ pc[t] = "resolved" => Rows(t) \subseteq db
    /\ pc[t] = "rejected" => Rows(t) \cap view = {}

\* "batch runs multiple write statements atomically": also when a transaction
\* of another task is open on the handle, or another process has the lock.
BatchesAreAtomic == \A t \in Task : call[t] = "batch" => KeepsItsWord(t)

\* Without transaction(), as the L2 store uses the driver, every call keeps
\* its word; and so does a transaction no other call of the handle overlaps.
CallsKeepTheirWord ==
    \A t \in Task :
        (\A u \in Task : call[u] # "transaction") \/ t \in alone => KeepsItsWord(t)
=============================================================================
