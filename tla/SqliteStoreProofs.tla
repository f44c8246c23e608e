-------------------------- MODULE SqliteStoreProofs --------------------------
(***************************************************************************)
(* Proofs about SqliteStore for any processes, transactions, keys,         *)
(* patterns, payloads and page size.                                       *)
(***************************************************************************)
EXTENDS SqliteStore, KeysetPageTheorems

\* The buffer operators keep a buffer a buffer, and never let it hold two
\* verdicts on a quad.
LEMMA BufferOps ==
    ASSUME NEW b \in Buffer, NEW k \in Key
    PROVE  /\ BufferAdd(b, k) \in Buffer
           /\ BufferDelete(b, k) \in Buffer
           /\ b.ins \cap b.del = {} =>
                /\ BufferAdd(b, k).ins \cap BufferAdd(b, k).del = {}
                /\ BufferDelete(b, k).ins \cap BufferDelete(b, k).del = {}
  BY DEF Buffer, BufferAdd, BufferDelete

\* A page of a well-typed read keeps it well typed.
LEMMA PageOfRead ==
    ASSUME NEW S \in SUBSET Key, NEW r \in Read
    PROVE  LET page == PageAfter(S \cap r.pat, r.anchor, PageSize) IN
           /\ page \subseteq S \cap r.pat
           /\ IsFiniteSet(page)
           /\ Cardinality(page) \in Nat
           /\ \A k \in page : r.anchor < k
           /\ AnchorAfter(page, r.anchor) \in Nat
           /\ page # {} => /\ AnchorAfter(page, r.anchor) \in page
                           /\ \A k \in page : k <= AnchorAfter(page, r.anchor)
  <1> DEFINE page == PageAfter(S \cap r.pat, r.anchor, PageSize)
  <1>1. S \cap r.pat \in SUBSET Nat /\ IsFiniteSet(S \cap r.pat) /\ r.anchor \in Nat
    BY KeyAssumption, FS_Subset DEF Read
  <1>2. /\ page \subseteq S \cap r.pat
        /\ \A k \in page : r.anchor < k
        /\ IsFiniteSet(page) /\ Cardinality(page) \in Nat
    BY <1>1, PageWithin
  <1>3. page # {} => GreatestOf(page) \in page /\ \A k \in page : k <= GreatestOf(page)
    BY <1>1, <1>2, GreatestExists
  <1> HIDE DEF page
  <1>4. /\ AnchorAfter(page, r.anchor) \in Nat
        /\ page # {} => /\ AnchorAfter(page, r.anchor) \in page
                        /\ \A k \in page : k <= AnchorAfter(page, r.anchor)
    BY <1>1, <1>2, <1>3 DEF AnchorAfter
  <1> QED
    BY <1>2, <1>4 DEF page

\* Committing a table keeps the record of every read well typed.
LEMMA CommitTableType ==
    ASSUME TypeOK, NEW new \in SUBSET Key, CommitTable(new)
    PROVE  table' \subseteq Key /\ read' \in [Proc -> Read]
  <1>1. ASSUME NEW r \in Read PROVE [r EXCEPT !.snaps = @ \cup {new}] \in Read
    <2>1. r.snaps \cup {new} \in SUBSET SUBSET Key
      BY DEF Read
    <2> QED
      BY <2>1 DEF Read
  <1>2. \A q \in Proc : read[q] \in Read
    BY DEF TypeOK
  <1>3. \A q \in Proc : (IF pc[q] = "reading"
                         THEN [read[q] EXCEPT !.snaps = @ \cup {new}] ELSE read[q]) \in Read
    BY <1>1, <1>2
  <1> QED
    BY <1>3 DEF CommitTable

-----------------------------------------------------------------------------
\* Initially, every variable has its type.
LEMMA InitType == Init => TypeOK
  <1> SUFFICES ASSUME Init PROVE TypeOK
    OBVIOUS
  <1>1. NoRead \in Read
    BY DEF NoRead, NewRead, Read
  <1>2. EmptyBuffer \in Buffer
    BY DEF EmptyBuffer, Buffer
  <1> QED
    BY <1>1, <1>2 DEF Init, TypeOK, Place

\* Every step keeps every variable in its type; the loops of commit walk a
\* buffer because the transaction being committed is one of the process's own.
LEMMA NextType == TypeOK /\ BuffersSettled /\ [Next]_vars => TypeOK'
  <1> SUFFICES ASSUME TypeOK, BuffersSettled, [Next]_vars PROVE TypeOK'
    OBVIOUS
  <1> USE DEF TypeOK
  <1>1. ASSUME NEW t \in Tx, NEW k \in Key, Add(t, k) \/ Delete(t, k) PROVE TypeOK'
    BY <1>1, BufferOps DEF Add, Delete
  <1>2. ASSUME NEW t \in Tx, Rollback(t) PROVE TypeOK'
    BY <1>2 DEF Rollback, EmptyBuffer, Buffer
  <1>3. ASSUME NEW t \in Tx, CallCommit(t) PROVE TypeOK'
    BY <1>3, HostAssumption DEF CallCommit, Go, Place
  <1>4. ASSUME NEW p \in Proc, NEW k \in Key, AddQuad(p, k) \/ RemoveQuad(p, k)
        PROVE  TypeOK'
    <2>1. table \cup {k} \in SUBSET Key /\ table \ {k} \in SUBSET Key
      OBVIOUS
    <2>2. table' \subseteq Key /\ read' \in [Proc -> Read]
      BY <1>4, <2>1, CommitTableType DEF AddQuad, RemoveQuad
    <2> QED
      BY <1>4, <2>2 DEF AddQuad, RemoveQuad
  <1>5. ASSUME NEW p \in Proc, NEW pat \in Pattern[p], NEW sweep \in BOOLEAN,
               CallGetQuads(p, pat, sweep)
        PROVE  TypeOK'
    <2>1. NewRead(pat, sweep, {table}) \in Read
      BY PatternAssumption DEF NewRead, Read
    <2> QED
      BY <1>5, <2>1 DEF CallGetQuads, Go, Place
  <1>6. ASSUME NEW p \in Proc, Begin(p) \/ BeginBusy(p) PROVE TypeOK'
    BY <1>6 DEF Begin, BeginBusy, Go, Place
  <1>7. ASSUME NEW p \in Proc, HookReturns(p) \/ RemovesDone(p) PROVE TypeOK'
    <2>1. pc[p] \in InTransaction
      BY <1>7 DEF HookReturns, RemovesDone, Go, InTransaction
    <2>2. buf[cur[p]] \in Buffer
      BY <2>1 DEF BuffersSettled
    <2> QED
      BY <1>7, <2>2 DEF HookReturns, RemovesDone, Go, Place, Buffer
  <1>8. ASSUME NEW p \in Proc, RemoveNext(p) \/ InsertNext(p) PROVE TypeOK'
    BY <1>8 DEF RemoveNext, InsertNext
  <1>9. ASSUME NEW p \in Proc, Commit(p) PROVE TypeOK'
    <2>1. table' \subseteq Key /\ read' \in [Proc -> Read]
      BY <1>9, CommitTableType DEF Commit
    <2> QED
      BY <1>9, <2>1 DEF Commit, Go, Place
  <1>10. ASSUME NEW p \in Proc, Fail(p) PROVE TypeOK'
    BY <1>10 DEF Fail, Place
  <1>11. ASSUME NEW p \in Proc, ReadPage(p) PROVE TypeOK'
    <2> DEFINE r == read[p]
               page == PageAfter(table \cap r.pat, r.anchor, PageSize)
    <2>1. r \in Read
      OBVIOUS
    <2>2. page \subseteq Key /\ Cardinality(page) \in Nat
          /\ AnchorAfter(page, r.anchor) \in Nat
      BY <2>1, PageOfRead
    <2>3. pc' \in [Proc -> Place]
      BY <1>11 DEF ReadPage, Place
    <2>4. todo' \in [Proc -> SUBSET Key]
      <3> HIDE DEF page
      <3>1. r.got \cup page \subseteq Key
        BY <2>1, <2>2 DEF Read
      <3>2. {ReadBack[k] : k \in r.got \cup page} \subseteq Key
        BY <3>1, ReadBackAssumption
      <3> QED
        BY <1>11, <3>2 DEF ReadPage, page
    <2>5. read' \in [Proc -> Read]
      <3> DEFINE next == [r EXCEPT !.got = r.got \cup page,
                                   !.rows = r.rows + Cardinality(page),
                                   !.anchor = AnchorAfter(page, r.anchor)]
      <3>1. read' = [read EXCEPT ![p] = next]
        BY <1>11 DEF ReadPage
      <3> HIDE DEF page
      <3>2. /\ r.got \cup page \in SUBSET Key
            /\ r.rows + Cardinality(page) \in Nat
        BY <2>1, <2>2 DEF Read
      <3>3. next \in Read
        BY <2>1, <2>2, <3>2 DEF Read
      <3> HIDE DEF next
      <3> QED
        BY <3>1, <3>3
    <2> QED
      BY <1>11, <2>3, <2>4, <2>5 DEF ReadPage
  <1>12. ASSUME NEW p \in Proc, ReadFails(p) \/ Return(p) \/ SweepBusy(p) \/ SweepDone(p)
         PROVE  TypeOK'
    <2>1. NoRead \in Read
      BY DEF NoRead, NewRead, Read
    <2> QED
      BY <1>12, <2>1 DEF ReadFails, Return, SweepBusy, SweepDone, Go, Place
  <1>13. ASSUME NEW p \in Proc, SweepNext(p) PROVE TypeOK'
    <2>1. PICK k \in todo[p] : CommitTable(table \ {k})
                               /\ todo' = [todo EXCEPT ![p] = todo[p] \ {k}]
      BY <1>13 DEF SweepNext
    <2>2. table' \subseteq Key /\ read' \in [Proc -> Read]
      <3>1. table \ {k} \in SUBSET Key
        OBVIOUS
      <3> QED
        BY <2>1, <3>1, CommitTableType
    <2> QED
      BY <1>13, <2>1, <2>2 DEF SweepNext
  <1>14. ASSUME NEW p \in Proc, Stop(p) \/ Open(p) PROVE TypeOK'
    <2>1. NoRead \in Read /\ EmptyBuffer \in Buffer
      BY DEF NoRead, NewRead, Read, EmptyBuffer, Buffer
    <2> QED
      BY <1>14, <2>1 DEF Stop, Open, Go, Place
  <1>15. CASE UNCHANGED vars
    BY <1>15 DEF vars
  <1> QED
    BY <1>1, <1>2, <1>3, <1>4, <1>5, <1>6, <1>7, <1>8, <1>9, <1>10, <1>11, <1>12,
       <1>13, <1>14, <1>15 DEF Next, Ask, AskTx, Step

-----------------------------------------------------------------------------
\* Every step keeps buffers free of double verdicts, and every process commits
\* a transaction of its own.
LEMMA NextBuffers == TypeOK /\ BuffersSettled /\ [Next]_vars => BuffersSettled'
  <1> SUFFICES ASSUME TypeOK, BuffersSettled, [Next]_vars PROVE BuffersSettled'
    OBVIOUS
  <1> USE DEF TypeOK, BuffersSettled
  <1>1. ASSUME NEW t \in Tx, NEW k \in Key, Add(t, k) \/ Delete(t, k)
        PROVE  BuffersSettled'
    BY <1>1, BufferOps DEF Add, Delete
  <1>2. ASSUME NEW t \in Tx, Rollback(t) PROVE BuffersSettled'
    BY <1>2 DEF Rollback, EmptyBuffer
  <1>3. ASSUME NEW t \in Tx, CallCommit(t) PROVE BuffersSettled'
    BY <1>3, HostAssumption DEF CallCommit, Go, InTransaction
  <1>4. ASSUME NEW p \in Proc, NEW k \in Key, AddQuad(p, k) \/ RemoveQuad(p, k)
        PROVE  BuffersSettled'
    BY <1>4 DEF AddQuad, RemoveQuad
  <1>5. ASSUME NEW p \in Proc, NEW pat \in Pattern[p], NEW sweep \in BOOLEAN,
               CallGetQuads(p, pat, sweep)
        PROVE  BuffersSettled'
    BY <1>5 DEF CallGetQuads, Go, InTransaction
  <1>6. ASSUME NEW p \in Proc,
               \/ Begin(p) \/ BeginBusy(p) \/ HookReturns(p) \/ RemovesDone(p)
               \/ RemoveNext(p) \/ InsertNext(p) \/ Commit(p) \/ Fail(p)
        PROVE  BuffersSettled'
    BY <1>6 DEF Begin, BeginBusy, HookReturns, RemovesDone, RemoveNext,
                InsertNext, Commit, Fail, Go, InTransaction
  <1>7. ASSUME NEW p \in Proc,
               \/ ReadPage(p) \/ ReadFails(p) \/ Return(p)
               \/ SweepNext(p) \/ SweepBusy(p) \/ SweepDone(p)
        PROVE  BuffersSettled'
    <2>1. /\ UNCHANGED <<buf, cur>>
          /\ \A q \in Proc : q # p => pc'[q] = pc[q]
          /\ pc'[p] \notin InTransaction \cup {"begin"}
      BY <1>7 DEF ReadPage, ReadFails, Return, SweepNext, SweepBusy, SweepDone, Go, InTransaction
    <2> QED
      BY <2>1
  <1>8. ASSUME NEW p \in Proc, Stop(p) \/ Open(p) PROVE BuffersSettled'
    BY <1>8 DEF Stop, Open, Go, EmptyBuffer, InTransaction
  <1>9. CASE UNCHANGED vars
    BY <1>9 DEF vars
  <1> QED
    BY <1>1, <1>2, <1>3, <1>4, <1>5, <1>6, <1>7, <1>8, <1>9
       DEF Next, Ask, AskTx, Step

-----------------------------------------------------------------------------
\* Every step keeps the write lock with the one process in a transaction.
LEMMA NextWriters == TypeOK /\ WritersExcluded /\ [Next]_vars => WritersExcluded'
  <1> SUFFICES ASSUME TypeOK, WritersExcluded, [Next]_vars PROVE WritersExcluded'
    OBVIOUS
  <1> USE NoneAssumption DEF TypeOK, WritersExcluded, InTransaction
  <1>1. ASSUME NEW t \in Tx,
               \/ \E k \in Key : Add(t, k) \/ Delete(t, k)
               \/ Rollback(t) \/ CallCommit(t)
        PROVE  WritersExcluded'
    BY <1>1, HostAssumption DEF Add, Delete, Rollback, CallCommit, Go
  <1>2. ASSUME NEW p \in Proc, Ask(p) PROVE WritersExcluded'
    BY <1>2 DEF Ask, AddQuad, RemoveQuad, CallGetQuads, Go
  <1>3. ASSUME NEW p \in Proc,
               \/ Begin(p) \/ BeginBusy(p) \/ HookReturns(p) \/ RemovesDone(p)
               \/ RemoveNext(p) \/ InsertNext(p)
        PROVE  WritersExcluded'
    BY <1>3 DEF Begin, BeginBusy, HookReturns, RemovesDone, RemoveNext, InsertNext, Go
  <1>4. ASSUME NEW p \in Proc, Commit(p) \/ Fail(p) PROVE WritersExcluded'
    BY <1>4 DEF Commit, Fail, Go
  <1>5. ASSUME NEW p \in Proc,
               \/ ReadPage(p) \/ ReadFails(p) \/ Return(p)
               \/ SweepNext(p) \/ SweepBusy(p) \/ SweepDone(p)
        PROVE  WritersExcluded'
    <2>1. /\ UNCHANGED <<lock, work>>
          /\ \A q \in Proc : q # p => pc'[q] = pc[q]
          /\ pc[p] \notin InTransaction /\ pc'[p] \notin InTransaction
      BY <1>5 DEF ReadPage, ReadFails, Return, SweepNext, SweepBusy, SweepDone, Go
    <2> QED
      BY <2>1
  <1>6. ASSUME NEW p \in Proc, Stop(p) \/ Open(p) PROVE WritersExcluded'
    BY <1>6 DEF Stop, Open, Go
  <1>7. CASE UNCHANGED vars
    BY <1>7 DEF vars
  <1> QED
    BY <1>1, <1>2, <1>3, <1>4, <1>5, <1>6, <1>7 DEF Next, AskTx, Step

-----------------------------------------------------------------------------
\* Every step keeps the uncommitted table equal to the walked part of the patch.
LEMMA NextWork ==
    TypeOK /\ BuffersSettled /\ WritersExcluded /\ WorkIsPartialPatch /\ [Next]_vars
      => WorkIsPartialPatch'
  <1> SUFFICES ASSUME TypeOK, BuffersSettled, WritersExcluded, WorkIsPartialPatch,
                      [Next]_vars
               PROVE  WorkIsPartialPatch'
    OBVIOUS
  <1> USE DEF TypeOK, WorkIsPartialPatch
  \* Who is in a transaction holds the lock, so there is at most one.
  <1>1. /\ \A p, q \in Proc :
              pc[p] \in InTransaction /\ pc[q] \in InTransaction => p = q
        /\ lock = NoProc => \A q \in Proc : pc[q] \notin InTransaction
    BY NoneAssumption DEF WritersExcluded
  \* The uncommitted table does not matter out of a transaction.
  <1>2. ASSUME NEW q \in Proc, pc'[q] \notin InTransaction PROVE WorkIsPartial(q)'
    BY <1>2 DEF WorkIsPartial, InTransaction
  \* A process whose transaction a step leaves alone.
  <1>3. ASSUME NEW q \in Proc, UNCHANGED <<table, work>>, pc'[q] = pc[q],
               todo'[q] = todo[q], cur'[q] = cur[q],
               pc[q] \in InTransaction => buf'[cur[q]] = buf[cur[q]]
        PROVE  WorkIsPartial(q)'
    BY <1>3 DEF WorkIsPartial, InTransaction
  <1>4. ASSUME NEW t \in Tx,
               \/ \E k \in Key : Add(t, k) \/ Delete(t, k)
               \/ Rollback(t)
        PROVE  WorkIsPartialPatch'
    <2>1. ASSUME NEW q \in Proc, pc[q] \in InTransaction
          PROVE  buf'[cur[q]] = buf[cur[q]]
      BY <1>4, <2>1, HostAssumption
         DEF Add, Delete, Rollback, BuffersSettled, InTransaction
    <2> QED
      BY <1>3, <1>4, <2>1 DEF Add, Delete, Rollback
  <1>5. ASSUME NEW t \in Tx, CallCommit(t) PROVE WorkIsPartialPatch'
    <2>1. pc'[Host[t]] \notin InTransaction
      BY <1>5, HostAssumption DEF CallCommit, Go, InTransaction
    <2> QED
      BY <1>2, <1>3, <1>5, <2>1 DEF CallCommit, Go
  <1>6. ASSUME NEW p \in Proc, Ask(p) PROVE WorkIsPartialPatch'
    <2>1. CASE \E k \in Key : AddQuad(p, k) \/ RemoveQuad(p, k)
      <3>1. \A q \in Proc : pc'[q] \notin InTransaction
        BY <1>1, <2>1 DEF AddQuad, RemoveQuad
      <3> QED
        BY <1>2, <3>1
    <2>2. CASE \E pat \in Pattern[p], sweep \in BOOLEAN : CallGetQuads(p, pat, sweep)
      <3>1. pc'[p] \notin InTransaction
        BY <2>2 DEF CallGetQuads, Go, InTransaction
      <3> QED
        BY <1>2, <1>3, <2>2, <3>1 DEF CallGetQuads, Go
    <2> QED
      BY <1>6, <2>1, <2>2 DEF Ask
  <1>7. ASSUME NEW p \in Proc, Begin(p) \/ BeginBusy(p) PROVE WorkIsPartialPatch'
    <2>1. ASSUME Begin(p), NEW q \in Proc, q # p PROVE pc'[q] \notin InTransaction
      BY <1>1, <2>1 DEF Begin, Go
    <2>2. Begin(p) => WorkIsPartial(p)'
      BY DEF Begin, Go, WorkIsPartial
    <2>3. BeginBusy(p) => pc'[p] \notin InTransaction
      BY DEF BeginBusy, Go, InTransaction
    <2>4. CASE Begin(p)
      BY <1>2, <2>1, <2>2, <2>4
    <2>5. CASE BeginBusy(p)
      BY <1>2, <1>3, <2>3, <2>5 DEF BeginBusy, Go
    <2> QED
      BY <1>7, <2>4, <2>5
  <1>8. ASSUME NEW p \in Proc,
               \/ HookReturns(p) \/ RemoveNext(p) \/ RemovesDone(p)
               \/ InsertNext(p) \/ Commit(p) \/ Fail(p)
        PROVE  WorkIsPartialPatch'
    <2>1. pc[p] \in InTransaction /\ buf[cur[p]] \in Buffer
      BY <1>8 DEF HookReturns, RemoveNext, RemovesDone, InsertNext, Commit, Fail, Go,
                  InTransaction, BuffersSettled
    <2>2. ASSUME NEW q \in Proc, q # p PROVE pc'[q] \notin InTransaction
      BY <1>1, <1>8, <2>1, <2>2
         DEF HookReturns, RemoveNext, RemovesDone, InsertNext, Commit, Fail, Go
    <2>3. WorkIsPartial(p)'
      <3>1. CASE HookReturns(p)
        BY <2>1, <3>1 DEF HookReturns, Go, WorkIsPartial, Buffer
      <3>2. CASE RemoveNext(p)
        BY <2>1, <3>2 DEF RemoveNext, WorkIsPartial, Buffer
      <3>3. CASE RemovesDone(p)
        BY <2>1, <3>3 DEF RemovesDone, Go, WorkIsPartial, Buffer
      <3>4. CASE InsertNext(p)
        BY <2>1, <3>4 DEF InsertNext, WorkIsPartial, Buffer
      <3>5. CASE Commit(p) \/ Fail(p)
        BY <3>5 DEF Commit, Fail, Go, WorkIsPartial
      <3> QED
        BY <1>8, <3>1, <3>2, <3>3, <3>4, <3>5
    <2> QED
      BY <1>2, <2>2, <2>3
  <1>9. ASSUME NEW p \in Proc,
               ReadPage(p) \/ ReadFails(p) \/ Return(p) \/ SweepBusy(p) \/ SweepDone(p)
        PROVE  WorkIsPartialPatch'
    <2>1. /\ UNCHANGED <<table, work, buf, cur>>
          /\ \A q \in Proc : q # p => pc'[q] = pc[q] /\ todo'[q] = todo[q]
          /\ pc'[p] \notin InTransaction
      BY <1>9 DEF ReadPage, ReadFails, Return, SweepBusy, SweepDone, Go, InTransaction
    <2> QED
      BY <1>2, <1>3, <2>1
  <1>10. ASSUME NEW p \in Proc, SweepNext(p) PROVE WorkIsPartialPatch'
    <2>1. \A q \in Proc : pc'[q] \notin InTransaction
      BY <1>1, <1>10 DEF SweepNext
    <2> QED
      BY <1>2, <2>1
  <1>11. ASSUME NEW p \in Proc, Stop(p) PROVE WorkIsPartialPatch'
    <2>1. pc'[p] \notin InTransaction
      BY <1>11 DEF Stop, InTransaction
    <2>2. ASSUME NEW q \in Proc, q # p PROVE WorkIsPartial(q)'
      <3>1. CASE pc[q] \notin InTransaction
        BY <1>2, <1>11, <2>2, <3>1 DEF Stop
      <3>2. CASE pc[q] \in InTransaction
        <4>1. lock # p /\ cur[q] \in Tx /\ Host[cur[q]] # p
          BY <2>2, <3>2 DEF WritersExcluded, BuffersSettled
        <4>2. UNCHANGED <<table, work>> /\ buf'[cur[q]] = buf[cur[q]]
          BY <1>11, <4>1 DEF Stop
        <4> QED
          BY <1>3, <1>11, <2>2, <4>2 DEF Stop
      <3> QED
        BY <3>1, <3>2
    <2> QED
      BY <1>2, <2>1, <2>2
  <1>12. ASSUME NEW p \in Proc, Open(p) PROVE WorkIsPartialPatch'
    <2>1. pc'[p] \notin InTransaction
      BY <1>12 DEF Open, Go, InTransaction
    <2> QED
      BY <1>2, <1>3, <1>12, <2>1 DEF Open, Go
  <1>13. CASE UNCHANGED vars
    BY <1>3, <1>13 DEF vars
  <1> QED
    BY <1>4, <1>5, <1>6, <1>7, <1>8, <1>9, <1>10, <1>11, <1>12, <1>13
       DEF Next, AskTx, Step

-----------------------------------------------------------------------------
\* The inductive invariant behind the commit's atomicity: each part needs the
\* ones before it.
CommitInv == TypeOK /\ BuffersSettled /\ WritersExcluded /\ WorkIsPartialPatch

\* Its three facts in one: it holds at the start and every step keeps it.
LEMMA CommitInvInductive == (Init => CommitInv) /\ (CommitInv /\ [Next]_vars => CommitInv')
  <1>1. Init => CommitInv
    <2>1. Init => BuffersSettled /\ WritersExcluded /\ WorkIsPartialPatch
      BY NoneAssumption DEF Init, BuffersSettled, WritersExcluded, WorkIsPartialPatch,
         WorkIsPartial, EmptyBuffer, InTransaction
    <2> QED
      BY <2>1, InitType DEF CommitInv
  <1>2. CommitInv /\ [Next]_vars => CommitInv'
    BY NextType, NextBuffers, NextWriters, NextWork DEF CommitInv
  <1> QED
    BY <1>1, <1>2

\* The commit invariant holds in every reachable state.
LEMMA CommitInvHolds == Spec => []CommitInv
  BY CommitInvInductive, PTL DEF Spec

\* A process commits a transaction of its own, whose buffer no other process
\* changes meanwhile, and no buffer holds two verdicts on a quad.
THEOREM BuffersStaySettled == Spec => []BuffersSettled
  <1>1. CommitInv => BuffersSettled
    BY DEF CommitInv
  <1> QED
    BY <1>1, CommitInvHolds, PTL

\* Every variable keeps its type in every reachable state.
THEOREM TypeCorrect == Spec => []TypeOK
  <1>1. CommitInv => TypeOK
    BY DEF CommitInv
  <1> QED
    BY <1>1, CommitInvHolds, PTL

\* At most one process is in a write transaction, the one that holds the lock,
\* through every timeout, failed statement, crash and restart.
THEOREM WritersAreExcluded == Spec => []WritersExcluded
  <1>1. CommitInv => WritersExcluded
    BY DEF CommitInv
  <1> QED
    BY <1>1, CommitInvHolds, PTL

\* What a commit has written at any point is its table at BEGIN with the walked
\* part of its own patch applied.
THEOREM WorkStaysPartialPatch == Spec => []WorkIsPartialPatch
  <1>1. CommitInv => WorkIsPartialPatch
    BY DEF CommitInv
  <1> QED
    BY <1>1, CommitInvHolds, PTL

-----------------------------------------------------------------------------
\* A buffer, as one verdict per quad, changes as the abstract patch does.
LEMMA PatchOfBuffer ==
    ASSUME NEW b \in Buffer, b.ins \cap b.del = {}, NEW k \in Key
    PROVE  /\ PatchOf(BufferAdd(b, k)) = [PatchOf(b) EXCEPT ![k] = "add"]
           /\ PatchOf(BufferDelete(b, k)) =
                [PatchOf(b) EXCEPT
                    ![k] = IF PatchOf(b)[k] = "add" THEN "keep" ELSE "delete"]
  <1>1. PatchOf(BufferAdd(b, k)) = [PatchOf(b) EXCEPT ![k] = "add"]
    BY DEF PatchOf, BufferAdd, Buffer
  <1>2. CASE k \in b.ins
    <2> DEFINE c == [ins |-> b.ins \ {k}, del |-> b.del]
    <2>1. BufferDelete(b, k) = c
      BY <1>2 DEF BufferDelete, Buffer
    <2>2. PatchOf(b)[k] = "add"
      BY <1>2 DEF PatchOf
    <2>3. PatchOf(c) = [PatchOf(b) EXCEPT ![k] = "keep"]
      BY <1>2 DEF PatchOf
    <2> QED
      BY <1>1, <2>1, <2>2, <2>3
  <1>3. CASE k \notin b.ins
    <2> DEFINE c == [ins |-> b.ins, del |-> b.del \cup {k}]
    <2>1. BufferDelete(b, k) = c
      BY <1>3 DEF BufferDelete, Buffer
    <2>2. PatchOf(b)[k] # "add"
      BY <1>3 DEF PatchOf
    <2>3. PatchOf(c) = [PatchOf(b) EXCEPT ![k] = "delete"]
      BY <1>3 DEF PatchOf
    <2> QED
      BY <1>1, <2>1, <2>2, <2>3
  <1> QED
    BY <1>1, <1>2, <1>3

\* Walking the whole buffer gives what the abstract commit gives.
LEMMA PatchOfCommit ==
    ASSUME NEW b \in Buffer, b.ins \cap b.del = {}, NEW S \in SUBSET Key
    PROVE  (S \ b.del) \cup b.ins =
             {k \in Key : \/ PatchOf(b)[k] = "add"
                          \/ k \in S /\ PatchOf(b)[k] = "keep"}
  BY DEF PatchOf, Buffer

\* Initial states are initial states of the abstract store.
LEMMA InitImplements == Init => Abstract!Init
  BY DEF Init, Abstract!Init, Abstract!NoPatch, PatchOf, EmptyBuffer

\* Every step of the store is a step of the abstract one, or changes nothing
\* that it shows.
LEMMA StepImplements ==
    ASSUME CommitInv, [Next]_vars
    PROVE  [Abstract!Next]_(Abstract!vars)
  <1> DEFINE patch == [t \in Tx |-> PatchOf(buf[t])]
  <1> USE DEF CommitInv, TypeOK
  <1>1. ASSUME UNCHANGED <<table, buf>> PROVE UNCHANGED Abstract!vars
    BY <1>1 DEF Abstract!vars
  <1>2. ASSUME NEW t \in Tx, NEW k \in Key, Add(t, k) PROVE Abstract!Add(t, k)
    <2>1. PatchOf(BufferAdd(buf[t], k)) = [PatchOf(buf[t]) EXCEPT ![k] = "add"]
      BY PatchOfBuffer DEF BuffersSettled
    <2> QED
      BY <1>2, <2>1 DEF Add, Abstract!Add, Abstract!Decide
  <1>3. ASSUME NEW t \in Tx, NEW k \in Key, Delete(t, k) PROVE Abstract!Delete(t, k)
    <2>1. PatchOf(BufferDelete(buf[t], k)) =
            [PatchOf(buf[t]) EXCEPT
                ![k] = IF PatchOf(buf[t])[k] = "add" THEN "keep" ELSE "delete"]
      BY PatchOfBuffer DEF BuffersSettled
    <2> QED
      BY <1>3, <2>1 DEF Delete, Abstract!Delete, Abstract!Decide
  <1>4. PatchOf(EmptyBuffer) = Abstract!NoPatch
    BY DEF PatchOf, EmptyBuffer, Abstract!NoPatch
  <1>5. ASSUME NEW t \in Tx, Rollback(t) PROVE Abstract!Forget({t})
    BY <1>4, <1>5 DEF Rollback, Abstract!Forget
  <1>6. ASSUME NEW p \in Proc, Stop(p) PROVE Abstract!Forget({t \in Tx : Host[t] = p})
    BY <1>4, <1>6 DEF Stop, Abstract!Forget
  <1>7. ASSUME NEW p \in Proc, Commit(p) PROVE cur[p] \in Tx /\ Abstract!Commit(cur[p])
    <2>1. /\ pc[p] = "inserting" /\ todo[p] = {} /\ table' = work /\ UNCHANGED buf
          /\ cur[p] \in Tx
      BY <1>7 DEF Commit, CommitTable, Go, BuffersSettled, InTransaction
    <2>2. work = (table \ buf[cur[p]].del) \cup buf[cur[p]].ins
      BY <2>1 DEF WorkIsPartialPatch, WorkIsPartial
    <2>3. work = {k \in Key : \/ patch[cur[p]][k] = "add"
                              \/ k \in table /\ patch[cur[p]][k] = "keep"}
      BY <2>1, <2>2, PatchOfCommit DEF BuffersSettled
    <2> QED
      BY <2>1, <2>3 DEF Abstract!Commit
  <1>8. ASSUME NEW p \in Proc, NEW k \in Key, AddQuad(p, k) PROVE Abstract!PutRow(k)
    BY <1>8 DEF AddQuad, CommitTable, Abstract!PutRow
  <1>9. ASSUME NEW p \in Proc, NEW k \in Key, RemoveQuad(p, k) PROVE Abstract!DropRow(k)
    BY <1>9 DEF RemoveQuad, CommitTable, Abstract!DropRow
  <1>10. ASSUME NEW p \in Proc, SweepNext(p)
         PROVE  \E k \in Key : Abstract!DropRow(k)
    <2>1. PICK k \in todo[p] : table' = table \ {k} /\ UNCHANGED buf
      BY <1>10 DEF SweepNext, CommitTable
    <2>2. k \in Key /\ Abstract!DropRow(k)
      BY <2>1 DEF Abstract!DropRow
    <2> QED
      BY <2>2
  <1>11. ASSUME NEW t \in Tx, CallCommit(t) PROVE UNCHANGED <<table, buf>>
    BY <1>11 DEF CallCommit
  <1>12. ASSUME NEW p \in Proc,
                \/ Begin(p) \/ BeginBusy(p) \/ HookReturns(p) \/ RemoveNext(p)
                \/ RemovesDone(p) \/ InsertNext(p) \/ Fail(p) \/ ReadPage(p)
                \/ ReadFails(p) \/ Return(p) \/ SweepBusy(p) \/ SweepDone(p) \/ Open(p)
         PROVE  UNCHANGED <<table, buf>>
    BY <1>12 DEF Begin, BeginBusy, HookReturns, RemoveNext, RemovesDone, InsertNext,
                 Fail, ReadPage, ReadFails, Return, SweepBusy, SweepDone, Open
  <1>13. ASSUME NEW p \in Proc, NEW pat, NEW sweep, CallGetQuads(p, pat, sweep)
         PROVE  UNCHANGED <<table, buf>>
    BY <1>13 DEF CallGetQuads
  <1>14. CASE UNCHANGED vars
    BY <1>1, <1>14 DEF vars
  <1>15. ASSUME NEW t \in Tx, AskTx(t) PROVE [Abstract!Next]_(Abstract!vars)
    BY <1>1, <1>2, <1>3, <1>5, <1>11, <1>15 DEF AskTx, Abstract!Next
  <1>16. ASSUME NEW p \in Proc, Ask(p) PROVE [Abstract!Next]_(Abstract!vars)
    BY <1>1, <1>8, <1>9, <1>13, <1>16 DEF Ask, Abstract!Next
  <1>17. ASSUME NEW p \in Proc, Step(p) PROVE [Abstract!Next]_(Abstract!vars)
    BY <1>1, <1>7, <1>10, <1>12, <1>17 DEF Step, Abstract!Next
  <1>18. ASSUME NEW p \in Proc, Stop(p) \/ Open(p) PROVE [Abstract!Next]_(Abstract!vars)
    <2>1. {t \in Tx : Host[t] = p} \in SUBSET Tx
      OBVIOUS
    <2> QED
      BY <1>1, <1>6, <1>12, <1>18, <2>1 DEF Abstract!Next
  <1> QED
    BY <1>1, <1>14, <1>15, <1>16, <1>17, <1>18 DEF Next

\* The store implements its promise: through locks, timeouts, failed
\* statements, crashes and restarts of any number of processes, each patch
\* lands entirely, in one step, or not at all.
THEOREM StoreImplements == Spec => Implements
  BY InitImplements, CommitInvHolds, StepImplements, PTL
     DEF Spec, Implements, Abstract!Spec

-----------------------------------------------------------------------------
\* What is known of each read: the count, the anchor, the table of the moment
\* among those remembered, and the pages' promise.
ReadSettled(p) ==
    LET r == read[p] IN
    /\ r.rows = Cardinality(r.got)
    /\ r.got # {} => r.anchor \in r.got /\ \A k \in r.got : k <= r.anchor
    /\ pc[p] = "reading" => table \in r.snaps
    /\ pc[p] \in Reading => LosesNothing(p)

ReadInv == \A p \in Proc : ReadSettled(p)

\* A read not begun is settled.
LEMMA NoReadSettled ==
    ASSUME NEW p \in Proc, read[p] = NoRead, pc[p] # "reading"
    PROVE  ReadSettled(p)
  BY FS_EmptySet DEF NoRead, NewRead, ReadSettled, LosesNothing

\* A read is kept settled by the steps of others, even those that change the
\* committed table.
LEMMA OthersKeepRead ==
    ASSUME TypeOK, NEW p \in Proc, ReadSettled(p),
           pc'[p] = pc[p] \/ (pc[p] \notin Reading /\ pc'[p] \notin Reading),
           CommitTable(table') \/ (table' = table /\ read'[p] = read[p])
    PROVE  ReadSettled(p)'
  <1>1. CASE table' = table /\ read'[p] = read[p]
    BY <1>1 DEF ReadSettled, LosesNothing, Reading
  <1>2. CASE CommitTable(table') /\ pc[p] # "reading"
    <2>1. read'[p] = read[p] /\ pc'[p] # "reading"
      BY <1>2 DEF CommitTable, Reading
    <2> QED
      BY <1>2, <2>1 DEF ReadSettled, LosesNothing, Reading
  <1>3. CASE CommitTable(table') /\ pc[p] = "reading"
    <2> DEFINE r == read[p]
    <2>1. read'[p] = [r EXCEPT !.snaps = @ \cup {table'}] /\ r \in Read
      BY <1>3 DEF CommitTable, TypeOK
    <2>2. /\ read'[p].pat = r.pat /\ read'[p].anchor = r.anchor
          /\ read'[p].got = r.got /\ read'[p].rows = r.rows
          /\ read'[p].snaps = r.snaps \cup {table'}
      BY <2>1 DEF Read
    <2>3. pc'[p] = "reading" /\ LosesNothing(p)
      BY <1>3 DEF ReadSettled, Reading
    <2>4. LosesNothing(p)'
      BY <1>3, <2>2, <2>3 DEF LosesNothing
    <2> QED
      BY <2>2, <2>3, <2>4 DEF ReadSettled
  <1> QED
    BY <1>1, <1>2, <1>3

\* A read is kept settled by its own page: nothing is skipped before the new
\* anchor, nothing is read twice, and a short page ends the table.
LEMMA PageKeepsRead ==
    ASSUME TypeOK, NEW p \in Proc, ReadSettled(p), ReadPage(p)
    PROVE  ReadSettled(p)'
  <1> DEFINE r == read[p]
             S == table \cap r.pat
             page == PageAfter(S, r.anchor, PageSize)
             last == Cardinality(page) < PageSize
  <1>1. /\ r \in Read /\ pc[p] = "reading" /\ table' = table
        /\ read'[p] = [r EXCEPT !.got = r.got \cup page,
                                !.rows = r.rows + Cardinality(page),
                                !.anchor = AnchorAfter(page, r.anchor)]
        /\ pc'[p] \in Reading
        /\ pc'[p] = "reading" <=> ~last
    BY DEF ReadPage, TypeOK, Reading
  <1>2. /\ r.pat \subseteq Key /\ r.got \subseteq Key /\ r.anchor \in Nat
        /\ S \in SUBSET Nat /\ IsFiniteSet(S) /\ PageSize \in Nat
        /\ IsFiniteSet(r.got)
    BY <1>1, KeyAssumption, PageSizeAssumption, FS_Subset DEF Read
  <1>3. /\ page \subseteq S /\ IsFiniteSet(page) /\ Cardinality(page) \in Nat
        /\ \A k \in page : r.anchor < k
        /\ page = {} => AnchorAfter(page, r.anchor) = r.anchor
        /\ page # {} => /\ AnchorAfter(page, r.anchor) \in page
                        /\ \A k \in page : k <= AnchorAfter(page, r.anchor)
    <2>1. table \in SUBSET Key
      BY DEF TypeOK
    <2> QED
      BY <1>1, <2>1, PageOfRead DEF AnchorAfter
  <1>4. \A j \in page, k \in S : r.anchor < k /\ k <= j => k \in page
    BY <1>2, PageSkipsNothing
  <1>5. last => \A k \in S : r.anchor < k => k \in page
    BY <1>2, ShortPageIsLast
  <1> HIDE DEF page
  <1>6. /\ read'[p].pat = r.pat /\ read'[p].snaps = r.snaps
        /\ read'[p].got = r.got \cup page
        /\ read'[p].rows = r.rows + Cardinality(page)
        /\ read'[p].anchor = AnchorAfter(page, r.anchor)
    BY <1>1 DEF Read
  <1>7. /\ r.rows = Cardinality(r.got)
        /\ r.got # {} => r.anchor \in r.got /\ \A k \in r.got : k <= r.anchor
        /\ table \in r.snaps /\ LosesNothing(p)
    BY <1>1 DEF ReadSettled, Reading
  <1>8. read'[p].rows = Cardinality(read'[p].got)
    <2>1. r.got \cap page = {}
      <3> SUFFICES ASSUME NEW k \in r.got, k \in page PROVE FALSE
        OBVIOUS
      <3>1. k <= r.anchor /\ r.anchor < k /\ k \in Nat
        BY <1>2, <1>3, <1>7
      <3> QED
        BY <1>2, <3>1
    <2>2. Cardinality(r.got \cup page) = Cardinality(r.got) + Cardinality(page) - 0
      BY <1>2, <1>3, <2>1, FS_Union, FS_EmptySet
    <2>3. Cardinality(r.got) \in Nat
      BY <1>2, FS_CardinalityType
    <2> QED
      BY <1>3, <1>6, <1>7, <2>2, <2>3
  <1>9. read'[p].got # {} => /\ read'[p].anchor \in read'[p].got
                             /\ \A k \in read'[p].got : k <= read'[p].anchor
    <2>1. CASE page = {}
      BY <1>3, <1>6, <1>7, <2>1
    <2>2. CASE page # {}
      <3>1. ASSUME NEW k \in r.got PROVE k <= AnchorAfter(page, r.anchor)
        <4>1. k <= r.anchor /\ k \in Nat /\ r.anchor \in Nat
          BY <1>2, <1>7, <3>1, KeyAssumption
        <4>2. AnchorAfter(page, r.anchor) \in page
          BY <1>3, <2>2
        <4>3. AnchorAfter(page, r.anchor) \in Nat /\ r.anchor < AnchorAfter(page, r.anchor)
          BY <1>2, <1>3, <4>2
        <4> QED
          BY <4>1, <4>3
      <3> QED
        BY <1>3, <1>6, <2>2, <3>1
    <2> QED
      BY <2>1, <2>2
  <1>10. LosesNothing(p)'
    <2>1. \A k \in r.got \cup page : k \in r.pat /\ \E s \in r.snaps : k \in s
      BY <1>3, <1>7 DEF LosesNothing
    <2>2. ASSUME NEW k \in r.pat, \A s \in r.snaps : k \in s,
                 pc'[p] = "reading" => k <= AnchorAfter(page, r.anchor)
          PROVE  k \in r.got \cup page
      <3>1. k \in S /\ k \in Nat
        BY <1>2, <1>7, <2>2
      <3>2. CASE k <= r.anchor
        BY <1>7, <2>2, <3>2 DEF LosesNothing
      <3>3. CASE r.anchor < k /\ last
        BY <1>5, <3>1, <3>3
      <3>4. CASE r.anchor < k /\ ~last
        <4>1. k <= AnchorAfter(page, r.anchor)
          BY <1>1, <2>2, <3>4
        <4>2. page # {}
          BY <1>2, <1>3, <3>1, <3>4, <4>1
        <4> QED
          BY <1>3, <1>4, <3>1, <3>4, <4>1, <4>2
      <3> QED
        BY <1>2, <3>1, <3>2, <3>3, <3>4
    <2> QED
      BY <1>6, <2>1, <2>2 DEF LosesNothing
  <1> QED
    BY <1>1, <1>6, <1>7, <1>8, <1>9, <1>10 DEF ReadSettled

\* Every step keeps every read settled.
LEMMA NextReads == CommitInv /\ ReadInv /\ [Next]_vars => ReadInv'
  <1> SUFFICES ASSUME CommitInv, ReadInv, [Next]_vars, NEW p \in Proc
               PROVE  ReadSettled(p)'
    BY DEF ReadInv
  <1> USE DEF CommitInv
  <1>1. ReadSettled(p) /\ TypeOK
    BY DEF ReadInv
  <1>2. ASSUME read' = read, table' = table,
               pc'[p] = pc[p] \/ (pc[p] \notin Reading /\ pc'[p] \notin Reading)
        PROVE  ReadSettled(p)'
    BY <1>1, <1>2, OthersKeepRead
  <1>3. ASSUME read'[p] = NoRead, pc'[p] # "reading"
        PROVE  ReadSettled(p)'
    BY <1>3, FS_EmptySet DEF NoRead, NewRead, ReadSettled, LosesNothing
  <1>4. ASSUME NEW t \in Tx, AskTx(t) PROVE ReadSettled(p)'
    <2>1. /\ UNCHANGED <<read, table>>
          /\ pc'[p] = pc[p] \/ (pc[p] \notin Reading /\ pc'[p] \notin Reading)
      BY <1>1, <1>4, HostAssumption
         DEF TypeOK, AskTx, Add, Delete, Rollback, CallCommit, Go, Reading
    <2> QED
      BY <1>2, <2>1
  <1>5. ASSUME NEW q \in Proc, NEW k \in Key, AddQuad(q, k) \/ RemoveQuad(q, k)
        PROVE  ReadSettled(p)'
    <2>1. CommitTable(table') /\ pc'[p] = pc[p]
      BY <1>5 DEF AddQuad, RemoveQuad, CommitTable
    <2> QED
      BY <1>1, <2>1, OthersKeepRead
  <1>6. ASSUME NEW q \in Proc, NEW pat \in Pattern[q], NEW sweep \in BOOLEAN,
               CallGetQuads(q, pat, sweep)
        PROVE  ReadSettled(p)'
    <2>1. CASE q = p
      <3>1. read'[p] = NewRead(pat, sweep, {table}) /\ table' = table
        BY <1>1, <1>6, <2>1 DEF CallGetQuads, TypeOK
      <3>2. pat \subseteq Key /\ \A k \in Key : ~(k <= 0)
        BY <1>6, PatternAssumption, KeyAssumption
      <3>3. pc'[p] = "reading"
        BY <1>1, <1>6, <2>1 DEF CallGetQuads, Go, TypeOK
      <3> QED
        BY <3>1, <3>2, <3>3, FS_EmptySet DEF NewRead, ReadSettled, LosesNothing
    <2>2. CASE q # p
      BY <1>1, <1>6, <2>2, OthersKeepRead DEF CallGetQuads, Go, TypeOK
    <2> QED
      BY <2>1, <2>2
  <1>7. ASSUME NEW q \in Proc,
               \/ Begin(q) \/ BeginBusy(q) \/ HookReturns(q) \/ RemoveNext(q)
               \/ RemovesDone(q) \/ InsertNext(q) \/ Fail(q) \/ Open(q)
        PROVE  ReadSettled(p)'
    <2>1. /\ UNCHANGED <<read, table>>
          /\ pc'[p] = pc[p] \/ (pc[p] \notin Reading /\ pc'[p] \notin Reading)
      BY <1>1, <1>7
         DEF TypeOK, Begin, BeginBusy, HookReturns, RemoveNext, RemovesDone,
             InsertNext, Fail, Open, Go, Reading, InTransaction
    <2> QED
      BY <1>2, <2>1
  <1>8. ASSUME NEW q \in Proc, Commit(q) \/ SweepNext(q) PROVE ReadSettled(p)'
    <2>1. /\ CommitTable(table')
          /\ pc'[p] = pc[p] \/ (pc[p] \notin Reading /\ pc'[p] \notin Reading)
      BY <1>1, <1>8 DEF Commit, SweepNext, CommitTable, Go, TypeOK, Reading
    <2> QED
      BY <1>1, <2>1, OthersKeepRead
  <1>9. ASSUME NEW q \in Proc, ReadPage(q) PROVE ReadSettled(p)'
    <2>1. CASE q = p
      BY <1>1, <1>9, <2>1, PageKeepsRead
    <2>2. CASE q # p
      <3>1. table' = table /\ read'[p] = read[p] /\ pc'[p] = pc[p]
        BY <1>1, <1>9, <2>2 DEF ReadPage, TypeOK
      <3> QED
        BY <1>1, <3>1, OthersKeepRead
    <2> QED
      BY <2>1, <2>2
  <1>10. ASSUME NEW q \in Proc, ReadFails(q) \/ Return(q) \/ SweepBusy(q) \/ Stop(q)
         PROVE  ReadSettled(p)'
    <2>1. CASE q = p
      <3>1. read'[p] = NoRead /\ pc'[p] # "reading"
        BY <1>1, <1>10, <2>1 DEF ReadFails, Return, SweepBusy, Stop, Go, TypeOK
      <3> QED
        BY <1>3, <3>1
    <2>2. CASE q # p
      <3>1. table' = table /\ read'[p] = read[p] /\ pc'[p] = pc[p]
        BY <1>1, <1>10, <2>2 DEF ReadFails, Return, SweepBusy, Stop, Go, TypeOK
      <3> QED
        BY <1>1, <3>1, OthersKeepRead
    <2> QED
      BY <2>1, <2>2
  <1>11. ASSUME NEW q \in Proc, SweepDone(q) PROVE ReadSettled(p)'
    <2>1. CASE q = p
      <3>1. /\ pc[p] = "sweeping" /\ pc'[p] = "returning"
            /\ UNCHANGED <<read, table>>
        BY <1>1, <1>11, <2>1 DEF SweepDone, Go, TypeOK
      <3> QED
        BY <1>1, <3>1 DEF ReadSettled, LosesNothing, Reading
    <2>2. CASE q # p
      BY <1>2, <1>1, <1>11, <2>2 DEF SweepDone, Go, TypeOK
    <2> QED
      BY <2>1, <2>2
  <1>12. CASE UNCHANGED vars
    BY <1>2, <1>12 DEF vars
  <1> QED
    BY <1>4, <1>5, <1>6, <1>7, <1>8, <1>9, <1>10, <1>11, <1>12 DEF Next, Ask, Step

\* Every read is settled in every reachable state.
LEMMA ReadInvHolds == Spec => []ReadInv
  <1>1. Init => ReadInv
    BY NoReadSettled DEF Init, ReadInv
  <1>2. CommitInv /\ ReadInv /\ [Next]_vars => ReadInv'
    BY NextReads
  <1> QED
    BY <1>1, <1>2, CommitInvHolds, PTL DEF Spec

\* Paging loses nothing: a getQuads whose pages other processes' commits fall
\* between still returns every matching row that was there all along, and none
\* that was never committed, for any page size.
THEOREM PagingLosesNothing == Spec => []PagesLoseNothing
  <1>1. ReadInv => PagesLoseNothing
    BY DEF ReadInv, ReadSettled, PagesLoseNothing
  <1> QED
    BY <1>1, ReadInvHolds, PTL

\* countQuads counts no quad twice, for any page size and any interference.
THEOREM CountingIsExact == Spec => []CountsOnce
  <1>1. ReadInv => CountsOnce
    BY DEF ReadInv, ReadSettled, CountsOnce
  <1> QED
    BY <1>1, ReadInvHolds, PTL

\* The anchor getQuads pages on from is the greatest key it has read, whatever
\* comes and goes between the pages.
THEOREM AnchorStaysLast == Spec => []AnchorIsLast
  <1>1. ReadInv => AnchorIsLast
    BY DEF ReadInv, ReadSettled, AnchorIsLast
  <1> QED
    BY <1>1, ReadInvHolds, PTL
=============================================================================
