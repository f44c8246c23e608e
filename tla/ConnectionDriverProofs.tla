---------------------- MODULE ConnectionDriverProofs ----------------------
(***************************************************************************)
(* Theorems about ConnectionDriver, for any tasks making any calls.  The   *)
(* argument is about one task at a time: before its call none of its rows  *)
(* are seen; once the call has settled, nobody can take back what was      *)
(* committed or write its rows again; and a transaction nothing overlaps   *)
(* keeps the handle until it ends.                                         *)
(***************************************************************************)
EXTENDS ConnectionDriver, TLAPS

\* All the rows t could write.
Mine(t) == {t} \X {1, 2}

\* Between its BEGIN and its end, a transaction nothing has overlapped still
\* has the handle (or it was closed), and what it wrote so far is pending.
AloneIntact(t) ==
    /\ call[t] = "transaction"
    /\ pc[t] = "fn" =>
          /\ Mine(t) \cap db = {}
          /\ handle # "auto"
          /\ \A u \in Task \ {t} : pc[u] # "fn"
          /\ handle = "open" => \A i \in 1..2 : i <= done[t] => <<t, i>> \in view

TaskInv(t) ==
    /\ pc[t] = "idle" => call[t] = "none" /\ done[t] = 0 /\ Mine(t) \cap view = {}
    /\ pc[t] = "fn" => call[t] = "transaction"
    /\ t \in alone => AloneIntact(t)

HandleInv == TypeOK /\ NothingLeftOpen /\ db \subseteq view

DriverInv == HandleInv /\ \A t \in Task : TaskInv(t)

-----------------------------------------------------------------------------
\* Every step keeps the variables in their types, keeps what is committed
\* visible, and leaves no transaction open without a task in it.
LEMMA NextHandle == HandleInv /\ (\A t \in Task : TaskInv(t)) /\ [Next]_vars => HandleInv'
  <1> SUFFICES ASSUME HandleInv, \A t \in Task : TaskInv(t), [Next]_vars
               PROVE  HandleInv'
    OBVIOUS
  <1> USE DEF HandleInv, TypeOK, NothingLeftOpen, Row
  <1>1. ASSUME NEW t \in Task, Execute(t)
        PROVE  HandleInv'
    BY <1>1 DEF Execute, Call, Writable, Write
  <1>2. ASSUME NEW t \in Task, ExecuteFails(t)
        PROVE  HandleInv'
    BY <1>2 DEF ExecuteFails, Call
  <1>3. ASSUME NEW t \in Task, Batch(t)
        PROVE  HandleInv'
    BY <1>3 DEF Batch, Call, Write
  <1>4. ASSUME NEW t \in Task, BatchFails(t)
        PROVE  HandleInv'
    BY <1>4 DEF BatchFails, Call, RollBack
  <1>5. ASSUME NEW t \in Task, Begin(t)
        PROVE  HandleInv'
    BY <1>5 DEF Begin, Call
  <1>6. ASSUME NEW t \in Task, BeginFails(t)
        PROVE  HandleInv'
    BY <1>6 DEF BeginFails, Call
  <1>7. ASSUME NEW t \in Task, TxExecute(t)
        PROVE  HandleInv'
    BY <1>7 DEF TxExecute, Writable, Write
  <1>8. ASSUME NEW t \in Task, Commit(t)
        PROVE  HandleInv'
    BY <1>8 DEF Commit
  <1>9. ASSUME NEW t \in Task, Throws(t)
        PROVE  HandleInv'
    BY <1>9 DEF Throws, RollBack
  <1>10. ASSUME Close
         PROVE  HandleInv'
    BY <1>10 DEF Close
  <1>11. ASSUME OtherProcess
         PROVE  HandleInv'
    BY <1>11 DEF OtherProcess
  <1>12. ASSUME UNCHANGED vars
         PROVE  HandleInv'
    BY <1>12 DEF vars
  <1> QED
    BY <1>1, <1>2, <1>3, <1>4, <1>5, <1>6, <1>7, <1>8, <1>9, <1>10, <1>11, <1>12
       DEF Next

-----------------------------------------------------------------------------
\* A step of one task, seen by another: what was committed stays committed, the
\* other's rows are only ever taken away, and its own place does not change.
LEMMA OthersStep ==
    ASSUME NEW t \in Task, NEW u \in Task \ {t}, HandleInv,
           \/ Execute(u) \/ ExecuteFails(u) \/ Batch(u) \/ BatchFails(u)
           \/ Begin(u) \/ BeginFails(u) \/ TxExecute(u) \/ Commit(u) \/ Throws(u)
    PROVE  /\ db \subseteq db'
           /\ \A i \in 1..2 : <<t, i>> \in view' => <<t, i>> \in view
           /\ pc'[t] = pc[t] /\ call'[t] = call[t] /\ done'[t] = done[t]
  <1> USE DEF HandleInv, TypeOK, NothingLeftOpen, Row
  <1>1. CASE Execute(u)
    BY <1>1 DEF Execute, Call, Writable, Write
  <1>2. CASE ExecuteFails(u)
    BY <1>2 DEF ExecuteFails, Call
  <1>3. CASE Batch(u)
    BY <1>3 DEF Batch, Call, Write
  <1>4. CASE BatchFails(u)
    BY <1>4 DEF BatchFails, Call, RollBack
  <1>5. CASE Begin(u)
    BY <1>5 DEF Begin, Call
  <1>6. CASE BeginFails(u)
    BY <1>6 DEF BeginFails, Call
  <1>7. CASE TxExecute(u)
    BY <1>7 DEF TxExecute, Writable, Write
  <1>8. CASE Commit(u)
    BY <1>8 DEF Commit
  <1>9. CASE Throws(u)
    BY <1>9 DEF Throws, RollBack
  <1> QED
    BY <1>1, <1>2, <1>3, <1>4, <1>5, <1>6, <1>7, <1>8, <1>9

\* Close and the other process take no committed row away and add none to view.
LEMMA OutsideStep ==
    ASSUME HandleInv, Close \/ OtherProcess \/ UNCHANGED vars
    PROVE  /\ db' = db /\ view' \subseteq view
           /\ handle' \in {handle, "closed"}
           /\ handle' = "open" => view' = view
           /\ UNCHANGED <<pc, call, done, alone>>
  <1>1. CASE Close
    BY <1>1 DEF Close, HandleInv
  <1>2. CASE OtherProcess
    BY <1>2 DEF OtherProcess
  <1>3. CASE UNCHANGED vars
    BY <1>3 DEF vars
  <1> QED
    BY <1>1, <1>2, <1>3

\* A step of its own call keeps what is known of the task: before the call none
\* of its rows are seen, and a lone transaction still has the handle.
LEMMA OwnStepTask ==
    ASSUME NEW t \in Task, HandleInv, TaskInv(t),
           \/ Execute(t) \/ ExecuteFails(t) \/ Batch(t) \/ BatchFails(t)
           \/ Begin(t) \/ BeginFails(t) \/ TxExecute(t) \/ Commit(t) \/ Throws(t)
    PROVE  TaskInv(t)'
  <1> USE DEF HandleInv, TypeOK, TaskInv, AloneIntact, Mine
  <1>1. CASE Execute(t)
    BY <1>1 DEF Execute, Call
  <1>2. CASE ExecuteFails(t)
    BY <1>2 DEF ExecuteFails, Call
  <1>3. CASE Batch(t)
    BY <1>3 DEF Batch, Call
  <1>4. CASE BatchFails(t)
    BY <1>4 DEF BatchFails, Call
  <1>5. CASE Begin(t)
    <2>1. pc[t] = "idle" /\ pc'[t] = "fn" /\ call'[t] = "transaction" /\ done'[t] = 0
      BY <1>5 DEF Begin, Call
    <2>2. Mine(t) \cap db' = {} /\ handle' = "open"
      BY <1>5 DEF Begin, Call
    <2>3. t \in alone' => \A u \in Task \ {t} : pc'[u] # "fn"
      BY <1>5 DEF Begin, Call
    <2> QED
      BY <2>1, <2>2, <2>3
  <1>6. CASE BeginFails(t)
    BY <1>6 DEF BeginFails, Call
  <1>7. CASE TxExecute(t)
    <2>1. /\ pc' = pc /\ call' = call /\ alone' = alone /\ handle' = handle
          /\ pc[t] = "fn" /\ done[t] \in 0..1 /\ done'[t] = done[t] + 1
      BY <1>7 DEF TxExecute
    <2>2. handle = "open" => db' = db /\ view' = view \cup {<<t, done[t] + 1>>}
      BY <1>7 DEF TxExecute, Write
    <2>3. t \in alone => handle = "open"
      BY <1>7, <2>1 DEF TxExecute, Writable
    <2>4. t \in alone => \A i \in 1..2 : i <= done'[t] => <<t, i>> \in view'
      <3> SUFFICES ASSUME t \in alone, NEW i \in 1..2, i <= done'[t]
                   PROVE  <<t, i>> \in view'
        OBVIOUS
      <3>1. CASE i <= done[t]
        BY <3>1, <2>1, <2>2, <2>3
      <3>2. CASE i = done[t] + 1
        BY <3>2, <2>2, <2>3
      <3> QED
        BY <3>1, <3>2, <2>1
    <2> QED
      BY <2>1, <2>2, <2>3, <2>4
  <1>8. CASE Commit(t)
    BY <1>8 DEF Commit
  <1>9. CASE Throws(t)
    BY <1>9 DEF Throws
  <1> QED
    BY <1>1, <1>2, <1>3, <1>4, <1>5, <1>6, <1>7, <1>8, <1>9

\* A step of another task's call keeps it too: a lone transaction is the only
\* one in its function, and a call that begins ends its being alone.
LEMMA OthersStepTask ==
    ASSUME NEW t \in Task, NEW u \in Task \ {t}, HandleInv, TaskInv(t),
           \/ Execute(u) \/ ExecuteFails(u) \/ Batch(u) \/ BatchFails(u)
           \/ Begin(u) \/ BeginFails(u) \/ TxExecute(u) \/ Commit(u) \/ Throws(u)
    PROVE  TaskInv(t)' /\ (t \in alone' => t \in alone)
  <1>1. /\ \A i \in 1..2 : <<t, i>> \in view' => <<t, i>> \in view
        /\ pc'[t] = pc[t] /\ call'[t] = call[t] /\ done'[t] = done[t]
    BY OthersStep
  <1>2. pc[t] = "idle" => Mine(t) \cap view' = {}
    <2> SUFFICES ASSUME pc[t] = "idle", NEW i \in 1..2
                 PROVE  <<t, i>> \notin view'
      BY DEF Mine
    <2> QED
      BY <1>1 DEF TaskInv, Mine
  <1>3. t \in alone' => t \in alone /\ pc[u] = "fn"
    BY DEF Execute, ExecuteFails, Batch, BatchFails, Begin, BeginFails, TxExecute,
           Commit, Throws
  <1>4. t \in alone' => AloneIntact(t)'
    BY <1>1, <1>3 DEF TaskInv, AloneIntact
  <1> QED
    BY <1>1, <1>2, <1>3, <1>4 DEF TaskInv

\* Every step keeps what is known of every task.
LEMMA NextTask ==
    HandleInv /\ (\A t \in Task : TaskInv(t)) /\ [Next]_vars => \A t \in Task : TaskInv(t)'
  <1> SUFFICES ASSUME HandleInv, \A t \in Task : TaskInv(t), [Next]_vars, NEW t \in Task
               PROVE  TaskInv(t)'
    OBVIOUS
  <1>1. CASE Close \/ OtherProcess \/ UNCHANGED vars
    <2>1. /\ db' = db /\ view' \subseteq view /\ handle' \in {handle, "closed"}
          /\ handle' = "open" => view' = view
          /\ UNCHANGED <<pc, call, done, alone>>
      BY <1>1, OutsideStep
    <2> QED
      BY <2>1 DEF TaskInv, AloneIntact, Mine, HandleInv, TypeOK
  <1>2. ASSUME NEW u \in Task,
               \/ Execute(u) \/ ExecuteFails(u) \/ Batch(u) \/ BatchFails(u)
               \/ Begin(u) \/ BeginFails(u) \/ TxExecute(u) \/ Commit(u) \/ Throws(u)
        PROVE  TaskInv(t)'
    <2>1. CASE u = t
      BY <1>2, <2>1, OwnStepTask
    <2>2. CASE u # t
      BY <1>2, <2>2, OthersStepTask
    <2> QED
      BY <2>1, <2>2
  <1> QED
    BY <1>1, <1>2 DEF Next

-----------------------------------------------------------------------------
BatchKept(t) == call[t] = "batch" => KeepsItsWord(t)

CallKept(t) ==
    (\A u \in Task : call[u] # "transaction") \/ t \in alone => KeepsItsWord(t)

\* Once a call has settled as it said, no step of another task undoes it.
LEMMA OthersStepWord ==
    ASSUME NEW t \in Task, NEW u \in Task \ {t}, HandleInv, KeepsItsWord(t),
           \/ Execute(u) \/ ExecuteFails(u) \/ Batch(u) \/ BatchFails(u)
           \/ Begin(u) \/ BeginFails(u) \/ TxExecute(u) \/ Commit(u) \/ Throws(u)
    PROVE  KeepsItsWord(t)'
  <1>1. /\ db \subseteq db'
        /\ \A i \in 1..2 : <<t, i>> \in view' => <<t, i>> \in view
        /\ pc'[t] = pc[t] /\ call'[t] = call[t]
    BY OthersStep
  <1>2. Rows(t)' = Rows(t)
    BY <1>1 DEF Rows
  <1>3. Rows(t) \cap view' \subseteq view
    <2> SUFFICES ASSUME NEW r \in Rows(t), r \in view'
                 PROVE  r \in view
      OBVIOUS
    <2>1. PICK i \in 1..2 : r = <<t, i>>
      BY DEF Rows
    <2> QED
      BY <2>1, <1>1
  <1> QED
    BY <1>1, <1>2, <1>3 DEF KeepsItsWord

\* The step that settles a call settles it as it says: a batch always, any call
\* without transactions around, and a transaction nothing overlapped.
LEMMA OwnStepWord ==
    ASSUME NEW t \in Task, HandleInv, \A u \in Task : TaskInv(u),
           \/ Execute(t) \/ ExecuteFails(t) \/ Batch(t) \/ BatchFails(t)
           \/ Begin(t) \/ BeginFails(t) \/ TxExecute(t) \/ Commit(t) \/ Throws(t)
    PROVE  BatchKept(t)' /\ CallKept(t)'
  <1> USE DEF HandleInv, TypeOK, BatchKept, CallKept, KeepsItsWord, Rows, Mine
  <1>1. CASE Execute(t)
    <2>1. call'[t] = "execute" /\ t \notin alone'
      BY <1>1 DEF Execute, Call
    <2>2. ASSUME \A u \in Task : call'[u] # "transaction"
          PROVE  handle # "open"
      <3>1. \A u \in Task : pc[u] # "fn"
        BY <1>1, <2>2 DEF Execute, Call, TaskInv
      <3> QED
        BY <3>1 DEF NothingLeftOpen
    <2>3. handle # "open" => <<t, 1>> \in db'
      BY <1>1 DEF Execute, Write
    <2>4. pc'[t] = "resolved"
      BY <1>1 DEF Execute, Call
    <2> QED
      BY <2>1, <2>2, <2>3, <2>4
  <1>2. CASE ExecuteFails(t)
    BY <1>2 DEF ExecuteFails, Call, TaskInv
  <1>3. CASE Batch(t)
    BY <1>3 DEF Batch, Call, Write
  <1>4. CASE BatchFails(t)
    BY <1>4 DEF BatchFails, Call, RollBack, TaskInv
  <1>5. CASE Begin(t)
    BY <1>5 DEF Begin, Call
  <1>6. CASE BeginFails(t)
    BY <1>6 DEF BeginFails, Call, TaskInv
  <1>7. CASE TxExecute(t)
    BY <1>7 DEF TxExecute
  <1>8. CASE Commit(t)
    <2>1. /\ call'[t] = "transaction" /\ alone' = alone /\ pc'[t] = "resolved"
          /\ db' = view /\ handle = "open" /\ done[t] = 2 /\ pc[t] = "fn"
      BY <1>8 DEF Commit, TaskInv
    <2>2. t \in alone => \A i \in 1..2 : <<t, i>> \in view
      <3> SUFFICES ASSUME t \in alone, NEW i \in 1..2
                   PROVE  <<t, i>> \in view
        OBVIOUS
      <3>1. AloneIntact(t)
        BY DEF TaskInv
      <3>2. i <= done[t]
        BY <2>1
      <3> QED
        BY <2>1, <3>1, <3>2 DEF AloneIntact
    <2>3. t \in alone => Rows(t)' \subseteq db'
      BY <2>1, <2>2
    <2> QED
      BY <2>1, <2>3
  <1>9. CASE Throws(t)
    <2>1. /\ call'[t] = "transaction" /\ alone' = alone /\ pc'[t] = "rejected"
          /\ view' = db /\ pc[t] = "fn"
      BY <1>9 DEF Throws, RollBack, TaskInv
    <2>2. t \in alone => Mine(t) \cap view' = {}
      BY <2>1 DEF TaskInv, AloneIntact
    <2> QED
      BY <2>1, <2>2
  <1> QED
    BY <1>1, <1>2, <1>3, <1>4, <1>5, <1>6, <1>7, <1>8, <1>9

\* No call is known to be a transaction that was not one, or to come, and no
\* settled call begins again: what was assumed of a task after a step of
\* another was assumed of it before.
LEMMA AssumedBefore ==
    ASSUME NEW t \in Task, NEW u \in Task \ {t}, HandleInv, \A v \in Task : TaskInv(v),
           \/ Execute(u) \/ ExecuteFails(u) \/ Batch(u) \/ BatchFails(u)
           \/ Begin(u) \/ BeginFails(u) \/ TxExecute(u) \/ Commit(u) \/ Throws(u),
           (\A v \in Task : call'[v] # "transaction") \/ t \in alone'
    PROVE  (\A v \in Task : call[v] # "transaction") \/ t \in alone
  <1>1. CASE t \in alone'
    BY <1>1, OthersStepTask
  <1>2. CASE \A v \in Task : call'[v] # "transaction"
    <2>1. ASSUME NEW v \in Task, v # u
          PROVE  call'[v] = call[v]
      BY <2>1, OthersStep
    <2>2. call[u] # "transaction"
      BY <1>2 DEF Execute, ExecuteFails, Batch, BatchFails, Begin, BeginFails,
                  TxExecute, Commit, Throws, Call, TaskInv
    <2> QED
      BY <1>2, <2>1, <2>2
  <1> QED
    BY <1>1, <1>2

WordInv == \A t \in Task : BatchKept(t) /\ CallKept(t)

\* Every step keeps every settled call's word.
LEMMA NextWord ==
    HandleInv /\ (\A t \in Task : TaskInv(t)) /\ WordInv /\ [Next]_vars => WordInv'
  <1> SUFFICES ASSUME HandleInv, \A t \in Task : TaskInv(t), WordInv, [Next]_vars,
                      NEW t \in Task
               PROVE  BatchKept(t)' /\ CallKept(t)'
    BY DEF WordInv
  <1>1. CASE Close \/ OtherProcess \/ UNCHANGED vars
    <2>1. db' = db /\ view' \subseteq view /\ UNCHANGED <<pc, call, done, alone>>
      BY <1>1, OutsideStep
    <2>2. KeepsItsWord(t) => KeepsItsWord(t)'
      BY <2>1 DEF KeepsItsWord, Rows
    <2> QED
      BY <2>1, <2>2 DEF WordInv, BatchKept, CallKept
  <1>2. ASSUME NEW u \in Task,
               \/ Execute(u) \/ ExecuteFails(u) \/ Batch(u) \/ BatchFails(u)
               \/ Begin(u) \/ BeginFails(u) \/ TxExecute(u) \/ Commit(u) \/ Throws(u)
        PROVE  BatchKept(t)' /\ CallKept(t)'
    <2>1. CASE u = t
      BY <1>2, <2>1, OwnStepWord
    <2>2. CASE u # t
      <3>1. KeepsItsWord(t) => KeepsItsWord(t)'
        BY <1>2, <2>2, OthersStepWord
      <3>2. call'[t] = call[t]
        BY <1>2, <2>2, OthersStep
      <3>3. BatchKept(t)'
        BY <3>1, <3>2 DEF WordInv, BatchKept
      <3>4. CallKept(t)'
        BY <1>2, <2>2, <3>1, AssumedBefore DEF WordInv, CallKept
      <3> QED
        BY <3>3, <3>4
    <2> QED
      BY <2>1, <2>2
  <1> QED
    BY <1>1, <1>2 DEF Next

-----------------------------------------------------------------------------
\* The whole invariant holds at the start.
LEMMA InitDriver == Init => DriverInv /\ WordInv
  <1> SUFFICES ASSUME Init
               PROVE  DriverInv /\ WordInv
    OBVIOUS
  <1>1. HandleInv
    <2>1. /\ pc \in [Task -> {"idle", "fn", "resolved", "rejected"}]
          /\ call \in [Task -> {"none", "execute", "batch", "transaction"}]
          /\ done \in [Task -> 0..2]
      BY DEF Init
    <2>2. db \subseteq Row /\ view \subseteq Row /\ alone \subseteq Task
      BY DEF Init
    <2>3. busy \in BOOLEAN /\ handle = "auto" /\ view = db
      BY Zenon DEF Init
    <2> QED
      BY <2>1, <2>2, <2>3 DEF HandleInv, TypeOK, NothingLeftOpen
  <1>2. \A t \in Task : pc[t] = "idle" /\ call[t] = "none" /\ done[t] = 0 /\ t \notin alone
    BY DEF Init
  <1>3. \A t \in Task : TaskInv(t)
    BY <1>2 DEF Init, TaskInv, Mine
  <1>4. WordInv
    BY <1>2 DEF WordInv, BatchKept, CallKept, KeepsItsWord
  <1> QED
    BY <1>1, <1>3, <1>4 DEF DriverInv

\* The whole invariant holds in every reachable state.
LEMMA DriverInvHolds == Spec => [](DriverInv /\ WordInv)
  <1>1. DriverInv /\ WordInv /\ [Next]_vars => (DriverInv /\ WordInv)'
    BY NextHandle, NextTask, NextWord DEF DriverInv
  <1> QED
    BY <1>1, InitDriver, PTL DEF Spec

\* Every variable of the driver keeps its type in every reachable state.
THEOREM DriverTypeCorrect == Spec => []TypeOK
  <1>1. DriverInv => TypeOK
    BY DEF DriverInv, HandleInv
  <1> QED
    BY <1>1, DriverInvHolds, PTL

\* The handle is never left inside a transaction that no task will end, however
\* any number of calls overlap and fail, and outside one it sees what is committed.
THEOREM NothingStaysOpen == Spec => []NothingLeftOpen
  <1>1. DriverInv => NothingLeftOpen
    BY DEF DriverInv, HandleInv
  <1> QED
    BY <1>1, DriverInvHolds, PTL

\* A batch that resolved is committed entirely and one that was rejected left
\* nothing, whatever transactions other tasks have open on the handle.
THEOREM BatchesStayAtomic == Spec => []BatchesAreAtomic
  <1>1. WordInv => BatchesAreAtomic
    BY DEF WordInv, BatchKept, BatchesAreAtomic
  <1> QED
    BY <1>1, DriverInvHolds, PTL

\* What a settled promise says of its rows is so for every call, if no task
\* uses transaction(), and for a transaction that no call overlaps.
THEOREM SettledCallsAreTrue == Spec => []CallsKeepTheirWord
  <1>1. WordInv => CallsKeepTheirWord
    BY DEF WordInv, CallKept, CallsKeepTheirWord
  <1> QED
    BY <1>1, DriverInvHolds, PTL
=============================================================================
