----------------------------- MODULE PatchStore -----------------------------
(***************************************************************************)
(* What a SqliteStore promises: a set of quads that changes only by        *)
(* whole patches and single rows, each in one step.  A transaction holds   *)
(* at most one verdict per quad, and nothing it holds shows in the data    *)
(* before its commit.  There are no processes, locks or failures here.     *)
(***************************************************************************)
CONSTANTS Key, Tx

VARIABLES
    data,   \* the quads of the store
    patch   \* patch[t][k]: what transaction t will do to quad k

vars == <<data, patch>>

Verdict == {"keep", "add", "delete"}

NoPatch == [k \in Key |-> "keep"]

Init == data = {} /\ patch = [t \in Tx |-> NoPatch]

TypeOK == data \subseteq Key /\ patch \in [Tx -> [Key -> Verdict]]

Decide(t, k, v) ==
    /\ patch' = [patch EXCEPT ![t] = [patch[t] EXCEPT ![k] = v]]
    /\ UNCHANGED data

Add(t, k) == Decide(t, k, "add")

\* Deleting a quad the transaction was going to add takes the addition back.
Delete(t, k) == Decide(t, k, IF patch[t][k] = "add" THEN "keep" ELSE "delete")

\* Patches are forgotten by a rollback, or with the process that held them.
Forget(T) ==
    /\ patch' = [t \in Tx |-> IF t \in T THEN NoPatch ELSE patch[t]]
    /\ UNCHANGED data

\* The patch stays in the transaction: committing again applies it again.
Commit(t) ==
    /\ data' = {k \in Key : \/ patch[t][k] = "add"
                            \/ k \in data /\ patch[t][k] = "keep"}
    /\ UNCHANGED patch

\* addQuad and removeQuad change one row, outside any transaction.
PutRow(k) == data' = data \cup {k} /\ UNCHANGED patch

DropRow(k) == data' = data \ {k} /\ UNCHANGED patch

Next ==
    \/ \E t \in Tx, k \in Key : Add(t, k) \/ Delete(t, k)
    \/ \E T \in SUBSET Tx : Forget(T)
    \/ \E t \in Tx : Commit(t)
    \/ \E k \in Key : PutRow(k) \/ DropRow(k)

Spec == Init /\ [][Next]_vars
=============================================================================
