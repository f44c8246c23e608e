---------------------------- MODULE IndexedStore ----------------------------
(***************************************************************************)
(* What the L2 store promises of its calls: a commit, however many batches *)
(* and awaits it takes, changes the quads its patch names in one step, at  *)
(* its end, and no others.  There are no batches, chunks or rebuilds here. *)
(* While calls that overlap are about different quads (apart), each keeps  *)
(* its promise beside the others; after that nothing is promised.          *)
(***************************************************************************)
CONSTANTS Quad, Task

VARIABLES
    data,   \* the quads, without the work of calls under way
    calls,  \* calls[t]: the patch t is committing, as a set of one, or {}
    sound,  \* the search index is not known to need a rebuild
    apart   \* calls that overlapped were about different quads

vars == <<data, calls, sound, apart>>

CallType == [ins : SUBSET Quad, del : SUBSET Quad, replace : BOOLEAN]

Init == data = {} /\ calls = [t \in Task |-> {}] /\ sound = TRUE /\ apart = TRUE

\* The quads the commit of p may change: a replace import changes any.
About(p) == IF p.replace THEN Quad ELSE p.ins \cup p.del

\* The quads there are when those before are S and p is committed in full, when
\* only its deletions are, when only its wipe is.
Wiped(p, S) == IF p.replace THEN {} ELSE S
Less(p, S) == Wiped(p, S) \ p.del
After(p, S) == Less(p, S) \cup p.ins

Call(t, p) ==
    /\ calls[t] = {} /\ calls' = [calls EXCEPT ![t] = {p}]
    /\ \A u \in Task \ {t} : \A r \in calls[u] : About(r) \cap About(p) = {}
    /\ UNCHANGED <<data, sound>>

\* The call of t returns, having made S of the quads.
Returns(t, S) == data' = S /\ calls' = [calls EXCEPT ![t] = {}]

\* It resolves: the whole patch is there.  The index is as good as before, unless
\* this store leaves it to a reindex.
Commit(t) ==
    /\ \E p \in calls[t] : Returns(t, After(p, data))
    /\ sound' => sound

\* It throws after its projection failed: the insertions are taken back.
TakeBack(t) ==
    /\ \E p \in calls[t] : Returns(t, Less(p, data))
    /\ UNCHANGED sound

\* It throws before any of the patch is there; a replace import may have wiped.
Refuse(t) ==
    /\ \E p \in calls[t] : \E S \in {data, Wiped(p, data)} : Returns(t, S)
    /\ UNCHANGED sound

\* The calls of T, or the process, fail half-way: any part of the work on what
\* their patches name may be there, and only a reindex makes the index sound.
Fail(T) ==
    LET patches == UNION {calls[t] : t \in T}
        about == UNION {About(p) : p \in patches}
    IN  /\ data' \ about = data \ about
        /\ data' \subseteq data \cup UNION {p.ins : p \in patches}
        /\ calls' = [t \in Task |-> IF t \in T THEN {} ELSE calls[t]]
        /\ ~sound'

\* A reindex that had the store to itself ends.
Reindexed ==
    /\ \A t \in Task : calls[t] = {}
    /\ sound'
    /\ UNCHANGED <<data, calls>>

Keeps ==
    \/ \E t \in Task : \/ \E p \in CallType : Call(t, p)
                       \/ Commit(t) \/ TakeBack(t) \/ Refuse(t)
    \/ \E T \in SUBSET Task : Fail(T)
    \/ Reindexed

Next == ~apart' \/ (Keeps /\ UNCHANGED apart)

Spec == Init /\ [][Next]_vars
=============================================================================
