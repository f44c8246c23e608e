------------------------- MODULE SearchIndexProofs -------------------------
(***************************************************************************)
(* The index of the L2 store is exact, a failed commit takes back what it  *)
(* inserted, and what a search answers beside any writers: for any tasks,  *)
(* quads, patches, texts, sizes, requests and limits.                      *)
(***************************************************************************)
EXTENDS HybridSearch, QuadStoreProofs

\* q has a chunk for each part of its text, each with its vector.
Indexed(q, C, V) ==
    \A k \in 1..Parts[q] : \E c \in C :
        c.quad = q /\ c.part = k /\ (Vectors => c.id \in V)

\* The same, but for the chunks D still to insert and the vectors staged in S.
Pending(q, S, D, C, V) ==
    \A k \in 1..Parts[q] :
        \/ <<q, k>> \in D
        \/ \E c \in C : /\ c.quad = q /\ c.part = k
                        /\ Vectors => c.id \in V \/ \E i \in DOMAIN S : Has(S, i, "vec+", c.id)

\* Whose chunks or vectors are deleted is deleted too.
DeletesThrough(S) ==
    \A i \in DOMAIN S, q \in Quad, op \in {"vec-", "chunks-"} :
        Has(S, i, op, q) => \E j \in DOMAIN S : i < j /\ Has(S, j, "quads-", q)

\* Each part of a text has one chunk, and only texts in scope have any.
OnePerPart(C) == \A c, d \in C : c.quad = d.quad /\ c.part = d.part => c = d
OfTexts(C) == \A c \in C : c.quad \in Scope /\ c.part \in 1..Parts[c.quad]

\* What a task at place p has in hand: staged S, batch B, chunks D to insert, its
\* rebuild at r.
InHand(p, S, B, D, r, Q, C, V) ==
    /\ B \subseteq Scope
    /\ p \in {"wipe", "lookup"} => B = {}
    /\ p \in {"lookup", "flush", "cleanup"} => DeletesThrough(S)
    /\ \A i \in DOMAIN S, q \in Quad : Has(S, i, "quads+", q) => p = "flush" /\ q \in B
    /\ p \in {"sweep", "cleanup"} => \A i \in DOMAIN S : S[i].of \subseteq B
    /\ p \in {"flush", "sweep"} => \A q \in B :
          Unchunked(q, C) \/ \E i \in DOMAIN S : Has(S, i, "chunks-", q)
    /\ p = "embed" => \A q \in B : Unchunked(q, C)
    /\ p = "insert" => /\ \A d \in D, c \in C : ~(c.quad = d[1] /\ c.part = d[2])
                       /\ \A q \in B : Pending(q, S, D, C, V)
    /\ p = "cleanup" => \A q \in B : q \notin Q \/ \E i \in DOMAIN S : Has(S, i, "quads-", q)
    /\ p \in {"wipe", "lookup", "flush", "cleanup"} => ~r.on
    /\ r.on /\ r.last => \A q \in Q : q <= r.anchor

\* A task at p owes q its index: it will index or delete q before it ends well.
Owes(p, S, B, l, r, q) ==
    \/ p \in {"lookup", "flush"} /\ l /\ (q \in B \/ \E i \in DOMAIN S : Has(S, i, "quads-", q))
    \/ p \in {"embed", "insert", "cleanup", "sweep"} /\ q \in B
    \/ r.on /\ q > r.anchor

TaskInHand(t) == InHand(pc[t], staged[t], batch[t], todo[t], scan[t], quads, chunks, vec)
Owed(t, q) == Owes(pc[t], staged[t], batch[t], landed[t], scan[t], q)

\* The task in "alone" is idle again or rebuilds with all others idle.
Lone ==
    \A t \in index.alone :
        /\ index.alone = {t}
        /\ pc[t] = "idle" \/ scan[t].on
        /\ scan[t].on => \A u \in Task \ {t} : pc[u] = "idle"

\* The index is, or will be, what the quads say.
Promised == index.is # "doubtful" \/ \E t \in index.alone : scan[t].on

IndexInv ==
    /\ Lone
    /\ apart =>
        /\ OnePerPart(chunks) /\ OfTexts(chunks)
        /\ \A t \in Task : patch[t].ins \subseteq Scope /\ TaskInHand(t)
        /\ Promised => \A q \in quads \cap Scope :
              Indexed(q, chunks, vec) \/ \E t \in Task : Owed(t, q)

-----------------------------------------------------------------------------
\* What the patch P has of its insertions for new, and what it leaves of the
\* quads that were there "before" when the commit was called.
Fresh(P, before) == {q \in P.ins : q \notin before \/ q \in P.del}
Spared(P, before) == (P.ins \cap before) \ P.del
NamedBy(P) == P.ins \cup P.del

\* How far a commit at place p is with its patch P: known K, looking for L,
\* staged S, batch B, its rebuild at r.
Underway(p, P, before, K, L, S, B, r, Q) ==
    /\ p = "idle" => K = {}
    /\ p = "wipe" => P.replace /\ before = {} /\ K = {} /\ L = P.ins
    /\ p = "lookup" =>
          /\ L \subseteq P.ins /\ K \subseteq before
          /\ \A q \in P.ins \ (P.del \cup L) : q \in before => q \in K
          /\ Q \cap NamedBy(P) \subseteq before
          /\ \A q \in P.del \cap Q : \E i \in DOMAIN S : Has(S, i, "quads-", q)
          /\ \A i \in DOMAIN S : S[i].op = "quads-" => S[i].of \subseteq P.del
    /\ p = "flush" =>
          /\ Q \cap NamedBy(P) \subseteq before \cup B
          /\ \A q \in (P.del \ B) \cap Q : \E i \in DOMAIN S : Has(S, i, "quads-", q)
          /\ \A i \in DOMAIN S : S[i].op = "quads-" => S[i].of \subseteq P.del \cup B
    /\ p \in {"lookup", "flush"} => Spared(P, before) \subseteq Q
    /\ p = "flush" => B = Fresh(P, before)
    /\ p \in {"embed", "insert", "cleanup"} /\ ~r.on =>
          B = Fresh(P, before) /\ Q \cap (NamedBy(P) \ B) = Spared(P, before)

Prior(t) == IF patch[t].replace THEN {} ELSE start[t]

TaskUnderway(t) ==
    Underway(pc[t], patch[t], Prior(t), known[t], look[t], staged[t], batch[t], scan[t], quads)

UndoInv == apart => \A t \in Task : TaskUnderway(t)

-----------------------------------------------------------------------------
\* What is staged.

\* Each statement of a group is there for each quad.
LEMMA PerSliceCovers ==
    ASSUME NEW Q \in SUBSET Quad, NEW n \in Nat, n > 0,
           NEW ops, Len(ops) \in {1, 2, 3}, NEW k \in 1..Len(ops), NEW q \in Q
    PROVE  \E i \in DOMAIN PerSlice(Q, n, ops) : Has(PerSlice(Q, n, ops), i, ops[k], q)
  <1>1. PICK s \in 1..SliceCount(Q, n) : q \in Slice(Q, n, s)
    BY SliceFacts
  <1> DEFINE S == PerSlice(Q, n, ops)
             i == Position(Len(ops), s, k)
  <1>2. i \in DOMAIN S /\ S[i] = About(Q, n, ops, s, k)
    BY PerSliceShape
  <1> HIDE DEF S, i
  <1>3. Has(S, i, ops[k], q)
    BY <1>1, <1>2 DEF Has, About
  <1> QED
    BY <1>2, <1>3 DEF S

\* What an operation before the last of a group names, the last one names later.
LEMMA PerSliceThrough ==
    ASSUME NEW Q \in SUBSET Quad, NEW n \in Nat, n > 0,
           NEW ops, Len(ops) \in {1, 2, 3},
           NEW i \in DOMAIN PerSlice(Q, n, ops), NEW op, NEW q,
           Has(PerSlice(Q, n, ops), i, op, q), op # ops[Len(ops)]
    PROVE  \E j \in DOMAIN PerSlice(Q, n, ops) :
              i < j /\ Has(PerSlice(Q, n, ops), j, ops[Len(ops)], q)
  <1> DEFINE S == PerSlice(Q, n, ops)
             L == Len(ops)
  <1>0. Grouped(S, Q, n, ops)
    BY PerSliceShape
  <1>1. PICK s \in Nat, k \in Nat : Stands(S, i, Q, n, ops, s, k)
    BY <1>0 DEF Grouped
  <1> DEFINE j == Position(L, s, L)
  <1>2. s \in 1..SliceCount(Q, n) /\ k \in 1..L /\ i = Position(L, s, k)
    BY <1>1 DEF Stands
  <1>3. op = ops[k] /\ q \in Slice(Q, n, s)
    BY <1>1 DEF Stands, About, Has
  <1>4. k < L
    BY <1>2, <1>3
  <1>5. L \in 1..L
    OBVIOUS
  <1>6. j \in DOMAIN S /\ S[j] = About(Q, n, ops, s, L)
    BY <1>2, <1>5, PerSliceShape
  <1>7. i < j
    <2> HIDE DEF S
    <2>1. CASE L = 1
      BY <1>2, <1>4, <2>1 DEF Position
    <2>2. CASE L = 2
      BY <1>1, <1>2, <1>4, <2>2 DEF Position
    <2>3. CASE L = 3
      BY <1>1, <1>2, <1>4, <2>3 DEF Position
    <2> QED
      BY <2>1, <2>2, <2>3
  <1> HIDE DEF S, j
  <1>8. Has(S, j, ops[L], q)
    BY <1>3, <1>6 DEF Has, About
  <1> QED
    BY <1>6, <1>7, <1>8 DEF S

\* The deletions of some quads delete the chunks and then the row of each.
LEMMA DeletionsThrough ==
    ASSUME NEW Q \in SUBSET Quad
    PROVE  /\ DeletesThrough(Deletions(Q))
           /\ \A q \in Q : \E i \in DOMAIN Deletions(Q) : Has(Deletions(Q), i, "chunks-", q)
           /\ \A q \in Q : \E i \in DOMAIN Deletions(Q) : Has(Deletions(Q), i, "quads-", q)
           /\ \A q \in Q : \E i \in DOMAIN ChunkDeletions(Q) :
                 Has(ChunkDeletions(Q), i, "chunks-", q)
  <1> DEFINE n == LookupSize
             ops == Append(SweepOps, "quads-")
             S == Deletions(Q)
             W == ChunkDeletions(Q)
  <1>1. n \in Nat /\ n > 0
    BY SizeAssumption
  <1>2. /\ Len(ops) \in {1, 2, 3} /\ ops[Len(ops)] = "quads-"
        /\ \E k \in 1..Len(ops) : ops[k] = "chunks-"
    <2>1. CASE Vectors
      <3>1. Len(ops) = 3 /\ ops[2] = "chunks-" /\ ops[3] = "quads-"
        BY <2>1, DeletionOpsAre
      <3> HIDE DEF ops
      <3>2. 2 \in 1..Len(ops)
        BY <3>1
      <3> QED
        BY <3>1, <3>2
    <2>2. CASE ~Vectors
      <3>1. Len(ops) = 2 /\ ops[1] = "chunks-" /\ ops[2] = "quads-"
        BY <2>2, DeletionOpsAre
      <3> HIDE DEF ops
      <3>2. 1 \in 1..Len(ops)
        BY <3>1
      <3> QED
        BY <3>1, <3>2
    <2> QED
      BY <2>1, <2>2, OptionAssumption
  <1>3. /\ Len(SweepOps) \in {1, 2, 3}
        /\ \E k \in 1..Len(SweepOps) : SweepOps[k] = "chunks-"
    <2>1. CASE Vectors
      <3>1. Len(SweepOps) = 2 /\ SweepOps[2] = "chunks-"
        BY <2>1, SweepOpsAre
      <3>2. 2 \in 1..Len(SweepOps)
        BY <3>1
      <3> QED
        BY <3>1, <3>2
    <2>2. CASE ~Vectors
      <3>1. Len(SweepOps) = 1 /\ SweepOps[1] = "chunks-"
        BY <2>2, SweepOpsAre
      <3>2. 1 \in 1..Len(SweepOps)
        BY <3>1
      <3> QED
        BY <3>1, <3>2
    <2> QED
      BY <2>1, <2>2, OptionAssumption
  <1>4. S = PerSlice(Q, n, ops) /\ W = PerSlice(Q, n, SweepOps)
    BY DEF Deletions, ChunkDeletions
  <1> HIDE DEF S, W, ops, n
  <1>5. Len(ops) \in 1..Len(ops)
    BY <1>2
  <1>6. \A q \in Q : \E i \in DOMAIN S : Has(S, i, "quads-", q)
    BY <1>1, <1>2, <1>4, <1>5, PerSliceCovers
  <1>7. \A q \in Q : \E i \in DOMAIN S : Has(S, i, "chunks-", q)
    BY <1>1, <1>2, <1>4, PerSliceCovers
  <1>8. \A q \in Q : \E i \in DOMAIN W : Has(W, i, "chunks-", q)
    BY <1>1, <1>3, <1>4, PerSliceCovers
  <1>9. ASSUME NEW i \in DOMAIN S, NEW q, NEW op \in {"vec-", "chunks-"}, Has(S, i, op, q)
        PROVE  \E j \in DOMAIN S : i < j /\ Has(S, j, "quads-", q)
    <2>1. op # ops[Len(ops)]
      BY <1>2
    <2> QED
      BY <1>1, <1>2, <1>4, <1>9, <2>1, PerSliceThrough
  <1> QED
    BY <1>6, <1>7, <1>8, <1>9 DEF DeletesThrough, S, W

LEMMA ThroughBehind ==
    ASSUME NEW S \in Seq(Statement), NEW T \in Seq(Statement),
           DeletesThrough(S), DeletesThrough(T)
    PROVE  DeletesThrough(S \o T)
  <1> DEFINE U == S \o T
             n == Len(S)
  <1>1. /\ n \in Nat
        /\ \A i \in DOMAIN S : i \in DOMAIN U /\ U[i] = S[i] /\ i \in Nat /\ i <= n
        /\ \A i \in DOMAIN T : n + i \in DOMAIN U /\ U[n + i] = T[i] /\ i \in Nat /\ i > 0
        /\ \A i \in DOMAIN U : i \in DOMAIN S \/ \E j \in DOMAIN T : i = n + j
    BY ConcatHas
  <1> HIDE DEF U, n
  <1> SUFFICES ASSUME NEW i \in DOMAIN U, NEW q \in Quad, NEW op \in {"vec-", "chunks-"},
                      Has(U, i, op, q)
               PROVE  \E j \in DOMAIN U : i < j /\ Has(U, j, "quads-", q)
    BY DEF DeletesThrough, U
  <1>2. CASE i \in DOMAIN S
    <2>1. Has(S, i, op, q)
      BY <1>1, <1>2 DEF Has
    <2>2. PICK j \in DOMAIN S : i < j /\ Has(S, j, "quads-", q)
      BY <1>2, <2>1 DEF DeletesThrough
    <2> QED
      BY <1>1, <2>2 DEF Has
  <1>3. ASSUME NEW k \in DOMAIN T, i = n + k
        PROVE  \E j \in DOMAIN U : i < j /\ Has(U, j, "quads-", q)
    <2>1. Has(T, k, op, q)
      BY <1>1, <1>3 DEF Has
    <2>2. PICK j \in DOMAIN T : k < j /\ Has(T, j, "quads-", q)
      BY <2>1 DEF DeletesThrough
    <2>3. n + j \in DOMAIN U /\ Has(U, n + j, "quads-", q) /\ i < n + j
      BY <1>1, <1>3, <2>2 DEF Has
    <2> QED
      BY <2>3
  <1> QED
    BY <1>1, <1>2, <1>3

\* What a commit stages when its lookups are over.
LEMMA StagedThrough ==
    ASSUME NEW S \in Seq(Statement), DeletesThrough(S),
           \A i \in DOMAIN S : S[i].op # "quads+", NEW B \in SUBSET Quad
    PROVE  LET U == S \o Insertions(B)
           IN  /\ U \in Seq(Statement) /\ DeletesThrough(U)
               /\ \A i \in DOMAIN U, q \in Quad : Has(U, i, "quads+", q) => q \in B
               /\ \A q \in B : \E i \in DOMAIN U : Has(U, i, "chunks-", q)
               /\ \A i \in DOMAIN S : \A op, q : Has(S, i, op, q) => Has(U, i, op, q)
               /\ \A i \in DOMAIN U : U[i].op = "quads-" =>
                     \/ U[i].of \subseteq B
                     \/ i \in DOMAIN S /\ U[i] = S[i]
  <1> DEFINE D == Deletions(B)
             I == NewRows(B)
             T == Insertions(B)
             U == S \o T
             n == Len(S)
             m == Len(D)
  <1>1. /\ D \in Seq(Statement) /\ DeletesThrough(D)
        /\ \A i \in DOMAIN D : D[i].op # "quads+" /\ D[i].of \subseteq B
        /\ \A q \in B : \E i \in DOMAIN D : Has(D, i, "chunks-", q)
    BY DeletionsSweep, DeletionsThrough DEF Sweeping
  <1>2. /\ I \in Seq(Statement)
        /\ \A i \in DOMAIN I : I[i].op = "quads+" /\ I[i].of \subseteq B
    BY NewRowsAre
  <1>3. T = D \o I
    BY InsertionsAre
  <1> HIDE DEF D, I, T
  <1>4. DeletesThrough(I)
    BY <1>2 DEF DeletesThrough, Has
  <1>5. T \in Seq(Statement) /\ DeletesThrough(T)
    BY <1>1, <1>2, <1>3, <1>4, ConcatHas, ThroughBehind
  <1>6. /\ \A i \in DOMAIN D : i \in DOMAIN T /\ T[i] = D[i]
        /\ \A i \in DOMAIN T : T[i].of \subseteq B
    <2>1. /\ \A i \in DOMAIN D : i \in DOMAIN T /\ T[i] = D[i]
          /\ \A i \in DOMAIN I : T[Len(D) + i] = I[i]
          /\ \A i \in DOMAIN T : i \in DOMAIN D \/ \E j \in DOMAIN I : i = Len(D) + j
      BY <1>1, <1>2, <1>3, ConcatHas
    <2> QED
      BY <1>1, <1>2, <2>1
  <1>7. U \in Seq(Statement) /\ DeletesThrough(U)
    BY <1>5, ConcatHas, ThroughBehind
  <1>8. /\ \A i \in DOMAIN S : i \in DOMAIN U /\ U[i] = S[i]
        /\ \A i \in DOMAIN T : n + i \in DOMAIN U /\ U[n + i] = T[i]
        /\ \A i \in DOMAIN U : i \in DOMAIN S \/ \E j \in DOMAIN T : i = n + j
    BY <1>5, ConcatHas
  <1> HIDE DEF U, n
  <1>9. \A q \in B : \E i \in DOMAIN U : Has(U, i, "chunks-", q)
    <2> SUFFICES ASSUME NEW q \in B PROVE \E i \in DOMAIN U : Has(U, i, "chunks-", q)
      OBVIOUS
    <2>1. PICK i \in DOMAIN D : Has(D, i, "chunks-", q)
      BY <1>1
    <2>2. n + i \in DOMAIN U /\ U[n + i] = D[i]
      BY <1>6, <1>8
    <2> QED
      BY <2>1, <2>2 DEF Has
  <1>10. \A i \in DOMAIN U : \/ U[i].of \subseteq B
                             \/ i \in DOMAIN S /\ U[i] = S[i]
    BY <1>6, <1>8
  <1>11. \A i \in DOMAIN U, q \in Quad : Has(U, i, "quads+", q) => q \in B
    BY <1>10 DEF Has
  <1>12. \A i \in DOMAIN S : \A op, q : Has(S, i, op, q) => Has(U, i, op, q)
    BY <1>8 DEF Has
  <1>13. U = S \o Insertions(B)
    BY DEF U, T
  <1> QED
    BY <1>7, <1>9, <1>10, <1>11, <1>12, <1>13

-----------------------------------------------------------------------------
\* What landing S makes of the vectors, beyond Landed.
LandedVectors(S, C, V, V2) ==
    /\ \A i \in DOMAIN S : \A v : Has(S, i, "vec+", v) => v \in V2
    /\ \A c \in C : /\ c.id \in V
                    /\ \A i \in DOMAIN S : ~Has(S, i, "vec-", c.quad)
                    => c.id \in V2

LEMMA LandVectors ==
    ASSUME NEW S \in Seq(Statement), Land(S), Sound(quads, chunks, vec)
    PROVE  LandedVectors(S, chunks, vec, vec')
  <1>1. \A i \in DOMAIN S : \A v : Has(S, i, "vec+", v) => v \in vec'
    BY NamedMeans DEF Land
  <1>2. ASSUME NEW c \in chunks, c.id \in vec, \A i \in DOMAIN S : ~Has(S, i, "vec-", c.quad)
        PROVE  c.id \in vec'
    <2>1. c.id \notin VectorsSwept(S)
      <3> SUFFICES ASSUME NEW d \in chunks, d.id = c.id, NEW i \in DOMAIN S,
                          S[i].op = "vec-", d.quad \in S[i].of
                   PROVE  FALSE
        BY DEF VectorsSwept
      <3>1. d = c
        BY DEF Sound
      <3> QED
        BY <1>2, <3>1 DEF Has
    <2> QED
      BY <1>2, <2>1 DEF Land
  <1> QED
    BY <1>1, <1>2 DEF LandedVectors

\* An index that no statement is about is kept.
LEMMA LandKeepsIndex ==
    ASSUME NEW S, NEW Q, NEW C, NEW V, NEW Q2, NEW C2, NEW V2,
           Landed(S, Q, C, V, Q2, C2, V2), LandedVectors(S, C, V, V2),
           NEW q, Indexed(q, C, V),
           \A i \in DOMAIN S : ~Has(S, i, "vec-", q) /\ ~Has(S, i, "chunks-", q)
    PROVE  Indexed(q, C2, V2)
  <1> SUFFICES ASSUME NEW k \in 1..Parts[q]
               PROVE  \E c \in C2 : c.quad = q /\ c.part = k /\ (Vectors => c.id \in V2)
    BY DEF Indexed
  <1>1. PICK c \in C : c.quad = q /\ c.part = k /\ (Vectors => c.id \in V)
    BY DEF Indexed
  <1>2. c \in C2 /\ (Vectors => c.id \in V2)
    BY <1>1 DEF Landed, LandedVectors
  <1> QED
    BY <1>1, <1>2

\* The vectors of the quads in K stay.
VectorsAside(K, C, V, V2) == \A c \in C : c.quad \in K /\ c.id \in V => c.id \in V2

LEMMA IndexedAside ==
    ASSUME NEW K, NEW Q, NEW C, NEW V, NEW Q2, NEW C2, NEW V2,
           Aside(K, Q, C, V, Q2, C2, V2), VectorsAside(K, C, V, V2),
           NEW q \in K, Indexed(q, C, V)
    PROVE  Indexed(q, C2, V2)
  <1> SUFFICES ASSUME NEW k \in 1..Parts[q]
               PROVE  \E c \in C2 : c.quad = q /\ c.part = k /\ (Vectors => c.id \in V2)
    BY DEF Indexed
  <1>1. PICK c \in C : c.quad = q /\ c.part = k /\ (Vectors => c.id \in V)
    BY DEF Indexed
  <1>2. c \in C2 /\ (Vectors => c.id \in V2)
    BY <1>1 DEF Aside, VectorsAside
  <1> QED
    BY <1>1, <1>2

\* What a task has in hand is so while the tables change only for other quads.
LEMMA InHandAside ==
    ASSUME NEW p, NEW S, NEW B, NEW D, NEW K, NEW r,
           NEW Q, NEW C, NEW V, NEW Q2 \in SUBSET Quad, NEW C2, NEW V2,
           InOrder(p, S, B, D, K, Q, C, V), InHand(p, S, B, D, r, Q, C, V),
           Aside(K, Q, C, V, Q2, C2, V2), VectorsAside(K, C, V, V2),
           r.on => K = Quad
    PROVE  InHand(p, S, B, D, r, Q2, C2, V2)
  <1>1. B \subseteq K /\ \A d \in D : d[1] \in K
    BY DEF InOrder
  <1>2. \A q \in B : Unchunked(q, C) => Unchunked(q, C2)
    BY <1>1 DEF Unchunked, Aside
  <1>3. p = "insert" => \A d \in D, c \in C2 : ~(c.quad = d[1] /\ c.part = d[2])
    BY <1>1 DEF InHand, Aside
  <1>4. ASSUME p = "insert", NEW q \in B PROVE Pending(q, S, D, C2, V2)
    <2> SUFFICES ASSUME NEW k \in 1..Parts[q], <<q, k>> \notin D
                 PROVE  \E c \in C2 : /\ c.quad = q /\ c.part = k
                                      /\ Vectors => \/ c.id \in V2
                                                    \/ \E i \in DOMAIN S : Has(S, i, "vec+", c.id)
      BY DEF Pending
    <2>1. PICK c \in C : /\ c.quad = q /\ c.part = k
                         /\ Vectors => c.id \in V \/ \E i \in DOMAIN S : Has(S, i, "vec+", c.id)
      BY <1>4 DEF InHand, Pending
    <2>2. c \in C2 /\ (c.id \in V => c.id \in V2)
      BY <1>1, <2>1 DEF Aside, VectorsAside
    <2> QED
      BY <2>1, <2>2
  <1>5. p = "cleanup" => \A q \in B : q \notin Q2 \/ \E i \in DOMAIN S : Has(S, i, "quads-", q)
    BY <1>1 DEF InHand, Aside
  <1>6. r.on /\ r.last => \A q \in Q2 : q <= r.anchor
    BY DEF InHand, Aside
  <1> QED
    BY <1>2, <1>3, <1>4, <1>5, <1>6 DEF InHand

-----------------------------------------------------------------------------
\* A batch of its own: P lands early of S, R is the rest.

LEMMA RestThrough ==
    ASSUME NEW S, NEW T, NEW P, NEW R, Split(S, T, P, R), DeletesThrough(S)
    PROVE  /\ DeletesThrough(R)
           /\ \A i \in DOMAIN P, q \in Quad, op \in {"vec-", "chunks-"} : Has(P, i, op, q) =>
                 \/ \E j \in DOMAIN P : Has(P, j, "quads-", q)
                 \/ \E j \in DOMAIN R : Has(R, j, "quads-", q)
  <1>1. ASSUME NEW i \in DOMAIN R, NEW q \in Quad, NEW op \in {"vec-", "chunks-"}, Has(R, i, op, q)
        PROVE  \E j \in DOMAIN R : i < j /\ Has(R, j, "quads-", q)
    <2>1. T + i \in DOMAIN S /\ Has(S, T + i, op, q)
      BY <1>1, SplitHas
    <2>2. PICK j \in DOMAIN S : T + i < j /\ Has(S, j, "quads-", q)
      BY <2>1 DEF DeletesThrough
    <2>3. j - T \in DOMAIN R /\ i < j - T /\ T + (j - T) = j
      BY <2>2 DEF Split
    <2> QED
      BY <2>2, <2>3, SplitHas
  <1>2. ASSUME NEW i \in DOMAIN P, NEW q \in Quad, NEW op \in {"vec-", "chunks-"}, Has(P, i, op, q)
        PROVE  \/ \E j \in DOMAIN P : Has(P, j, "quads-", q)
               \/ \E j \in DOMAIN R : Has(R, j, "quads-", q)
    <2>1. i \in DOMAIN S /\ Has(S, i, op, q)
      BY <1>2, SplitHas
    <2>2. PICK j \in DOMAIN S : i < j /\ Has(S, j, "quads-", q)
      BY <2>1 DEF DeletesThrough
    <2>3. CASE j \in DOMAIN P
      BY <2>2, <2>3, SplitHas
    <2>4. CASE j - T \in DOMAIN R
      <3>1. T + (j - T) = j
        BY <2>2 DEF Split
      <3> QED
        BY <2>2, <2>4, <3>1, SplitHas
    <2> QED
      BY <2>2, <2>3, <2>4, SplitHas
  <1> QED
    BY <1>1, <1>2 DEF DeletesThrough

LEMMA RestInHand ==
    ASSUME NEW S, NEW T, NEW P, NEW R, Split(S, T, P, R),
           NEW p, NEW B, NEW D, NEW K, NEW r,
           NEW Q, NEW C, NEW V, NEW Q2 \in SUBSET Quad, NEW C2, NEW V2,
           Landed(P, Q, C, V, Q2, C2, V2), LandedVectors(P, C, V, V2),
           InOrder(p, S, B, D, K, Q, C, V), InHand(p, S, B, D, r, Q, C, V)
    PROVE  InHand(p, R, B, D, r, Q2, C2, V2)
  <1>0. B \subseteq Scope /\ C2 \subseteq C
    BY DEF InHand, Landed
  <1>1. p \in {"lookup", "flush", "cleanup"} => DeletesThrough(R)
    BY RestThrough DEF InHand
  <1>2. \A i \in DOMAIN R, q \in Quad : Has(R, i, "quads+", q) => p = "flush" /\ q \in B
    BY SplitHas DEF InHand
  <1>3. p \in {"sweep", "cleanup"} => \A i \in DOMAIN R : R[i].of \subseteq B
    BY SplitHas DEF InHand
  <1>4. ASSUME NEW q, \E i \in DOMAIN S : Has(S, i, "chunks-", q)
        PROVE  Unchunked(q, C2) \/ \E i \in DOMAIN R : Has(R, i, "chunks-", q)
    <2>1. PICK i \in DOMAIN S : Has(S, i, "chunks-", q)
      BY <1>4
    <2>2. CASE i \in DOMAIN P
      <3>1. Has(P, i, "chunks-", q)
        BY <2>1, <2>2, SplitHas
      <3> QED
        BY <2>2, <3>1 DEF Landed, Unchunked
    <2>3. CASE i - T \in DOMAIN R
      <3>1. T + (i - T) = i
        BY DEF Split
      <3> QED
        BY <2>1, <2>3, <3>1, SplitHas
    <2> QED
      BY <2>2, <2>3, SplitHas
  <1>5. p \in {"flush", "sweep"} => \A q \in B :
           Unchunked(q, C2) \/ \E i \in DOMAIN R : Has(R, i, "chunks-", q)
    BY <1>0, <1>4 DEF InHand, Unchunked
  <1>6. p = "embed" => \A q \in B : Unchunked(q, C2)
    BY <1>0 DEF InHand, Unchunked
  <1>7. p = "insert" => \A d \in D, c \in C2 : ~(c.quad = d[1] /\ c.part = d[2])
    BY <1>0 DEF InHand
  <1>8. ASSUME p = "insert", NEW q \in B PROVE Pending(q, R, D, C2, V2)
    <2> SUFFICES ASSUME NEW k \in 1..Parts[q], <<q, k>> \notin D
                 PROVE  \E c \in C2 : /\ c.quad = q /\ c.part = k
                                      /\ Vectors => \/ c.id \in V2
                                                    \/ \E i \in DOMAIN R : Has(R, i, "vec+", c.id)
      BY DEF Pending
    <2>1. PICK c \in C : /\ c.quad = q /\ c.part = k
                         /\ Vectors => c.id \in V \/ \E i \in DOMAIN S : Has(S, i, "vec+", c.id)
      BY <1>8 DEF InHand, Pending
    <2>2. \A i \in DOMAIN P : \A o, v : Has(P, i, o, v) => o = "vec+"
      BY <1>8, SplitHas DEF InOrder, Has
    <2>3. c \in C2 /\ (c.id \in V => c.id \in V2)
      BY <2>2 DEF Landed, LandedVectors
    <2>4. ASSUME NEW i \in DOMAIN S, Has(S, i, "vec+", c.id)
          PROVE  c.id \in V2 \/ \E j \in DOMAIN R : Has(R, j, "vec+", c.id)
      <3>1. CASE i \in DOMAIN P
        BY <2>4, <3>1, SplitHas DEF LandedVectors
      <3>2. CASE i - T \in DOMAIN R
        <4>1. T + (i - T) = i
          BY DEF Split
        <4> QED
          BY <2>4, <3>2, <4>1, SplitHas
      <3> QED
        BY <3>1, <3>2, SplitHas
    <2> QED
      BY <2>1, <2>3, <2>4
  <1>9. ASSUME p = "cleanup", NEW q \in B
        PROVE  q \notin Q2 \/ \E i \in DOMAIN R : Has(R, i, "quads-", q)
    <2>1. \A i \in DOMAIN P : ~Has(P, i, "quads+", q) \/ q \notin Quad
      BY <1>9, SplitHas DEF InHand
    <2>2. CASE q \notin Q
      BY <2>1, <2>2 DEF Landed
    <2>3. ASSUME NEW i \in DOMAIN S, Has(S, i, "quads-", q)
          PROVE  q \notin Q2 \/ \E j \in DOMAIN R : Has(R, j, "quads-", q)
      <3>1. CASE i \in DOMAIN P
        BY <2>1, <2>3, <3>1, SplitHas DEF Landed
      <3>2. CASE i - T \in DOMAIN R
        <4>1. T + (i - T) = i
          BY DEF Split
        <4> QED
          BY <2>3, <3>2, <4>1, SplitHas
      <3> QED
        BY <3>1, <3>2, SplitHas
    <2> QED
      BY <1>9, <2>2, <2>3 DEF InHand
  <1>10. p \in {"wipe", "lookup", "flush", "cleanup"} => ~r.on
    BY DEF InHand
  <1>11. r.on /\ r.last => \A q \in Q2 : q <= r.anchor
    <2> SUFFICES ASSUME r.on, r.last, NEW q \in Q2 PROVE q <= r.anchor
      OBVIOUS
    <2>1. \A i \in DOMAIN P : ~Has(P, i, "quads+", q)
      BY SplitHas DEF InHand
    <2> QED
      BY <2>1 DEF Landed, InHand
  <1> QED
    BY <1>0, <1>1, <1>2, <1>3, <1>5, <1>6, <1>7, <1>8, <1>9, <1>10, <1>11 DEF InHand

-----------------------------------------------------------------------------
\* A batch that lands.

\* When its vectors have landed, the batch of a projection is indexed.
LEMMA LandedIsIndexed ==
    ASSUME NEW S, NEW B, NEW K, NEW r,
           NEW Q, NEW C, NEW V, NEW Q2, NEW C2, NEW V2,
           Landed(S, Q, C, V, Q2, C2, V2), LandedVectors(S, C, V, V2),
           InOrder("insert", S, B, {}, K, Q, C, V), InHand("insert", S, B, {}, r, Q, C, V),
           NEW q \in B
    PROVE  Indexed(q, C2, V2)
  <1> SUFFICES ASSUME NEW k \in 1..Parts[q]
               PROVE  \E c \in C2 : c.quad = q /\ c.part = k /\ (Vectors => c.id \in V2)
    BY DEF Indexed
  <1>1. PICK c \in C : /\ c.quad = q /\ c.part = k
                       /\ Vectors => c.id \in V \/ \E i \in DOMAIN S : Has(S, i, "vec+", c.id)
    BY DEF InHand, Pending
  <1>2. \A i \in DOMAIN S : \A o, v : Has(S, i, o, v) => o = "vec+"
    BY DEF InOrder, Has
  <1>3. c \in C2 /\ (Vectors => c.id \in V2)
    BY <1>1, <1>2 DEF Landed, LandedVectors
  <1> QED
    BY <1>1, <1>3

\* When a clean-up has landed, its batch is gone.
LEMMA LandedIsGone ==
    ASSUME NEW S, NEW B, NEW D, NEW r,
           NEW Q, NEW C, NEW V, NEW Q2, NEW C2, NEW V2,
           Landed(S, Q, C, V, Q2, C2, V2), InHand("cleanup", S, B, D, r, Q, C, V),
           NEW q \in B, q \in Quad
    PROVE  q \notin Q2
  BY DEF Landed, InHand

-----------------------------------------------------------------------------
\* What a step of t leaves of the history and of the other tasks, beyond Others.
Apartness(t) ==
    /\ pc[t] # "idle"
    /\ pc'[t] = "idle" \/ (scan[t].on => scan'[t].on)
    /\ \/ index' = index
       \/ Doubt
       \/ t \in index.alone /\ index' = [is |-> "rebuilt", alone |-> {}]
    /\ \A u \in Task \ {t} :
          /\ landed'[u] = landed[u] /\ known'[u] = known[u]
          /\ look'[u] = look[u] /\ start'[u] = start[u]

LEMMA EndApartness ==
    ASSUME TypeOK, NEW t \in Task, End(t), pc[t] # "idle",
           \/ UNCHANGED index \/ Doubt
           \/ index' = IF t \in index.alone THEN [is |-> "rebuilt", alone |-> {}] ELSE index
    PROVE  Apartness(t)
  BY DEF TypeOK, End, Apartness

LEMMA StepApartness ==
    ASSUME TypeOK, NEW t \in Task, Step(t)
    PROVE  Apartness(t)
  <1>1. CASE Wipe(t)
    BY <1>1 DEF TypeOK, Apartness, Wipe, Go, history
  <1>2. CASE Lookup(t)
    BY <1>2 DEF TypeOK, Apartness, Lookup, history
  <1>3. CASE Stage(t)
    BY <1>3 DEF TypeOK, Apartness, Stage, Go, history
  <1>4. CASE Flush(t)
    <2>1. AfterFlush(t) /\ pc[t] = "flush"
      BY <1>4 DEF Flush
    <2>2. CASE End(t) /\ (UNCHANGED index \/ Doubt)
      BY <2>1, <2>2, EndApartness
    <2>3. CASE /\ pc' = [pc EXCEPT ![t] = "embed"]
               /\ UNCHANGED <<patch, look, known, batch, todo, scan, start, landed, index>>
      BY <2>1, <2>3 DEF TypeOK, Apartness
    <2>4. CASE /\ pc' = [pc EXCEPT ![t] = "page"]
               /\ scan' = [scan EXCEPT ![t] = [NoScan EXCEPT !.on = TRUE]]
               /\ UNCHANGED <<patch, look, known, batch, todo, start, landed, index>>
      BY <2>1, <2>4 DEF TypeOK, Apartness, NoScan
    <2> QED
      BY <2>1, <2>2, <2>3, <2>4 DEF AfterFlush
  <1>5. CASE CommitFails(t)
    BY <1>5, EndApartness DEF CommitFails
  <1>6. CASE Embed(t)
    BY <1>6 DEF TypeOK, Apartness, Embed, Go, history
  <1>7. CASE InsertChunk(t)
    BY <1>7 DEF TypeOK, Apartness, InsertChunk, history
  <1>8. CASE FlushVec(t)
    <2>1. pc[t] = "insert"
      BY <1>8 DEF FlushVec
    <2>2. CASE End(t) /\ UNCHANGED index
      BY <2>1, <2>2, EndApartness
    <2>3. CASE RebuildEnds(t)
      BY <2>1, <2>3, EndApartness DEF RebuildEnds
    <2>4. CASE UNCHANGED <<patch, look, known, todo, scan, start, landed, index>>
      BY <2>1, <2>4 DEF TypeOK, Apartness
    <2> QED
      BY <1>8, <2>2, <2>3, <2>4 DEF FlushVec
  <1>9. CASE ProjectionFails(t)
    <2>1. pc[t] # "idle"
      BY <1>9 DEF ProjectionFails
    <2>2. CASE End(t) /\ Doubt
      BY <2>1, <2>2, EndApartness
    <2>3. CASE UNCHANGED <<patch, look, known, batch, scan, start, landed, index>>
      BY <2>1, <2>3 DEF TypeOK, Apartness
    <2> QED
      BY <1>9, <2>2, <2>3 DEF ProjectionFails
  <1>10. CASE Cleanup(t) \/ CleanupFails(t) \/ RebuildFails(t)
    BY <1>10, EndApartness DEF Cleanup, CleanupFails, RebuildFails
  <1>11. CASE Page(t)
    <2>1. pc[t] = "page"
      BY <1>11 DEF Page
    <2>2. CASE RebuildEnds(t)
      BY <2>1, <2>2, EndApartness DEF RebuildEnds
    <2> DEFINE rows == PageAfter(quads, scan[t].anchor, PageSize)
               next == AnchorAfter(rows, scan[t].anchor)
               last == Cardinality(rows) < PageSize
    <2>3. CASE /\ scan' = [scan EXCEPT ![t] = [on |-> TRUE, anchor |-> next, last |-> last]]
               /\ UNCHANGED <<patch, look, known, todo, start, landed, index>>
      <3> HIDE DEF next, last
      <3> QED BY <2>1, <2>3 DEF TypeOK, Apartness
    <2>4. CASE /\ scan' = [scan EXCEPT ![t].anchor = next]
               /\ UNCHANGED <<pc, patch, look, known, batch, todo, start, landed, index>>
      <3> HIDE DEF next, last
      <3> QED BY <2>1, <2>4 DEF TypeOK, Apartness
    <2> QED
      BY <1>11, <2>2, <2>3, <2>4 DEF Page
  <1>12. CASE Sweep(t)
    BY <1>12 DEF TypeOK, Apartness, Sweep, Go, history
  <1>13. CASE FlushEarly(t)
    BY <1>13 DEF TypeOK, Apartness, FlushEarly
  <1> QED
    BY <1>1, <1>2, <1>3, <1>4, <1>5, <1>6, <1>7, <1>8, <1>9, <1>10, <1>11, <1>12, <1>13
    DEF Step

\* The lone rebuild, after a step of t.
LEMMA StaysLone ==
    ASSUME Lone, NEW t \in Task, Others(t), Apartness(t), index \in IndexState
    PROVE  Lone' /\ (Promised' => Promised)
  <1>1. index'.alone \subseteq index.alone
    BY DEF Apartness, Doubt, IndexState
  <1>2. ASSUME NEW v \in index.alone
        PROVE  v \in Task /\ index.alone = {v} /\ (v # t => ~scan[v].on) /\ (v = t => scan[v].on)
    BY DEF Lone, Apartness, IndexState
  <1>3. Lone'
    <2> SUFFICES ASSUME NEW v \in index'.alone
                 PROVE  /\ index'.alone = {v}
                        /\ pc'[v] = "idle" \/ scan'[v].on
                        /\ scan'[v].on => \A u \in Task \ {v} : pc'[u] = "idle"
      BY DEF Lone
    <2>1. v \in index.alone /\ index'.alone = {v}
      BY <1>1, <1>2
    <2>2. CASE v = t
      BY <1>2, <2>1, <2>2 DEF Lone, Apartness, Others
    <2>3. CASE v # t
      BY <1>2, <2>1, <2>3 DEF Lone, Others
    <2> QED
      BY <2>1, <2>2, <2>3
  <1>4. ASSUME Promised' PROVE Promised
    <2>1. CASE t \in index.alone
      BY <1>2, <2>1 DEF Promised
    <2>2. CASE t \notin index.alone
      <3>1. \A v \in index.alone : scan'[v].on => scan[v].on
        BY <1>2, <2>2 DEF Others
      <3>2. ~(\E v \in index'.alone : scan'[v].on)
        BY <1>1, <1>2, <2>2, <3>1
      <3>3. index'.is # "doubtful"
        BY <1>4, <3>2 DEF Promised
      <3>4. index' = index
        BY <2>2, <3>3 DEF Apartness, Doubt, IndexState
      <3> QED
        BY <3>3, <3>4 DEF Promised
    <2> QED
      BY <2>1, <2>2
  <1> QED
    BY <1>3, <1>4

-----------------------------------------------------------------------------
\* What a step of t has to show: what it has in hand is so again, the chunks are
\* one per part, the vectors of quads it is not about stay, and a quad that is
\* indexed or owed by t is so again, unless the step leaves the index in doubt.
Carries(t) ==
    \A q \in quads' \cap Scope :
        (q \in quads => Indexed(q, chunks, vec) \/ Owed(t, q))
        => Indexed(q, chunks', vec') \/ Owed(t, q)'

Spoils(t) == index'.is = "doubtful" /\ ~scan'[t].on

VectorAsides(t) ==
    \A K \in SUBSET Quad : K \cap Concerns(t) = {} => VectorsAside(K, chunks, vec, vec')

Shows(t) ==
    /\ TaskInHand(t)'
    /\ OnePerPart(chunks') /\ OfTexts(chunks')
    /\ patch'[t].ins \subseteq Scope
    /\ VectorAsides(t)
    /\ Spoils(t) \/ Carries(t)

\* What another task has in hand, or owes, after a step of t.
LEMMA OthersInHand ==
    ASSUME NEW t \in Task, Others(t), Apartness(t), Asides(t), VectorAsides(t), Apart,
           NEW u \in Task \ {t}, TaskOrder(u), TaskInHand(u), quads' \in SUBSET Quad
    PROVE  TaskInHand(u)' /\ \A q : Owed(u, q) => Owed(u, q)'
  <1> DEFINE K == Concerns(u)
  <1>1. K \in SUBSET Quad /\ K \cap Concerns(t) = {}
    BY DEF TaskOrder, InOrder, Ordered, Apart
  <1>2. /\ Aside(K, quads, chunks, vec, quads', chunks', vec')
        /\ VectorsAside(K, chunks, vec, vec')
    BY <1>1 DEF Asides, VectorAsides
  <1>3. scan[u].on => K = Quad
    BY DEF TaskOrder, Concerns
  <1>4. InOrder(pc[u], staged[u], batch[u], todo[u], K, quads, chunks, vec)
    BY DEF TaskOrder
  <1> HIDE DEF K
  <1>5. InHand(pc[u], staged[u], batch[u], todo[u], scan[u], quads', chunks', vec')
    BY <1>2, <1>3, <1>4, InHandAside DEF TaskInHand
  <1>6. /\ pc'[u] = pc[u] /\ staged'[u] = staged[u] /\ batch'[u] = batch[u]
        /\ todo'[u] = todo[u] /\ scan'[u] = scan[u] /\ landed'[u] = landed[u]
    BY DEF Others, Apartness
  <1> QED
    BY <1>5, <1>6 DEF TaskInHand, Owed

LEMMA ShowsAll ==
    ASSUME TypeOK, apart, apart', OrphanInv, IndexInv, NEW t \in Task,
           Others(t), Apartness(t), Asides(t), Shows(t), quads' \in SUBSET Quad
    PROVE  IndexInv'
  <1>1. index \in IndexState
    BY DEF TypeOK
  <1>2. Lone' /\ (Promised' => Promised)
    BY <1>1, StaysLone DEF IndexInv
  <1>3. \A u \in Task \ {t} : TaskInHand(u)' /\ \A q : Owed(u, q) => Owed(u, q)'
    BY OthersInHand DEF OrphanInv, IndexInv, Shows
  <1>4. \A u \in Task : patch'[u].ins \subseteq Scope /\ TaskInHand(u)'
    BY <1>3 DEF IndexInv, Shows, Others
  <1>5. ASSUME Promised', NEW q \in quads' \cap Scope
        PROVE  Indexed(q, chunks', vec') \/ \E u \in Task : Owed(u, q)'
    <2>1. CASE Spoils(t)
      <3>1. PICK v \in index'.alone : scan'[v].on
        BY <1>5, <2>1 DEF Promised, Spoils
      <3>2. v \in index.alone /\ v \in Task
        BY <1>1, <3>1 DEF Apartness, Doubt, IndexState
      <3>3. v # t
        BY <2>1, <3>1 DEF Spoils
      <3>4. scan[v].on
        BY <3>1, <3>2, <3>3 DEF Others
      <3> QED
        BY <3>2, <3>3, <3>4 DEF IndexInv, Lone, Apartness
    <2>2. CASE Carries(t)
      <3>1. q \in quads => Indexed(q, chunks, vec) \/ \E u \in Task : Owed(u, q)
        BY <1>2, <1>5 DEF IndexInv
      <3>2. CASE q \in quads => Indexed(q, chunks, vec) \/ Owed(t, q)
        BY <2>2, <3>2 DEF Carries
      <3>3. CASE \E u \in Task \ {t} : Owed(u, q)
        BY <1>3, <3>3
      <3> QED
        BY <3>1, <3>2, <3>3
    <2> QED
      BY <2>1, <2>2 DEF Shows
  <1> QED
    BY <1>2, <1>4, <1>5 DEF IndexInv, Shows

-----------------------------------------------------------------------------
\* The actions.

LEMMA KeepingVectors ==
    ASSUME NEW t \in Task, vec' = vec
    PROVE  VectorAsides(t)
  BY DEF VectorAsides, VectorsAside

\* A step that leaves the tables alone.
LEMMA StillShows ==
    ASSUME NEW t \in Task, UNCHANGED database, apart, IndexInv,
           patch'[t].ins \subseteq Scope,
           TaskInHand(t)',
           Spoils(t) \/ \A q \in quads \cap Scope : Owed(t, q) => Owed(t, q)'
    PROVE  Shows(t)
  <1>1. UNCHANGED <<quads, chunks, vec>>
    BY DEF database
  <1>2. Spoils(t) \/ Carries(t)
    BY <1>1 DEF Carries
  <1> QED
    BY <1>1, <1>2, KeepingVectors DEF Shows, IndexInv

\* A task that ends has nothing in hand and owes nothing.
LEMMA EndInHand ==
    ASSUME TypeOK, NEW t \in Task, End(t)
    PROVE  /\ TaskInHand(t)' /\ patch'[t].ins \subseteq Scope /\ ~scan'[t].on
           /\ \A q : ~Owed(t, q)'
  <1>1. /\ pc'[t] = "idle" /\ staged'[t] = <<>> /\ batch'[t] = {} /\ ~scan'[t].on
        /\ patch'[t].ins = {}
    BY DEF TypeOK, End, NoScan, NoPatch
  <1>2. TaskInHand(t)'
    BY <1>1, EmptyIsSeq DEF TaskInHand, InHand
  <1>3. \A q : ~Owed(t, q)'
    BY <1>1 DEF Owed, Owes
  <1> QED
    BY <1>1, <1>2, <1>3

\* A call that fails leaves the index in doubt, or owed nothing.
LEMMA FailureShows ==
    ASSUME TypeOK, NEW t \in Task, End(t), UNCHANGED database, apart, IndexInv,
           Doubt \/ \A q \in quads \cap Scope : ~Owed(t, q)
    PROVE  Shows(t)
  <1>1. CASE Doubt
    <2>1. Spoils(t)
      BY <1>1, EndInHand DEF Spoils, Doubt, TypeOK, IndexState
    <2> QED
      BY <2>1, EndInHand, StillShows
  <1>2. CASE \A q \in quads \cap Scope : ~Owed(t, q)
    BY <1>2, EndInHand, StillShows
  <1> QED
    BY <1>1, <1>2

LEMMA CommitFailsShows ==
    ASSUME TypeOK, apart, OrphanInv, IndexInv, NEW t \in Task, CommitFails(t)
    PROVE  Shows(t)
  <1>1. End(t) /\ UNCHANGED database /\ pc[t] \in {"wipe", "lookup", "flush"}
    BY DEF CommitFails
  <1>2. CASE landed[t]
    BY <1>1, <1>2, FailureShows DEF CommitFails
  <1>3. CASE ~landed[t]
    <2>1. ~scan[t].on
      BY <1>1 DEF IndexInv, TaskInHand, InHand
    <2>2. \A q : ~Owed(t, q)
      BY <1>1, <1>3, <2>1 DEF Owed, Owes
    <2> QED
      BY <1>1, <2>2, FailureShows
  <1> QED
    BY <1>2, <1>3

LEMMA LookupShows ==
    ASSUME TypeOK, apart, OrphanInv, IndexInv, NEW t \in Task, Lookup(t)
    PROVE  Shows(t)
  <1>1. UNCHANGED <<quads, chunks, vec, mode, pc, patch, batch, todo, staged, scan, landed>>
    BY DEF Lookup, database, history
  <1>2. TaskInHand(t)' /\ \A q : Owed(t, q) => Owed(t, q)'
    BY <1>1 DEF TaskInHand, Owed, IndexInv
  <1> QED
    BY <1>1, <1>2, StillShows DEF IndexInv, database

LEMMA WipeShows ==
    ASSUME TypeOK, apart, OrphanInv, IndexInv, NEW t \in Task, Wipe(t)
    PROVE  Shows(t)
  <1> DEFINE S == Deletions(patch[t].del)
  <1>1. /\ pc[t] = "wipe" /\ pc'[t] = "lookup" /\ staged'[t] = S /\ batch'[t] = batch[t]
        /\ patch'[t] = patch[t] /\ scan'[t] = scan[t]
        /\ quads' = {} /\ chunks' = {} /\ vec' = {}
    BY DEF Wipe, Go, TypeOK
  <1>2. patch[t].del \in SUBSET Quad
    BY DEF TypeOK, PatchType
  <1>3. DeletesThrough(S) /\ \A i \in DOMAIN S : S[i].op # "quads+"
    BY <1>2, DeletionsThrough, DeletionsSweep DEF Sweeping
  <1>4. batch[t] \subseteq Scope /\ batch[t] = {} /\ ~scan[t].on /\ patch[t].ins \subseteq Scope
    BY <1>1 DEF IndexInv, TaskInHand, InHand
  <1> HIDE DEF S
  <1>5. TaskInHand(t)'
    BY <1>1, <1>3, <1>4 DEF TaskInHand, InHand, Has
  <1>6. Concerns(t) = Quad
    BY <1>1 DEF OrphanInv, TaskOrder, Concerns
  <1>7. VectorAsides(t)
    <2>1. \A c \in chunks : c.quad \in Quad
      BY DEF TypeOK
    <2> QED
      BY <1>6, <2>1 DEF VectorAsides, VectorsAside
  <1>8. Carries(t)
    BY <1>1 DEF Carries
  <1> QED
    BY <1>1, <1>4, <1>5, <1>7, <1>8 DEF Shows, OnePerPart, OfTexts

LEMMA StageShows ==
    ASSUME TypeOK, apart, OrphanInv, IndexInv, NEW t \in Task, Stage(t)
    PROVE  Shows(t)
  <1> DEFINE S == staged[t]
             B == Novel(t)
             U == S \o Insertions(B)
  <1>1. /\ pc[t] = "lookup" /\ pc'[t] = "flush"
        /\ staged'[t] = U /\ batch'[t] = B
        /\ patch'[t] = patch[t] /\ scan'[t] = scan[t] /\ landed'[t] = landed[t]
        /\ UNCHANGED database
    BY DEF Stage, Go, TypeOK, history
  <1>2. patch[t].ins \subseteq Scope /\ ~scan[t].on /\ DeletesThrough(S) /\ batch[t] = {}
    BY <1>1 DEF IndexInv, TaskInHand, InHand
  <1>3. S \in Seq(Statement) /\ \A i \in DOMAIN S : S[i].op # "quads+"
    BY <1>1 DEF TypeOK, OrphanInv, TaskOrder, InOrder
  <1>4. B \subseteq Scope /\ B \in SUBSET Quad
    BY <1>2, ScopeAssumption DEF Novel
  <1> HIDE DEF S, B
  <1>5. /\ DeletesThrough(U)
        /\ \A i \in DOMAIN U, q \in Quad : Has(U, i, "quads+", q) => q \in B
        /\ \A q \in B : \E i \in DOMAIN U : Has(U, i, "chunks-", q)
        /\ \A i \in DOMAIN S : \A op, q : Has(S, i, op, q) => Has(U, i, op, q)
    BY <1>2, <1>3, <1>4, StagedThrough
  <1> HIDE DEF U
  <1>6. TaskInHand(t)'
    BY <1>1, <1>2, <1>4, <1>5 DEF TaskInHand, InHand
  <1>7. ASSUME NEW q, Owed(t, q) PROVE Owed(t, q)'
    <2>1. landed[t] /\ \E i \in DOMAIN S : Has(S, i, "quads-", q)
      BY <1>1, <1>2, <1>7 DEF Owed, Owes, S
    <2>2. \E i \in DOMAIN U : Has(U, i, "quads-", q)
      BY <1>5, <2>1 DEF Has
    <2> QED
      BY <1>1, <2>1, <2>2 DEF Owed, Owes
  <1> QED
    BY <1>1, <1>2, <1>6, <1>7, StillShows

LEMMA EmbedShows ==
    ASSUME TypeOK, apart, OrphanInv, IndexInv, NEW t \in Task, Embed(t)
    PROVE  Shows(t)
  <1> DEFINE all == UNION {{q} \X (1..Parts[q]) : q \in batch[t]}
  <1>1. /\ pc[t] = "embed" /\ pc'[t] = "insert"
        /\ staged'[t] = staged[t] /\ batch'[t] = batch[t] /\ todo'[t] = all
        /\ patch'[t] = patch[t] /\ scan'[t] = scan[t] /\ UNCHANGED <<quads, chunks, vec>>
    BY DEF Embed, Go, TypeOK, database
  <1>2. InHand("embed", staged[t], batch[t], todo[t], scan[t], quads, chunks, vec)
    BY <1>1 DEF IndexInv, TaskInHand
  <1>3. /\ \A d \in all : d[1] \in batch[t]
        /\ \A q \in batch[t] : \A k \in 1..Parts[q] : <<q, k>> \in all
    OBVIOUS
  <1> HIDE DEF all
  <1>4. \A d \in all, c \in chunks : ~(c.quad = d[1] /\ c.part = d[2])
    BY <1>2, <1>3 DEF InHand, Unchunked
  <1>5. \A q \in batch[t] : Pending(q, staged[t], all, chunks, vec)
    BY <1>3 DEF Pending
  <1>6. InHand("insert", staged[t], batch[t], all, scan[t], quads, chunks, vec)
    BY <1>2, <1>4, <1>5 DEF InHand
  <1>7. TaskInHand(t)'
    BY <1>1, <1>6 DEF TaskInHand
  <1>8. \A q : Owed(t, q) => Owed(t, q)'
    BY <1>1 DEF Owed, Owes
  <1>9. patch'[t].ins \subseteq Scope /\ UNCHANGED database
    BY <1>1 DEF IndexInv, database
  <1> QED
    BY <1>7, <1>8, <1>9, StillShows

LEMMA ProjectionFailsShows ==
    ASSUME TypeOK, apart, OrphanInv, IndexInv, NEW t \in Task, ProjectionFails(t)
    PROVE  Shows(t)
  <1>1. UNCHANGED database /\ pc[t] \in {"embed", "insert"}
    BY DEF ProjectionFails
  <1>2. CASE End(t) /\ Doubt
    BY <1>1, <1>2, FailureShows
  <1>3. CASE /\ ~scan[t].on
             /\ pc' = [pc EXCEPT ![t] = "cleanup"]
             /\ todo' = [todo EXCEPT ![t] = {}]
             /\ staged' = [staged EXCEPT ![t] = Deletions(batch[t])]
             /\ UNCHANGED <<patch, look, known, batch, scan, start, landed, index>>
    <2> DEFINE S == Deletions(batch[t])
    <2>1. /\ pc'[t] = "cleanup" /\ batch'[t] = batch[t] /\ staged'[t] = S
          /\ patch'[t] = patch[t] /\ scan'[t] = scan[t]
      BY <1>3 DEF TypeOK
    <2>2. batch[t] \in SUBSET Quad /\ batch[t] \subseteq Scope
      BY DEF TypeOK, IndexInv, TaskInHand, InHand
    <2>3. /\ DeletesThrough(S)
          /\ \A i \in DOMAIN S : S[i].op # "quads+" /\ S[i].of \subseteq batch[t]
          /\ \A q \in batch[t] : \E i \in DOMAIN S : Has(S, i, "quads-", q)
      BY <2>2, DeletionsThrough, DeletionsSweep DEF Sweeping
    <2> HIDE DEF S
    <2>4. TaskInHand(t)'
      BY <1>3, <2>1, <2>2, <2>3 DEF TaskInHand, InHand, Has
    <2>5. \A q : Owed(t, q) => Owed(t, q)'
      BY <1>1, <1>3, <2>1 DEF Owed, Owes
    <2> QED
      BY <1>1, <2>1, <2>4, <2>5, StillShows DEF IndexInv
  <1> QED
    BY <1>2, <1>3 DEF ProjectionFails

\* A batch about what t concerns leaves the vectors of other quads.
LEMMA LandVectorsAside ==
    ASSUME TypeOK, NEW t \in Task, Sound(quads, chunks, vec), NEW S \in Seq(Statement), Land(S),
           \A i \in DOMAIN S : S[i].op # "vec+" => S[i].of \subseteq Concerns(t)
    PROVE  VectorAsides(t) /\ LandedVectors(S, chunks, vec, vec')
  <1>1. LandedVectors(S, chunks, vec, vec')
    BY LandVectors
  <1>2. ASSUME NEW K \in SUBSET Quad, K \cap Concerns(t) = {},
               NEW c \in chunks, c.quad \in K, c.id \in vec
        PROVE  c.id \in vec'
    <2>1. \A i \in DOMAIN S : ~Has(S, i, "vec-", c.quad)
      BY <1>2 DEF Has
    <2> QED
      BY <1>1, <1>2, <2>1 DEF LandedVectors
  <1> QED
    BY <1>1, <1>2 DEF VectorAsides, VectorsAside

\* The last batch of a task lands: what is then neither in its hands nor indexed
\* is beyond the anchor of its rebuild.
LEMMA LandingShows ==
    ASSUME TypeOK, apart, OrphanInv, IndexInv, NEW t \in Task, Land(staged[t]),
           pc[t] \in {"flush", "insert", "cleanup", "sweep"}
    PROVE  /\ OnePerPart(chunks') /\ OfTexts(chunks') /\ VectorAsides(t)
           /\ Landed(staged[t], quads, chunks, vec, quads', chunks', vec')
           /\ LandedVectors(staged[t], chunks, vec, vec')
           /\ \A q \in quads' \cap Scope :
                 (q \in quads => Indexed(q, chunks, vec) \/ Owed(t, q)) =>
                 \/ q \in batch[t]
                 \/ Indexed(q, chunks', vec')
                 \/ scan[t].on /\ q > scan[t].anchor
  <1> DEFINE S == staged[t]
  <1>1. S \in Seq(Statement)
    BY DEF TypeOK
  <1>2. /\ InOrder(pc[t], S, batch[t], todo[t], Concerns(t), quads, chunks, vec)
        /\ InHand(pc[t], S, batch[t], todo[t], scan[t], quads, chunks, vec)
        /\ Sound(quads, chunks, vec)
    BY DEF OrphanInv, TaskOrder, IndexInv, TaskInHand
  <1>3. Landed(S, quads, chunks, vec, quads', chunks', vec')
    BY <1>1, LandMeans
  <1>4. VectorAsides(t) /\ LandedVectors(S, chunks, vec, vec')
    BY <1>1, <1>2, LandVectorsAside DEF InOrder, Ordered
  <1>5. chunks' \subseteq chunks
    BY <1>3 DEF Landed
  <1>6. OnePerPart(chunks') /\ OfTexts(chunks')
    BY <1>5 DEF IndexInv, OnePerPart, OfTexts
  <1> HIDE DEF S
  <1>7. ASSUME NEW q \in quads' \cap Scope,
               q \in quads => Indexed(q, chunks, vec) \/ Owed(t, q)
        PROVE  \/ q \in batch[t]
               \/ Indexed(q, chunks', vec')
               \/ scan[t].on /\ q > scan[t].anchor
    <2> SUFFICES ASSUME q \notin batch[t], ~(scan[t].on /\ q > scan[t].anchor)
                 PROVE  Indexed(q, chunks', vec')
      OBVIOUS
    <2>1. q \in Quad
      BY ScopeAssumption
    <2>2. q \in quads /\ \A i \in DOMAIN S : ~Has(S, i, "quads-", q)
      BY <1>2, <1>3, <2>1 DEF Landed, InHand
    <2>3. Indexed(q, chunks, vec)
      BY <1>7, <2>2 DEF Owed, Owes, S
    <2>4. \A i \in DOMAIN S : ~Has(S, i, "vec-", q) /\ ~Has(S, i, "chunks-", q)
      <3>1. CASE pc[t] \in {"flush", "cleanup"}
        BY <1>2, <2>1, <2>2, <3>1 DEF InHand, DeletesThrough
      <3>2. CASE pc[t] = "sweep"
        BY <1>2, <3>2 DEF InHand, Has
      <3>3. CASE pc[t] = "insert"
        BY <1>2, <3>3 DEF InOrder, Has
      <3> QED
        BY <3>1, <3>2, <3>3
    <2> QED
      BY <1>3, <1>4, <2>3, <2>4, LandKeepsIndex
  <1> QED
    BY <1>3, <1>4, <1>6, <1>7 DEF S

LEMMA CleanupShows ==
    ASSUME TypeOK, apart, OrphanInv, IndexInv, NEW t \in Task, Cleanup(t)
    PROVE  Shows(t)
  <1>1. Land(staged[t]) /\ pc[t] = "cleanup" /\ End(t)
    BY DEF Cleanup, FlushRest
  <1>2. /\ InHand("cleanup", staged[t], batch[t], todo[t], scan[t], quads, chunks, vec)
        /\ batch[t] \subseteq Quad /\ ~scan[t].on
    BY <1>1 DEF TypeOK, IndexInv, TaskInHand, InHand
  <1>3. Landed(staged[t], quads, chunks, vec, quads', chunks', vec')
    BY <1>1, LandingShows
  <1>4. \A q \in batch[t] : q \notin quads'
    BY <1>2, <1>3, LandedIsGone
  <1>5. Carries(t)
    BY <1>1, <1>2, <1>4, LandingShows DEF Carries
  <1> QED
    BY <1>1, <1>5, EndInHand, LandingShows DEF Shows

LEMMA FlushVecShows ==
    ASSUME TypeOK, apart, OrphanInv, IndexInv, NEW t \in Task, FlushVec(t)
    PROVE  Shows(t)
  <1>1. Land(staged[t]) /\ pc[t] = "insert" /\ todo[t] = {}
    BY DEF FlushVec, FlushRest
  <1>2. /\ InHand("insert", staged[t], batch[t], {}, scan[t], quads, chunks, vec)
        /\ InOrder("insert", staged[t], batch[t], {}, Concerns(t), quads, chunks, vec)
    BY <1>1 DEF OrphanInv, TaskOrder, IndexInv, TaskInHand
  <1>3. /\ Landed(staged[t], quads, chunks, vec, quads', chunks', vec')
        /\ LandedVectors(staged[t], chunks, vec, vec')
    BY <1>1, LandingShows
  <1>4. \A q \in batch[t] : Indexed(q, chunks', vec')
    BY <1>2, <1>3, LandedIsIndexed
  <1>5. \A q \in quads' \cap Scope :
           (q \in quads => Indexed(q, chunks, vec) \/ Owed(t, q)) =>
           Indexed(q, chunks', vec') \/ (scan[t].on /\ q > scan[t].anchor)
    BY <1>1, <1>4, LandingShows
  <1>6. quads' \subseteq quads
    BY <1>2, <1>3 DEF Landed, InOrder, Has
  <1>7. CASE End(t) /\ (scan[t].on => scan[t].last)
    <2>1. scan[t].on => \A q \in quads' : q <= scan[t].anchor
      BY <1>2, <1>6, <1>7 DEF InHand
    <2>2. quads' \subseteq Nat /\ scan[t].anchor \in Nat
      BY <1>6, QuadAssumption DEF TypeOK
    <2>3. \A q \in quads' : ~(scan[t].on /\ q > scan[t].anchor)
      BY <2>1, <2>2
    <2>4. Carries(t)
      BY <1>5, <2>3 DEF Carries
    <2> QED
      BY <1>1, <1>7, <2>4, EndInHand, LandingShows DEF Shows
  <1>8. CASE /\ scan[t].on /\ ~scan[t].last
             /\ pc' = [pc EXCEPT ![t] = "page"]
             /\ batch' = [batch EXCEPT ![t] = {}]
             /\ staged' = [staged EXCEPT ![t] = <<>>]
             /\ UNCHANGED <<patch, look, known, todo, scan, start, landed, index>>
    <2>1. /\ pc'[t] = "page" /\ batch'[t] = {} /\ staged'[t] = <<>>
          /\ patch'[t] = patch[t] /\ scan'[t] = scan[t]
      BY <1>8 DEF TypeOK
    <2>2. TaskInHand(t)'
      BY <1>8, <2>1, EmptyIsSeq DEF TaskInHand, InHand
    <2>3. Carries(t)
      BY <1>5, <1>8, <2>1 DEF Carries, Owed, Owes
    <2> QED
      BY <1>1, <2>1, <2>2, <2>3, LandingShows DEF Shows, IndexInv
  <1> QED
    BY <1>7, <1>8 DEF FlushVec, RebuildEnds

LEMMA FlushShows ==
    ASSUME TypeOK, apart, OrphanInv, IndexInv, NEW t \in Task, Flush(t)
    PROVE  Shows(t)
  <1>1. Land(staged[t]) /\ pc[t] = "flush" /\ AfterFlush(t)
    BY DEF Flush, FlushRest
  <1>2. /\ InHand("flush", staged[t], batch[t], todo[t], scan[t], quads, chunks, vec)
        /\ ~scan[t].on /\ batch[t] \subseteq Scope /\ patch[t].ins \subseteq Scope
    BY <1>1 DEF IndexInv, TaskInHand, InHand
  <1>3. Landed(staged[t], quads, chunks, vec, quads', chunks', vec')
    BY <1>1, LandingShows
  <1>4. \A q \in quads' \cap Scope :
           (q \in quads => Indexed(q, chunks, vec) \/ Owed(t, q)) =>
           q \in batch[t] \/ Indexed(q, chunks', vec')
    BY <1>1, <1>2, LandingShows
  <1>5. CASE /\ pc' = [pc EXCEPT ![t] = "embed"]
             /\ staged' = [staged EXCEPT ![t] = <<>>]
             /\ UNCHANGED <<patch, look, known, batch, todo, scan, start, landed, index>>
    <2>1. /\ pc'[t] = "embed" /\ batch'[t] = batch[t] /\ staged'[t] = <<>>
          /\ patch'[t] = patch[t] /\ scan'[t] = scan[t]
      BY <1>5 DEF TypeOK
    <2>2. \A q \in batch[t] : Unchunked(q, chunks')
      BY <1>2, <1>3 DEF InHand, Landed, Unchunked
    <2>3. TaskInHand(t)'
      BY <1>2, <2>1, <2>2, EmptyIsSeq DEF TaskInHand, InHand
    <2>4. Carries(t)
      BY <1>4, <2>1 DEF Carries, Owed, Owes
    <2> QED
      BY <1>1, <1>2, <2>1, <2>3, <2>4, LandingShows DEF Shows
  <1>6. CASE /\ pc' = [pc EXCEPT ![t] = "page"]
             /\ staged' = [staged EXCEPT ![t] = <<>>]
             /\ scan' = [scan EXCEPT ![t] = [NoScan EXCEPT !.on = TRUE]]
             /\ UNCHANGED <<patch, look, known, batch, todo, start, landed, index>>
    <2>1. /\ pc'[t] = "page" /\ batch'[t] = batch[t] /\ staged'[t] = <<>>
          /\ patch'[t] = patch[t]
          /\ scan'[t].on /\ ~scan'[t].last /\ scan'[t].anchor = 0
      BY <1>6 DEF TypeOK, NoScan
    <2>2. TaskInHand(t)'
      BY <1>2, <2>1, EmptyIsSeq DEF TaskInHand, InHand
    <2>3. \A q \in Scope : q > 0
      BY ScopeAssumption, QuadAssumption
    <2>4. Carries(t)
      BY <2>1, <2>3 DEF Carries, Owed, Owes
    <2> QED
      BY <1>1, <1>2, <2>1, <2>2, <2>4, LandingShows DEF Shows
  <1>7. CASE End(t) /\ (IF batch[t] = {} THEN UNCHANGED index ELSE Doubt)
    <2>1. Spoils(t) \/ Carries(t)
      <3>1. CASE batch[t] = {}
        BY <1>4, <3>1 DEF Carries
      <3>2. CASE Doubt
        BY <1>7, <3>2, EndInHand DEF Spoils, Doubt, TypeOK, IndexState
      <3> QED
        BY <1>7, <3>1, <3>2
    <2> QED
      BY <1>1, <1>7, <2>1, EndInHand, LandingShows DEF Shows
  <1> QED
    BY <1>1, <1>5, <1>6, <1>7 DEF AfterFlush

LEMMA SweepShows ==
    ASSUME TypeOK, apart, OrphanInv, IndexInv, NEW t \in Task, Sweep(t)
    PROVE  Shows(t)
  <1>1. /\ Land(staged[t]) /\ pc[t] = "sweep"
        /\ pc'[t] = "embed" /\ staged'[t] = <<>> /\ batch'[t] = batch[t]
        /\ patch'[t] = patch[t] /\ scan'[t] = scan[t]
    BY DEF Sweep, FlushRest, Go, TypeOK
  <1>2. /\ InHand("sweep", staged[t], batch[t], todo[t], scan[t], quads, chunks, vec)
        /\ batch[t] \subseteq Scope /\ patch[t].ins \subseteq Scope
    BY <1>1 DEF IndexInv, TaskInHand, InHand
  <1>3. Landed(staged[t], quads, chunks, vec, quads', chunks', vec')
    BY <1>1, LandingShows
  <1>4. \A q \in batch[t] : Unchunked(q, chunks')
    BY <1>2, <1>3 DEF InHand, Landed, Unchunked
  <1>5. quads' \cap Quad \subseteq quads
    BY <1>2, <1>3 DEF InHand, Landed
  <1>6. quads' \subseteq Quad
    BY <1>1, LandTypes DEF TypeOK
  <1>7. TaskInHand(t)'
    BY <1>1, <1>2, <1>4, <1>5, <1>6, EmptyIsSeq DEF TaskInHand, InHand
  <1>8. Carries(t)
    BY <1>1, LandingShows DEF Carries, Owed, Owes
  <1> QED
    BY <1>1, <1>2, <1>7, <1>8, LandingShows DEF Shows

LEMMA FlushEarlyShows ==
    ASSUME TypeOK, apart, OrphanInv, IndexInv, NEW t \in Task, FlushEarly(t)
    PROVE  Shows(t)
  <1> DEFINE S == staged[t]
             P == SubSeq(S, 1, Threshold)
             R == SubSeq(S, Threshold + 1, Len(S))
             J == Concerns(t)
             B == batch[t]
             D == todo[t]
             r == scan[t]
             p == pc[t]
  <1>1. /\ Land(P) /\ Len(S) >= Threshold
        /\ p \in {"lookup", "flush", "insert", "cleanup", "sweep"}
        /\ pc'[t] = p /\ staged'[t] = R /\ batch'[t] = B /\ todo'[t] = D
        /\ patch'[t] = patch[t] /\ scan'[t] = r /\ landed'[t] = TRUE
    BY DEF FlushEarly, TypeOK
  <1>2. S \in Seq(Statement)
    BY DEF TypeOK
  <1>3. /\ InOrder(p, S, B, D, J, quads, chunks, vec)
        /\ InHand(p, S, B, D, r, quads, chunks, vec)
        /\ Sound(quads, chunks, vec) /\ patch[t].ins \subseteq Scope
        /\ OnePerPart(chunks) /\ OfTexts(chunks)
    BY DEF OrphanInv, TaskOrder, IndexInv, TaskInHand
  <1>4. \A q : Owed(t, q) <=> Owes(p, S, B, landed[t], r, q)
    BY DEF Owed
  <1>5. \A q : Owed(t, q)' <=> Owes(p, R, B, TRUE, r, q)
    BY <1>1 DEF Owed
  <1>6. TaskInHand(t)' <=> InHand(p, R, B, D, r, quads', chunks', vec')
    BY <1>1 DEF TaskInHand
  <1>7. Split(S, Threshold, P, R)
    <2> HIDE DEF S
    <2>1. /\ P \in Seq(Statement) /\ R \in Seq(Statement)
          /\ DOMAIN P = 1..Threshold /\ DOMAIN R = 1..(Len(S) - Threshold)
          /\ \A i \in 1..Threshold : P[i] = S[i]
          /\ \A i \in 1..(Len(S) - Threshold) : R[i] = S[Threshold + i]
          /\ DOMAIN S = 1..Len(S) /\ Len(S) \in Nat /\ Threshold \in Nat
      BY <1>1, <1>2, Parting
    <2>2. Threshold <= Len(S)
      BY <1>1, <2>1
    <2> HIDE DEF P, R
    <2> QED
      BY <2>1, <2>2 DEF Split
  <1> HIDE DEF S, P, R, J, B, D, r, p
  <1>8. P \in Seq(Statement)
    BY <1>7 DEF Split
  <1>9. Landed(P, quads, chunks, vec, quads', chunks', vec') /\ chunks' \subseteq chunks
    BY <1>1, <1>8, LandMeans DEF Landed
  <1>10. VectorAsides(t) /\ LandedVectors(P, chunks, vec, vec')
    <2>1. \A i \in DOMAIN P : P[i].op # "vec+" => P[i].of \subseteq Concerns(t)
      BY <1>3, <1>7, SplitHas DEF InOrder, Ordered, J
    <2> QED
      BY <1>1, <1>3, <1>8, <2>1, LandVectorsAside
  <1>11. quads' \in SUBSET Quad
    BY <1>1, <1>8, LandTypes DEF TypeOK
  <1>12. TaskInHand(t)'
    BY <1>3, <1>6, <1>7, <1>9, <1>10, <1>11, RestInHand
  <1>13. Carries(t)
    <2> SUFFICES ASSUME NEW q \in quads' \cap Scope,
                        q \in quads => Indexed(q, chunks, vec) \/ Owed(t, q)
                 PROVE  Indexed(q, chunks', vec') \/ Owed(t, q)'
      BY DEF Carries
    <2> DEFINE l == landed[t]
    <2>1. q \in quads => Indexed(q, chunks, vec) \/ Owes(p, S, B, l, r, q)
      BY <1>4
    <2>2. q \in quads' /\ q \in Quad
      BY ScopeAssumption
    <2> HIDE DEF l
    <2>3. Indexed(q, chunks', vec') \/ Owes(p, R, B, TRUE, r, q)
      <3>1. CASE q \in B
        BY <1>1, <3>1 DEF Owes
      <3>2. ASSUME NEW i \in DOMAIN P, Has(P, i, "quads+", q) PROVE q \in B
        BY <1>3, <1>7, <2>2, <3>2, SplitHas DEF InHand
      <3>3. ASSUME q \notin B, r.on /\ q > r.anchor
            PROVE  Owes(p, R, B, TRUE, r, q)
        BY <3>3 DEF Owes
      <3>4. ASSUME q \notin B, NEW i \in DOMAIN R, Has(R, i, "quads-", q)
            PROVE  Owes(p, R, B, TRUE, r, q)
        <4>1. p \in {"lookup", "flush"}
          BY <1>1, <1>3, <1>7, <3>4, SplitHas DEF InHand, InOrder, Has
        <4> QED
          BY <3>4, <4>1 DEF Owes
      <3>5. ASSUME q \notin B, ~(r.on /\ q > r.anchor), \A i \in DOMAIN R : ~Has(R, i, "quads-", q)
            PROVE  Indexed(q, chunks', vec')
        <4>1. q \in quads /\ \A i \in DOMAIN P : ~Has(P, i, "quads-", q)
          BY <1>9, <2>2, <3>2, <3>5 DEF Landed
        <4>2. \A i \in DOMAIN S : ~Has(S, i, "quads-", q)
          <5> SUFFICES ASSUME NEW i \in DOMAIN S, Has(S, i, "quads-", q) PROVE FALSE
            OBVIOUS
          <5>1. CASE i \in DOMAIN P
            BY <1>7, <4>1, <5>1, SplitHas
          <5>2. CASE i - Threshold \in DOMAIN R
            <6>1. Threshold + (i - Threshold) = i
              BY <1>7 DEF Split
            <6> QED
              BY <1>7, <3>5, <5>2, <6>1, SplitHas
          <5> QED
            BY <1>7, <5>1, <5>2, SplitHas
        <4>3. Indexed(q, chunks, vec)
          BY <2>1, <3>5, <4>1, <4>2 DEF Owes
        <4>4. \A i \in DOMAIN P : ~Has(P, i, "vec-", q) /\ ~Has(P, i, "chunks-", q)
          <5>1. CASE p \in {"lookup", "flush", "cleanup"}
            <6>1. DeletesThrough(S)
              BY <1>3, <5>1 DEF InHand
            <6> QED
              BY <1>7, <2>2, <3>5, <4>1, <6>1, RestThrough
          <5>2. CASE p = "sweep"
            BY <1>3, <1>7, <3>5, <5>2, SplitHas DEF InHand, Has
          <5>3. CASE p = "insert"
            BY <1>3, <1>7, <5>3, SplitHas DEF InOrder, Has
          <5> QED
            BY <1>1, <5>1, <5>2, <5>3
        <4> QED
          BY <1>9, <1>10, <4>3, <4>4, LandKeepsIndex
      <3> QED
        BY <3>1, <3>3, <3>4, <3>5
    <2> QED
      BY <1>5, <2>3
  <1>14. OnePerPart(chunks') /\ OfTexts(chunks')
    BY <1>3, <1>9 DEF OnePerPart, OfTexts
  <1> QED
    BY <1>1, <1>3, <1>10, <1>12, <1>13, <1>14 DEF Shows

\* A page of quads: its last key bounds it, it skips none, and a short one is last.
LEMMA PageFacts ==
    ASSUME TypeOK, NEW a \in Nat
    PROVE  LET rows == PageAfter(quads, a, PageSize)
               next == AnchorAfter(rows, a)
           IN  /\ next \in Nat /\ a <= next
               /\ \A q \in quads : a < q /\ q <= next => q \in rows
               /\ Cardinality(rows) < PageSize =>
                     /\ \A q \in quads : a < q => q \in rows
                     /\ \A q \in quads : q <= next
  <1> DEFINE rows == PageAfter(quads, a, PageSize)
             next == AnchorAfter(rows, a)
  <1>1. quads \in SUBSET Nat /\ IsFiniteSet(quads) /\ PageSize \in Nat
    BY QuadAssumption, SizeAssumption, FS_Subset DEF TypeOK
  <1>2. rows \subseteq quads /\ IsFiniteSet(rows) /\ \A k \in rows : a < k
    BY <1>1, PageWithin
  <1>3. Cardinality(rows) < PageSize => \A q \in quads : a < q => q \in rows
    BY <1>1, ShortPageIsLast
  <1>4. \A j \in rows, k \in quads : a < k /\ k <= j => k \in rows
    BY <1>1, PageSkipsNothing
  <1> HIDE DEF rows
  <1>5. CASE rows = {}
    <2>1. next = a
      BY <1>5 DEF AnchorAfter
    <2> HIDE DEF next
    <2> QED
      BY <1>1, <1>3, <1>5, <2>1 DEF rows, next
  <1>6. CASE rows # {}
    <2>1. next = GreatestOf(rows)
      BY <1>6 DEF AnchorAfter
    <2>2. rows \in SUBSET Nat
      BY <1>1, <1>2
    <2>3. next \in rows /\ \A j \in rows : j <= next
      BY <1>2, <1>6, <2>1, <2>2, GreatestExists
    <2> HIDE DEF next
    <2>4. next \in Nat /\ a < next
      BY <1>2, <2>2, <2>3
    <2> QED
      BY <1>1, <1>3, <1>4, <2>3, <2>4 DEF rows, next
  <1> QED
    BY <1>5, <1>6

LEMMA PageShows ==
    ASSUME TypeOK, apart, OrphanInv, IndexInv, NEW t \in Task, Page(t)
    PROVE  Shows(t)
  <1> DEFINE a == scan[t].anchor
             rows == PageAfter(quads, a, PageSize)
             last == Cardinality(rows) < PageSize
             fresh == rows \cap Scope
             next == AnchorAfter(rows, a)
  <1>1. UNCHANGED database /\ pc[t] = "page"
    BY DEF Page
  <1>2. scan[t].on /\ patch[t].ins \subseteq Scope /\ batch[t] \subseteq Scope
    BY <1>1 DEF OrphanInv, TaskOrder, IndexInv, TaskInHand, InHand
  <1>3. /\ next \in Nat /\ a \in Nat /\ a <= next /\ quads \subseteq Nat
        /\ \A q \in quads : a < q /\ q <= next => q \in rows
        /\ last => /\ \A q \in quads : a < q => q \in rows
                   /\ \A q \in quads : q <= next
    <2>1. a \in Nat
      BY DEF TypeOK
    <2> QED
      BY <2>1, PageFacts, QuadAssumption DEF TypeOK
  <1>4. \A q : Owed(t, q) <=> q > a
    BY <1>1, <1>2 DEF Owed, Owes
  <1>5. InHand("page", staged[t], batch[t], todo[t], scan[t], quads, chunks, vec)
    BY <1>1 DEF IndexInv, TaskInHand
  <1>6. CASE fresh # {}
    <2> DEFINE S == ChunkDeletions(fresh)
               at == [on |-> TRUE, anchor |-> next, last |-> last]
    <2>1. /\ pc' = [pc EXCEPT ![t] = "sweep"]
          /\ batch' = [batch EXCEPT ![t] = fresh]
          /\ staged' = [staged EXCEPT ![t] = S]
          /\ scan' = [scan EXCEPT ![t] = at]
          /\ UNCHANGED <<patch, look, known, todo, start, landed, index>>
      BY <1>6 DEF Page
    <2>2. fresh \subseteq Scope /\ fresh \in SUBSET Quad
      BY ScopeAssumption
    <2>3. /\ \A i \in DOMAIN S : S[i].op # "quads+" /\ S[i].of \subseteq fresh
          /\ \A q \in fresh : \E i \in DOMAIN S : Has(S, i, "chunks-", q)
      BY <2>2, DeletionsThrough, DeletionsSweep DEF Sweeping
    <2>4. at.on /\ at.anchor = next /\ at.last = last
      OBVIOUS
    <2>5. \A q \in quads \cap Scope : q > a => q \in fresh \/ q > next
      BY <1>3
    <2> HIDE DEF S, at, fresh, next, last
    <2>6. /\ pc'[t] = "sweep" /\ batch'[t] = fresh /\ staged'[t] = S /\ scan'[t] = at
          /\ patch'[t] = patch[t]
      BY <2>1 DEF TypeOK
    <2>7. at.last => \A q \in quads' : q <= at.anchor
      BY <1>1, <1>3, <2>4 DEF database
    <2>8. TaskInHand(t)'
      BY <2>2, <2>3, <2>6, <2>7 DEF TaskInHand, InHand, Has
    <2>9. \A q \in quads \cap Scope : Owed(t, q) => Owed(t, q)'
      BY <1>4, <2>4, <2>5, <2>6 DEF Owed, Owes
    <2> QED
      BY <1>1, <1>2, <2>6, <2>8, <2>9, StillShows
  <1>7. CASE fresh = {} /\ last
    <2>1. End(t)
      BY <1>7 DEF Page, RebuildEnds
    <2>2. \A q \in quads \cap Scope : ~Owed(t, q)
      BY <1>3, <1>4, <1>7
    <2> QED
      BY <1>1, <2>1, <2>2, FailureShows
  <1>8. CASE fresh = {} /\ ~last
    <2>1. /\ scan' = [scan EXCEPT ![t].anchor = next]
          /\ UNCHANGED <<pc, patch, batch, todo, staged>>
      BY <1>8 DEF Page
    <2>2. \A q \in quads \cap Scope : q > a => q > next
      BY <1>3, <1>8
    <2> HIDE DEF next, last, fresh
    <2>3. /\ scan'[t].on /\ scan'[t].anchor = next /\ scan'[t].last = scan[t].last
      BY <1>2, <2>1 DEF TypeOK
    <2>4. scan[t].last => \A q \in quads' : q <= next
      BY <1>1, <1>2, <1>3, <1>5 DEF InHand, database
    <2>5. TaskInHand(t)'
      BY <1>1, <1>2, <1>5, <2>1, <2>3, <2>4 DEF TaskInHand, InHand
    <2>6. \A q \in quads \cap Scope : Owed(t, q) => Owed(t, q)'
      BY <1>4, <2>2, <2>3 DEF Owed, Owes
    <2> QED
      BY <1>1, <1>2, <2>1, <2>5, <2>6, StillShows
  <1> QED
    BY <1>6, <1>7, <1>8

LEMMA InsertChunkShows ==
    ASSUME TypeInv, apart, OrphanInv, IndexInv, NEW t \in Task, InsertChunk(t)
    PROVE  Shows(t)
  <1> DEFINE S == staged[t]
             B == batch[t]
             D == todo[t]
             T == IF Vectors THEN Append(S, NewVector) ELSE S
  <1>0. TypeOK
    BY DEF TypeInv
  <1>1. PICK c \in D :
           /\ chunks' = chunks \cup {[id |-> FreshId, quad |-> c[1], part |-> c[2]]}
           /\ todo' = [todo EXCEPT ![t] = @ \ {c}]
    BY DEF InsertChunk
  <1>2. /\ pc[t] = "insert" /\ pc'[t] = "insert" /\ staged'[t] = T /\ batch'[t] = B
        /\ todo'[t] = D \ {c} /\ patch'[t] = patch[t] /\ scan'[t] = scan[t]
        /\ landed'[t] = landed[t] /\ UNCHANGED <<quads, vec>>
    BY <1>0, <1>1 DEF InsertChunk, TypeOK, NewVector, history
  <1>3. /\ InHand("insert", S, B, D, scan[t], quads, chunks, vec)
        /\ InOrder("insert", S, B, D, Concerns(t), quads, chunks, vec)
        /\ patch[t].ins \subseteq Scope /\ OnePerPart(chunks) /\ OfTexts(chunks)
    BY <1>2 DEF OrphanInv, TaskOrder, IndexInv, TaskInHand
  <1> DEFINE n == [id |-> FreshId, quad |-> c[1], part |-> c[2]]
  <1>4. n.id = FreshId /\ n.quad = c[1] /\ n.part = c[2] /\ chunks' = chunks \cup {n}
    BY <1>1
  <1>5. D \subseteq Quad \X Nat /\ \A d \in D : d[2] \in 1..Parts[d[1]]
    BY <1>0 DEF TypeOK
  <1>6. c[1] \in B /\ B \subseteq Scope
    BY <1>3 DEF InHand, InOrder
  <1>7. \A d \in D : d = <<d[1], d[2]>>
    BY <1>5
  <1> HIDE DEF n
  <1>8. OnePerPart(chunks') /\ OfTexts(chunks')
    <2>1. \A e \in chunks : ~(e.quad = n.quad /\ e.part = n.part)
      BY <1>3, <1>4 DEF InHand
    <2> QED
      BY <1>3, <1>4, <1>5, <1>6, <2>1 DEF OnePerPart, OfTexts
  <1>9. S \in Seq(Statement) /\ NewVector \in Statement
    <2>1. FreshId \in Nat
      BY FreshIdIsFresh DEF TypeInv
    <2> QED
      BY <1>0, <2>1 DEF TypeOK, NewVector, Statement
  <1> HIDE DEF S, B, D
  <1>10. /\ \A i \in DOMAIN S : i \in DOMAIN T /\ T[i] = S[i]
         /\ \A i \in DOMAIN T : (i \in DOMAIN S /\ T[i] = S[i]) \/ T[i] = NewVector
         /\ Vectors => \E i \in DOMAIN T : Has(T, i, "vec+", FreshId)
    <2>1. CASE ~Vectors
      BY <2>1
    <2>2. CASE Vectors
      <3>1. /\ Append(S, NewVector) \in Seq(Statement)
            /\ DOMAIN Append(S, NewVector) = 1..(Len(S) + 1) /\ DOMAIN S = 1..Len(S) /\ Len(S) \in Nat
            /\ \A i \in 1..Len(S) : Append(S, NewVector)[i] = S[i]
            /\ Append(S, NewVector)[Len(S) + 1] = NewVector
        BY <1>9, Appended
      <3>2. T = Append(S, NewVector)
        BY <2>2
      <3> HIDE DEF T
      <3>3. \A i \in 1..(Len(S) + 1) : i \in 1..Len(S) \/ i = Len(S) + 1
        BY <3>1
      <3>4. Len(S) + 1 \in DOMAIN T
        BY <3>1, <3>2
      <3>5. Has(T, Len(S) + 1, "vec+", FreshId)
        BY <3>1, <3>2, <3>4 DEF Has, NewVector
      <3>6. \A i \in 1..Len(S) : i \in 1..(Len(S) + 1)
        BY <3>1
      <3> QED
        BY <3>1, <3>2, <3>3, <3>4, <3>5, <3>6
    <2> QED
      BY <2>1, <2>2
  <1> HIDE DEF T
  <1>11. \A d \in D \ {c}, e \in chunks' : ~(e.quad = d[1] /\ e.part = d[2])
    <2>1. \A d \in D \ {c}, e \in chunks : ~(e.quad = d[1] /\ e.part = d[2])
      BY <1>3 DEF InHand
    <2>2. \A d \in D \ {c} : ~(n.quad = d[1] /\ n.part = d[2])
      <3> SUFFICES ASSUME NEW d \in D, n.quad = d[1], n.part = d[2] PROVE d = c
        OBVIOUS
      <3>1. d = <<d[1], d[2]>> /\ c = <<c[1], c[2]>>
        BY <1>7
      <3> QED
        BY <1>4, <3>1
    <2> QED
      BY <1>4, <2>1, <2>2
  <1>12. ASSUME NEW q \in B PROVE Pending(q, T, D \ {c}, chunks', vec')
    <2> SUFFICES ASSUME NEW k \in 1..Parts[q], <<q, k>> \notin D \ {c}
                 PROVE  \E e \in chunks' : /\ e.quad = q /\ e.part = k
                                           /\ Vectors => \/ e.id \in vec'
                                                         \/ \E i \in DOMAIN T : Has(T, i, "vec+", e.id)
      BY DEF Pending
    <2>1. CASE <<q, k>> = c
      <3>1. n \in chunks' /\ n.quad = q /\ n.part = k
        BY <1>4, <2>1
      <3> QED
        BY <1>4, <1>10, <3>1
    <2>2. CASE <<q, k>> \notin D
      <3>1. PICK e \in chunks : /\ e.quad = q /\ e.part = k
                                /\ Vectors => e.id \in vec \/ \E i \in DOMAIN S : Has(S, i, "vec+", e.id)
        BY <1>3, <2>2 DEF InHand, Pending
      <3>2. \A i \in DOMAIN S : Has(S, i, "vec+", e.id) => Has(T, i, "vec+", e.id)
        BY <1>10 DEF Has
      <3> QED
        BY <1>2, <1>4, <1>10, <3>1, <3>2
    <2> QED
      BY <2>1, <2>2
  <1>13. \A i \in DOMAIN T, q \in Quad : ~Has(T, i, "quads+", q)
    BY <1>3, <1>10 DEF InOrder, Has, NewVector
  <1>14. InHand("insert", T, B, D \ {c}, scan[t], quads', chunks', vec')
    BY <1>2, <1>3, <1>11, <1>12, <1>13 DEF InHand
  <1>15. TaskInHand(t)'
    BY <1>2, <1>14 DEF TaskInHand
  <1>16. \A q : Owed(t, q) => Owed(t, q)'
    BY <1>2 DEF Owed, Owes, B
  <1>17. \A q : Indexed(q, chunks, vec) => Indexed(q, chunks', vec')
    BY <1>2, <1>4 DEF Indexed
  <1>18. Carries(t)
    BY <1>2, <1>16, <1>17 DEF Carries
  <1>19. VectorAsides(t)
    BY <1>2, KeepingVectors
  <1> QED
    BY <1>2, <1>3, <1>8, <1>15, <1>18, <1>19 DEF Shows

LEMMA StepShows ==
    ASSUME TypeInv, apart, OrphanInv, IndexInv, NEW t \in Task, Step(t)
    PROVE  Shows(t)
  <1>1. TypeOK
    BY DEF TypeInv
  <1>2. CASE Wipe(t) \/ Lookup(t) \/ Stage(t) \/ Flush(t) \/ CommitFails(t)
    BY <1>1, <1>2, WipeShows, LookupShows, StageShows, FlushShows, CommitFailsShows
  <1>3. CASE Embed(t) \/ InsertChunk(t) \/ FlushVec(t) \/ ProjectionFails(t)
    BY <1>1, <1>3, EmbedShows, InsertChunkShows, FlushVecShows, ProjectionFailsShows
  <1>4. CASE Cleanup(t) \/ Page(t) \/ Sweep(t) \/ FlushEarly(t)
    BY <1>1, <1>4, CleanupShows, PageShows, SweepShows, FlushEarlyShows
  <1>5. CASE CleanupFails(t) \/ RebuildFails(t)
    BY <1>1, <1>5, FailureShows DEF CleanupFails, RebuildFails
  <1> QED
    BY <1>2, <1>3, <1>4, <1>5 DEF Step

LEMMA StepKeepsIndex ==
    ASSUME TypeInv, OrphanInv, IndexInv, NEW t \in Task, Step(t)
    PROVE  IndexInv'
  <1>1. TypeOK /\ index \in IndexState
    BY DEF TypeInv, TypeOK
  <1>2. Typed /\ UNCHANGED apart /\ Others(t) /\ Apartness(t)
    BY <1>1, StepTyped, OthersSame, StepApartness
  <1>3. CASE apart
    <2>1. Keeps(t) /\ Shows(t)
      BY <1>3, StepKeeps, StepShows DEF OrphanInv
    <2>2. quads' \in SUBSET Quad
      BY <1>2 DEF Typed, TableTypes
    <2> QED
      BY <1>1, <1>2, <1>3, <2>1, <2>2, ShowsAll DEF Keeps
  <1>4. CASE ~apart
    BY <1>1, <1>2, <1>4, StaysLone DEF IndexInv
  <1> QED
    BY <1>3, <1>4

\* A call that begins leaves the other tasks and the tables as they are.
LEMMA BeginsShows ==
    ASSUME TypeOK, NEW t \in Task, Others(t), UNCHANGED <<database, landed>>,
           NEW u \in Task \ {t}
    PROVE  /\ patch'[u] = patch[u]
           /\ TaskInHand(u) => TaskInHand(u)'
           /\ \A q : Owed(u, q) => Owed(u, q)'
  BY DEF Others, TaskInHand, Owed, database

LEMMA CallCommitShows ==
    ASSUME TypeOK, OrphanInv, IndexInv, NEW t \in Task, NEW p \in Patch[t], CallCommit(t, p)
    PROVE  IndexInv'
  <1> DEFINE q == [p EXCEPT !.ins = @ \cap Scope, !.del = @ \cap Scope]
             first == IF p.replace THEN "wipe" ELSE "lookup"
             S == IF p.replace THEN <<>> ELSE Deletions(q.del)
  <1>1. /\ pc[t] = "idle" /\ pc'[t] = first /\ patch'[t] = q /\ staged'[t] = S
        /\ batch'[t] = batch[t] /\ scan'[t] = scan[t]
        /\ UNCHANGED database /\ UNCHANGED landed /\ (apart' => apart)
        /\ index'.alone = {} /\ (index'.is # "doubtful" => index.is # "doubtful")
    BY DEF CallCommit, Go, TypeOK, CallBegins
  <1>2. p \in PatchType
    <2>1. Patch[t] \in SUBSET PatchType
      BY PatchAssumption
    <2> QED
      BY <2>1
  <1>3. q.ins \subseteq Scope /\ q.del \in SUBSET Quad
    BY <1>2, ScopeAssumption DEF PatchType
  <1>4. Others(t)
    BY OthersSame
  <1> HIDE DEF q
  <1>5. Lone'
    BY <1>1 DEF Lone
  <1> SUFFICES ASSUME apart' PROVE IndexInv'
    BY <1>5 DEF IndexInv
  <1>6. batch[t] = {} /\ ~scan[t].on
    BY <1>1 DEF OrphanInv, TaskOrder, InOrder, Concerns
  <1>7. /\ DeletesThrough(S)
        /\ \A i \in DOMAIN S : S[i].op # "quads+"
    <2>1. CASE p.replace
      BY <2>1, EmptyIsSeq DEF DeletesThrough
    <2>2. CASE ~p.replace
      <3>1. /\ DeletesThrough(Deletions(q.del))
            /\ \A i \in DOMAIN Deletions(q.del) : Deletions(q.del)[i].op # "quads+"
        BY <1>3, DeletionsThrough, DeletionsSweep DEF Sweeping
      <3> QED
        BY <2>2, <3>1
    <2> QED
      BY <2>1, <2>2
  <1>8. first \in {"wipe", "lookup"}
    OBVIOUS
  <1> HIDE DEF S, first
  <1>9. TaskInHand(t)'
    BY <1>1, <1>6, <1>7, <1>8 DEF TaskInHand, InHand, Has
  <1>10. \A u \in Task : patch'[u].ins \subseteq Scope /\ TaskInHand(u)'
    BY <1>1, <1>3, <1>4, <1>9, BeginsShows DEF IndexInv
  <1>11. \A u \in Task : \A r : Owed(u, r) => Owed(u, r)'
    <2>1. \A r : ~Owed(t, r)
      BY <1>1, <1>6 DEF Owed, Owes
    <2> QED
      BY <1>1, <1>4, <2>1, BeginsShows
  <1>12. Promised' => Promised
    BY <1>1 DEF Promised
  <1> QED
    BY <1>1, <1>5, <1>10, <1>11, <1>12 DEF IndexInv, database

LEMMA CallReindexShows ==
    ASSUME TypeOK, OrphanInv, IndexInv, NEW t \in Task, CallReindex(t)
    PROVE  IndexInv'
  <1>1. /\ pc[t] = "idle" /\ pc'[t] = "page" /\ patch'[t] = patch[t] /\ staged'[t] = staged[t]
        /\ batch'[t] = batch[t] /\ scan'[t].on /\ ~scan'[t].last /\ scan'[t].anchor = 0
        /\ UNCHANGED database /\ UNCHANGED landed /\ (apart' => apart)
        /\ index'.alone = IF \A u \in Task : pc[u] = "idle" THEN {t} ELSE {}
    BY DEF CallReindex, Go, TypeOK, CallBegins, NoScan, IndexState
  <1>2. Others(t)
    BY OthersSame
  <1>3. Lone'
    BY <1>1, <1>2 DEF Lone, Others
  <1> SUFFICES ASSUME apart' PROVE IndexInv'
    BY <1>3 DEF IndexInv
  <1>4. batch[t] = {}
    BY <1>1 DEF OrphanInv, TaskOrder, InOrder, Concerns
  <1>5. \A i \in DOMAIN staged[t], q \in Quad : ~Has(staged[t], i, "quads+", q)
    BY <1>1 DEF IndexInv, TaskInHand, InHand
  <1>6. TaskInHand(t)'
    BY <1>1, <1>4, <1>5 DEF TaskInHand, InHand
  <1>7. \A u \in Task : patch'[u].ins \subseteq Scope /\ TaskInHand(u)'
    BY <1>1, <1>2, <1>6, BeginsShows DEF IndexInv
  <1>8. \A q \in Scope : Owed(t, q)'
    <2>1. \A q \in Scope : q > 0
      BY ScopeAssumption, QuadAssumption
    <2> QED
      BY <1>1, <2>1 DEF Owed, Owes
  <1> QED
    BY <1>1, <1>3, <1>7, <1>8 DEF IndexInv, database

LEMMA CrashShows ==
    ASSUME IndexInv, Crash
    PROVE  IndexInv'
  <1>1. /\ index'.is = "doubtful" /\ index'.alone = {}
        /\ UNCHANGED <<quads, chunks, vec, apart>>
    BY DEF Crash, database
  <1>2. Lone' /\ ~Promised'
    BY <1>1 DEF Lone, Promised
  <1>3. ASSUME NEW t \in Task PROVE patch'[t].ins \subseteq Scope /\ TaskInHand(t)'
    <2>1. /\ pc'[t] = "idle" /\ staged'[t] = <<>> /\ batch'[t] = {} /\ ~scan'[t].on
          /\ patch'[t].ins = {}
      BY DEF Crash, NoScan, NoPatch
    <2> QED
      BY <2>1, EmptyIsSeq DEF TaskInHand, InHand
  <1> QED
    BY <1>1, <1>2, <1>3 DEF IndexInv

LEMMA WriteKeepsIndex ==
    ASSUME TypeInv, OrphanInv, IndexInv, Write
    PROVE  IndexInv'
  <1>1. TypeOK /\ Reindexer \subseteq Task
    BY PatchAssumption DEF TypeInv
  <1> QED
    BY <1>1, StepKeepsIndex, CallCommitShows, CallReindexShows, CrashShows DEF Write

LEMMA IndexInvStutters ==
    ASSUME IndexInv, UNCHANGED <<database, local, mode, pc, history>>
    PROVE  IndexInv'
  <1>1. /\ UNCHANGED <<quads, chunks, vec, pc, patch, batch, todo, staged, scan>>
        /\ UNCHANGED <<landed, index, apart>>
    BY DEF database, local, history
  <1>2. Lone' /\ (Promised' <=> Promised)
    BY <1>1 DEF IndexInv, Lone, Promised
  <1>3. \A t \in Task : /\ patch'[t] = patch[t] /\ (TaskInHand(t) => TaskInHand(t)')
                        /\ \A q : Owed(t, q) => Owed(t, q)'
    BY <1>1 DEF TaskInHand, Owed
  <1> QED
    BY <1>1, <1>2, <1>3 DEF IndexInv

LEMMA InitIndexed == Init => IndexInv
  <1> SUFFICES ASSUME Init PROVE IndexInv
    OBVIOUS
  <1>1. Lone /\ quads = {} /\ chunks = {}
    BY DEF Init, Lone
  <1>2. ASSUME NEW t \in Task PROVE patch[t].ins \subseteq Scope /\ TaskInHand(t)
    <2>1. /\ pc[t] = "idle" /\ staged[t] = <<>> /\ batch[t] = {} /\ ~scan[t].on
          /\ patch[t].ins = {}
      BY DEF Init, NoScan, NoPatch
    <2> QED
      BY <2>1, EmptyIsSeq DEF TaskInHand, InHand
  <1> QED
    BY <1>1, <1>2 DEF IndexInv, OnePerPart, OfTexts

LEMMA AlwaysIndexed == Spec => []IndexInv
  <1>1. TypeInv /\ OrphanInv /\ IndexInv /\ [Next]_vars => IndexInv'
    <2> SUFFICES ASSUME TypeInv, OrphanInv, IndexInv, [Next]_vars PROVE IndexInv'
      OBVIOUS
    <2> QED
      BY WriteKeepsIndex, IndexInvStutters DEF Next, vars
  <1> QED
    BY InitIndexed, <1>1, AlwaysTyped, AlwaysInOrder, PTL DEF Spec

LEMMA IndexedIsExact == TypeInv /\ OrphanInv /\ IndexInv => IndexIsExact
  <1> SUFFICES ASSUME TypeInv, OrphanInv, IndexInv, AllIdle, apart, index.is # "doubtful"
               PROVE  IndexMatches
    BY DEF IndexIsExact
  <1>1. /\ Sound(quads, chunks, vec) /\ OnePerPart(chunks) /\ OfTexts(chunks)
        /\ \A t \in Task : ~scan[t].on
    BY DEF OrphanInv, TaskOrder, IndexInv, AllIdle
  <1>2. \A t \in Task : \A q : ~Owed(t, q)
    BY <1>1 DEF Owed, Owes, AllIdle
  <1>3. \A q \in quads \cap Scope : Indexed(q, chunks, vec)
    BY <1>2 DEF IndexInv, Promised
  <1>4. ASSUME NEW q \in Scope
        PROVE  {c.part : c \in RowsOf({q})} = IF q \in quads THEN 1..Parts[q] ELSE {}
    <2>1. CASE q \in quads
      <3>1. \A k \in 1..Parts[q] : \E c \in chunks : c.quad = q /\ c.part = k
        BY <1>3, <2>1 DEF Indexed
      <3>2. \A c \in chunks : c.quad = q => c.part \in 1..Parts[q]
        BY <1>1 DEF OfTexts
      <3> QED
        BY <2>1, <3>1, <3>2 DEF RowsOf
    <2>2. CASE q \notin quads
      BY <1>1, <2>2 DEF RowsOf, Sound
    <2> QED
      BY <2>1, <2>2
  <1>5. \A q \in Scope : \A c, d \in RowsOf({q}) : c.part = d.part => c = d
    BY <1>1 DEF RowsOf, OnePerPart
  <1>6. RowsOf(Quad \ Scope) = {}
    BY <1>1 DEF RowsOf, OfTexts
  <1>7. vec = IF Vectors THEN Ids(chunks) ELSE {}
    <2>1. CASE Vectors
      <3>1. vec \subseteq Ids(chunks)
        BY <1>1 DEF Sound, Ids
      <3>2. ASSUME NEW c \in chunks PROVE c.id \in vec
        <4>1. c.quad \in quads \cap Scope /\ c.part \in 1..Parts[c.quad]
          BY <1>1 DEF Sound, OfTexts
        <4>2. PICK d \in chunks : d.quad = c.quad /\ d.part = c.part /\ d.id \in vec
          BY <1>3, <2>1, <4>1 DEF Indexed
        <4> QED
          BY <1>1, <4>2 DEF OnePerPart
      <3> QED
        BY <2>1, <3>1, <3>2 DEF Ids
    <2>2. CASE ~Vectors
      BY <1>1, <2>2 DEF Sound
    <2> QED
      BY <2>1, <2>2
  <1> QED
    BY <1>4, <1>5, <1>6, <1>7 DEF IndexMatches

\* Whenever no call is under way the search index is exact: each stored quad in
\* scope has a chunk for each part of its text, once, with its vector, and there
\* are no others; unless something happened that only a rebuild repairs, and
\* then a rebuild that has the store to itself and ends well repairs it.  For
\* any tasks, quads, patches, texts and sizes, with batches split anywhere, as
\* long as the calls that overlap are about different quads.
THEOREM IndexStaysExact == Spec => []IndexIsExact
  BY AlwaysTyped, AlwaysInOrder, AlwaysIndexed, IndexedIsExact, PTL

-----------------------------------------------------------------------------
\* How far a commit is.

\* Another commit's quads are left alone.
LEMMA OthersUnderway ==
    ASSUME TypeOK, NEW t \in Task, Others(t), Apartness(t), Asides(t), Apart,
           NEW u \in Task \ {t}, TaskOrder(u), TaskUnderway(u)
    PROVE  TaskUnderway(u)'
  <1> DEFINE K == Concerns(u)
             P == patch[u]
             B == batch[u]
             Q == quads
             Q2 == quads'
  <1>1. /\ pc'[u] = pc[u] /\ patch'[u] = P /\ staged'[u] = staged[u]
        /\ batch'[u] = B /\ scan'[u] = scan[u]
        /\ known'[u] = known[u] /\ look'[u] = look[u] /\ start'[u] = start[u]
    BY DEF Others, Apartness
  <1>2. Prior(u)' = Prior(u)
    BY <1>1 DEF Prior
  <1>3. K \in SUBSET Quad /\ K \cap Concerns(t) = {}
    BY DEF TaskOrder, InOrder, Ordered, Apart
  <1>4. \A q \in K : q \in Q <=> q \in Q2
    BY <1>3 DEF Asides, Aside
  <1>5. pc[u] # "idle" => NamedBy(P) \subseteq K
    <2>1. P.ins \subseteq Quad /\ P.del \subseteq Quad
      BY DEF TypeOK, PatchType
    <2> QED
      BY <2>1 DEF Concerns, NamedBy
  <1>6. Underway(pc[u], P, Prior(u), known[u], look[u], staged[u], B, scan[u], Q)
    BY DEF TaskUnderway
  <1> HIDE DEF P, B, Q, Q2, K
  <1>7. pc[u] # "idle" => \A q \in NamedBy(P) : q \in Q <=> q \in Q2
    BY <1>4, <1>5
  <1>8. /\ P.ins \subseteq NamedBy(P) /\ P.del \subseteq NamedBy(P)
        /\ Spared(P, Prior(u)) \subseteq NamedBy(P)
    BY DEF NamedBy, Spared
  <1>9. Underway(pc[u], P, Prior(u), known[u], look[u], staged[u], B, scan[u], Q2)
    <2>1. CASE pc[u] = "idle"
      BY <1>6, <2>1 DEF Underway
    <2>2. CASE pc[u] # "idle"
      <3>1. Q2 \cap NamedBy(P) = Q \cap NamedBy(P)
        BY <1>7, <2>2
      <3>2. P.del \cap Q2 = P.del \cap Q /\ (P.del \ B) \cap Q2 = (P.del \ B) \cap Q
        BY <1>8, <3>1
      <3>3. Spared(P, Prior(u)) \subseteq Q => Spared(P, Prior(u)) \subseteq Q2
        BY <1>8, <3>1
      <3>4. Q2 \cap (NamedBy(P) \ B) = Q \cap (NamedBy(P) \ B)
        BY <3>1
      <3> QED
        BY <1>6, <3>1, <3>2, <3>3, <3>4 DEF Underway
    <2> QED
      BY <2>1, <2>2
  <1> QED
    BY <1>1, <1>2, <1>9 DEF TaskUnderway, P, B, Q2

\* A call that is over, or rebuilds, has nothing to take back.
LEMMA EndUnderway ==
    ASSUME TypeOK, NEW t \in Task, End(t)
    PROVE  TaskUnderway(t)'
  <1>1. pc'[t] = "idle" /\ known'[t] = {}
    BY DEF TypeOK, End
  <1> QED
    BY <1>1 DEF TaskUnderway, Underway

LEMMA RebuildUnderway ==
    ASSUME NEW t \in Task, pc'[t] \in {"page", "sweep", "embed", "insert"},
           pc'[t] \in {"embed", "insert"} => scan'[t].on
    PROVE  TaskUnderway(t)'
  BY DEF TaskUnderway, Underway

\* What a batch makes of the quads.
LEMMA LandedQuads ==
    ASSUME NEW S, NEW Q, NEW C, NEW V, NEW Q2, NEW C2, NEW V2,
           Landed(S, Q, C, V, Q2, C2, V2), NEW B,
           \A i \in DOMAIN S, q \in Quad : Has(S, i, "quads+", q) => q \in B, Q2 \subseteq Quad
    PROVE  /\ \A q \in Q2 \ B : q \in Q /\ \A i \in DOMAIN S : ~Has(S, i, "quads-", q)
           /\ \A q \in Q : (\A i \in DOMAIN S : ~Has(S, i, "quads-", q)) => q \in Q2
  BY DEF Landed

LEMMA WipeUnderway ==
    ASSUME TypeOK, NEW t \in Task, TaskUnderway(t), Wipe(t)
    PROVE  TaskUnderway(t)'
  <1> DEFINE P == patch[t]
             S == Deletions(P.del)
  <1>1. /\ pc[t] = "wipe" /\ pc'[t] = "lookup" /\ staged'[t] = S /\ patch'[t] = P
        /\ known'[t] = known[t] /\ look'[t] = look[t] /\ start'[t] = start[t]
        /\ quads' = {}
    BY DEF Wipe, Go, TypeOK, history
  <1>2. Prior(t)' = Prior(t)
    BY <1>1 DEF Prior
  <1>3. Prior(t) = {} /\ known[t] = {} /\ look[t] = P.ins
    BY <1>1 DEF TaskUnderway, Underway
  <1>4. \A i \in DOMAIN S : S[i].of \subseteq P.del
    <2>1. P.del \in SUBSET Quad
      BY DEF TypeOK, PatchType
    <2> QED
      BY <2>1, DeletionsSweep DEF Sweeping
  <1> HIDE DEF S, P
  <1>5. Spared(P, {}) = {}
    BY DEF Spared
  <1> QED
    BY <1>1, <1>2, <1>3, <1>4, <1>5 DEF TaskUnderway, Underway

LEMMA LookupUnderway ==
    ASSUME TypeOK, NEW t \in Task, TaskUnderway(t), Lookup(t)
    PROVE  TaskUnderway(t)'
  <1> DEFINE P == patch[t]
             L == look[t]
             K == known[t]
             slice == Slice(L, LookupSize, 1)
             before == Prior(t)
  <1>1. /\ pc[t] = "lookup" /\ pc'[t] = "lookup" /\ staged'[t] = staged[t] /\ patch'[t] = P
        /\ known'[t] = K \cup (slice \cap quads) /\ look'[t] = L \ slice
        /\ start'[t] = start[t] /\ quads' = quads
    BY DEF Lookup, TypeOK, history, database
  <1>2. Prior(t)' = before
    BY <1>1 DEF Prior
  <1>3. slice \subseteq L
    BY DEF Slice
  <1>4. /\ L \subseteq P.ins /\ K \subseteq before
        /\ \A q \in P.ins \ (P.del \cup L) : q \in before => q \in K
        /\ quads \cap NamedBy(P) \subseteq before
        /\ \A q \in P.del \cap quads : \E i \in DOMAIN staged[t] : Has(staged[t], i, "quads-", q)
        /\ \A i \in DOMAIN staged[t] : staged[t][i].op = "quads-" => staged[t][i].of \subseteq P.del
        /\ Spared(P, before) \subseteq quads
    BY <1>1 DEF TaskUnderway, Underway
  <1> HIDE DEF P, L, K, slice, before
  <1>5. \A q \in P.ins \ (P.del \cup (L \ slice)) :
           q \in before => q \in K \cup (slice \cap quads)
    BY <1>4 DEF Spared
  <1>6. K \cup (slice \cap quads) \subseteq before
    BY <1>3, <1>4 DEF NamedBy
  <1>7. L \ slice \subseteq P.ins
    BY <1>4
  <1>8. Underway("lookup", P, before, K \cup (slice \cap quads), L \ slice, staged[t],
                 batch'[t], scan'[t], quads)
    BY <1>4, <1>5, <1>6, <1>7 DEF Underway
  <1> QED
    BY <1>1, <1>2, <1>8 DEF TaskUnderway, P

LEMMA StageUnderway ==
    ASSUME TypeOK, OrphanInv, IndexInv, apart, NEW t \in Task, TaskUnderway(t), Stage(t)
    PROVE  TaskUnderway(t)'
  <1> DEFINE P == patch[t]
             S == staged[t]
             B == Novel(t)
             U == S \o Insertions(B)
             before == Prior(t)
  <1>1. /\ pc[t] = "lookup" /\ pc'[t] = "flush" /\ staged'[t] = U /\ patch'[t] = P
        /\ batch'[t] = B /\ start'[t] = start[t] /\ quads' = quads /\ look[t] = {}
    BY DEF Stage, Go, TypeOK, history, database
  <1>2. Prior(t)' = before
    BY <1>1 DEF Prior
  <1>3. /\ known[t] \subseteq before
        /\ \A q \in P.ins \ P.del : q \in before => q \in known[t]
        /\ quads \cap NamedBy(P) \subseteq before
        /\ \A q \in P.del \cap quads : \E i \in DOMAIN S : Has(S, i, "quads-", q)
        /\ \A i \in DOMAIN S : S[i].op = "quads-" => S[i].of \subseteq P.del
        /\ Spared(P, before) \subseteq quads
    BY <1>1 DEF TaskUnderway, Underway
  <1>4. B = Fresh(P, before)
    BY <1>3 DEF Novel, Fresh
  <1>5. S \in Seq(Statement) /\ (\A i \in DOMAIN S : S[i].op # "quads+") /\ DeletesThrough(S)
    BY <1>1 DEF TypeOK, OrphanInv, TaskOrder, InOrder, IndexInv, TaskInHand, InHand
  <1>6. B \in SUBSET Quad
    BY DEF Novel, TypeOK, PatchType
  <1> HIDE DEF P, S, B, before
  <1>7. /\ \A i \in DOMAIN S : \A op, q : Has(S, i, op, q) => Has(U, i, op, q)
        /\ \A i \in DOMAIN U : U[i].op = "quads-" =>
              U[i].of \subseteq B \/ (i \in DOMAIN S /\ U[i] = S[i])
    BY <1>5, <1>6, StagedThrough
  <1> HIDE DEF U
  <1>8. \A q \in P.del \cap quads : \E i \in DOMAIN U : Has(U, i, "quads-", q)
    BY <1>3, <1>7 DEF Has
  <1>9. \A i \in DOMAIN U : U[i].op = "quads-" => U[i].of \subseteq P.del \cup B
    <2> SUFFICES ASSUME NEW i \in DOMAIN U, U[i].op = "quads-"
                 PROVE  U[i].of \subseteq P.del \cup B
      OBVIOUS
    <2>1. CASE U[i].of \subseteq B
      BY <2>1
    <2>2. CASE i \in DOMAIN S /\ U[i] = S[i]
      BY <1>3, <2>2
    <2> QED
      BY <1>7, <2>1, <2>2
  <1>10. Underway("flush", P, before, known'[t], look'[t], U, B, scan'[t], quads)
    BY <1>3, <1>4, <1>8, <1>9 DEF Underway
  <1> QED
    BY <1>1, <1>2, <1>10 DEF TaskUnderway, P

\* What the last batch of a commit makes of the quads: those taken for new are
\* there, of the others its patch names those it spares, and no other changes.
LEMMA LastBatchLands ==
    ASSUME TypeOK, OrphanInv, IndexInv, apart, NEW t \in Task, TaskUnderway(t),
           pc[t] = "flush", Land(staged[t])
    PROVE  /\ batch[t] = Fresh(patch[t], Prior(t)) /\ batch[t] \subseteq quads'
           /\ quads' \cap (NamedBy(patch[t]) \ batch[t]) = Spared(patch[t], Prior(t))
           /\ quads' \ NamedBy(patch[t]) = quads \ NamedBy(patch[t])
  <1> DEFINE P == patch[t]
             S == staged[t]
             B == batch[t]
             before == Prior(t)
  <1>1. /\ quads \cap NamedBy(P) \subseteq before \cup B
        /\ \A q \in (P.del \ B) \cap quads : \E i \in DOMAIN S : Has(S, i, "quads-", q)
        /\ \A i \in DOMAIN S : S[i].op = "quads-" => S[i].of \subseteq P.del \cup B
        /\ Spared(P, before) \subseteq quads /\ B = Fresh(P, before)
    BY DEF TaskUnderway, Underway
  <1>2. /\ Landed(S, quads, chunks, vec, quads', chunks', vec')
        /\ quads' \subseteq Quad /\ quads \subseteq Quad
        /\ \A i \in DOMAIN S, q \in Quad : Has(S, i, "quads+", q) => q \in B
    BY LandingShows, LandTypes DEF TypeOK, IndexInv, TaskInHand, InHand
  <1>3. \A q \in B : \/ \E i \in DOMAIN S : Has(S, i, "quads+", q)
                     \/ q \in quads /\ \A i \in DOMAIN S : ~Has(S, i, "quads-", q)
    BY DEF OrphanInv, TaskOrder, InOrder
  <1> HIDE DEF P, S, B, before
  <1>4. /\ \A q \in quads' \ B : q \in quads /\ \A i \in DOMAIN S : ~Has(S, i, "quads-", q)
        /\ \A q \in quads : (\A i \in DOMAIN S : ~Has(S, i, "quads-", q)) => q \in quads'
    BY <1>2, LandedQuads
  <1>5. B \subseteq quads'
    BY <1>2, <1>3 DEF Landed
  <1>6. B \subseteq NamedBy(P) /\ P.del \subseteq NamedBy(P)
    BY <1>1 DEF Fresh, NamedBy
  <1>7. quads' \cap (NamedBy(P) \ B) = Spared(P, before)
    <2>1. ASSUME NEW q \in Spared(P, before) PROVE q \in quads' /\ q \in NamedBy(P) \ B
      <3>1. q \in P.ins /\ q \in before /\ q \notin P.del /\ q \notin B
        BY <1>1, <2>1 DEF Spared, Fresh
      <3>2. \A i \in DOMAIN S : ~Has(S, i, "quads-", q)
        BY <1>1, <3>1 DEF Has
      <3> QED
        BY <1>1, <1>4, <2>1, <3>1, <3>2 DEF NamedBy
    <2>2. ASSUME NEW q \in quads' \cap (NamedBy(P) \ B) PROVE q \in Spared(P, before)
      <3>1. q \in quads /\ \A i \in DOMAIN S : ~Has(S, i, "quads-", q)
        BY <1>4, <2>2
      <3>2. q \in before /\ q \notin P.del
        BY <1>1, <2>2, <3>1
      <3> QED
        BY <2>2, <3>2 DEF Spared, NamedBy
    <2> QED
      BY <2>1, <2>2
  <1>8. quads' \ NamedBy(P) = quads \ NamedBy(P)
    <2>1. \A q \in quads \ NamedBy(P) : \A i \in DOMAIN S : ~Has(S, i, "quads-", q)
      BY <1>1, <1>6 DEF Has
    <2> QED
      BY <1>4, <1>6, <2>1
  <1> QED
    BY <1>1, <1>5, <1>7, <1>8 DEF P, B, before

LEMMA FlushUnderway ==
    ASSUME TypeOK, OrphanInv, IndexInv, apart, NEW t \in Task, TaskUnderway(t), Flush(t)
    PROVE  TaskUnderway(t)'
  <1>1. Land(staged[t]) /\ pc[t] = "flush" /\ AfterFlush(t)
    BY DEF Flush, FlushRest
  <1>2. CASE End(t)
    BY <1>2, EndUnderway
  <1>3. CASE pc' = [pc EXCEPT ![t] = "page"]
    <2>1. pc'[t] = "page"
      BY <1>3 DEF TypeOK
    <2> QED
      BY <2>1, RebuildUnderway
  <1>4. CASE /\ pc' = [pc EXCEPT ![t] = "embed"]
             /\ UNCHANGED <<patch, look, known, batch, todo, scan, start, landed, index>>
    <2>1. /\ pc'[t] = "embed" /\ patch'[t] = patch[t] /\ batch'[t] = batch[t]
          /\ Prior(t)' = Prior(t)
      BY <1>4 DEF TypeOK, Prior
    <2> QED
      BY <1>1, <2>1, LastBatchLands DEF TaskUnderway, Underway
  <1> QED
    BY <1>1, <1>2, <1>3, <1>4 DEF AfterFlush

LEMMA FlushEarlyUnderway ==
    ASSUME TypeOK, OrphanInv, IndexInv, apart, NEW t \in Task, TaskUnderway(t), FlushEarly(t)
    PROVE  TaskUnderway(t)'
  <1> DEFINE S == staged[t]
             F == SubSeq(S, 1, Threshold)
             R == SubSeq(S, Threshold + 1, Len(S))
             P == patch[t]
             B == batch[t]
             p == pc[t]
             r == scan[t]
             before == Prior(t)
  <1>1. /\ Land(F) /\ Len(S) >= Threshold
        /\ p \in {"lookup", "flush", "insert", "cleanup", "sweep"}
        /\ pc'[t] = p /\ staged'[t] = R /\ batch'[t] = B /\ patch'[t] = P /\ scan'[t] = r
        /\ known'[t] = known[t] /\ look'[t] = look[t] /\ start'[t] = start[t]
    BY DEF FlushEarly, TypeOK
  <1>2. Prior(t)' = before /\ S \in Seq(Statement)
    BY <1>1 DEF Prior, TypeOK
  <1>3. Split(S, Threshold, F, R)
    <2> HIDE DEF S
    <2>1. /\ F \in Seq(Statement) /\ R \in Seq(Statement)
          /\ DOMAIN F = 1..Threshold /\ DOMAIN R = 1..(Len(S) - Threshold)
          /\ \A i \in 1..Threshold : F[i] = S[i]
          /\ \A i \in 1..(Len(S) - Threshold) : R[i] = S[Threshold + i]
          /\ DOMAIN S = 1..Len(S) /\ Len(S) \in Nat /\ Threshold \in Nat
      BY <1>1, <1>2, Parting
    <2>2. Threshold <= Len(S)
      BY <1>1, <2>1
    <2> HIDE DEF F, R
    <2> QED
      BY <2>1, <2>2 DEF Split
  <1>4. /\ InHand(p, S, B, todo[t], r, quads, chunks, vec)
        /\ InOrder(p, S, B, todo[t], Concerns(t), quads, chunks, vec)
        /\ Underway(p, P, before, known[t], look[t], S, B, r, quads)
    BY DEF OrphanInv, TaskOrder, IndexInv, TaskInHand, TaskUnderway
  <1> HIDE DEF S, F, R, P, B, p, r, before
  <1>5. F \in Seq(Statement)
    BY <1>3 DEF Split
  <1>6. /\ Landed(F, quads, chunks, vec, quads', chunks', vec')
        /\ quads' \subseteq Quad
    BY <1>1, <1>5, LandMeans, LandTypes
  <1>7. \A i \in DOMAIN F, q \in Quad : Has(F, i, "quads+", q) => p = "flush" /\ q \in B
    BY <1>3, <1>4, SplitHas DEF InHand
  <1>8. /\ \A q \in quads' \ B : q \in quads /\ \A i \in DOMAIN F : ~Has(F, i, "quads-", q)
        /\ \A q \in quads : (\A i \in DOMAIN F : ~Has(F, i, "quads-", q)) => q \in quads'
        /\ p # "flush" => quads' \subseteq quads
    BY <1>6, <1>7 DEF Landed
  <1>9. ASSUME NEW q, q \in quads' \ B \/ (p = "lookup" /\ q \in quads'),
               \E i \in DOMAIN S : Has(S, i, "quads-", q)
        PROVE  \E i \in DOMAIN R : Has(R, i, "quads-", q)
    <2>1. \A i \in DOMAIN F : ~Has(F, i, "quads-", q)
      BY <1>6, <1>7, <1>8, <1>9 DEF Landed
    <2>2. PICK i \in DOMAIN S : Has(S, i, "quads-", q)
      BY <1>9
    <2>3. CASE i \in DOMAIN F
      BY <1>3, <2>1, <2>2, <2>3, SplitHas
    <2>4. CASE i - Threshold \in DOMAIN R
      <3>1. Threshold + (i - Threshold) = i
        BY <1>3 DEF Split
      <3> QED
        BY <1>3, <2>2, <2>4, <3>1, SplitHas
    <2> QED
      BY <1>3, <2>2, <2>3, <2>4, SplitHas
  <1>10. CASE p = "lookup"
    <2>1. \A q \in Spared(P, before) : \A i \in DOMAIN F : ~Has(F, i, "quads-", q)
      BY <1>3, <1>4, <1>10, SplitHas DEF Underway, Spared, Has
    <2>2. Spared(P, before) \subseteq quads'
      BY <1>4, <1>8, <1>10, <2>1 DEF Underway
    <2>3. \A i \in DOMAIN R : R[i].op = "quads-" => R[i].of \subseteq P.del
      BY <1>3, <1>4, <1>10, SplitHas DEF Underway
    <2>4. \A q \in P.del \cap quads' : \E i \in DOMAIN R : Has(R, i, "quads-", q)
      BY <1>4, <1>8, <1>9, <1>10 DEF Underway
    <2>5. Underway(p, P, before, known[t], look[t], R, B, r, quads')
      BY <1>4, <1>8, <1>10, <2>2, <2>3, <2>4 DEF Underway
    <2> QED
      BY <1>1, <1>2, <2>5 DEF TaskUnderway
  <1>11. CASE p = "flush"
    <2>1. \A q \in Spared(P, before) : \A i \in DOMAIN F : ~Has(F, i, "quads-", q)
      BY <1>3, <1>4, <1>11, SplitHas DEF Underway, Spared, Fresh, Has
    <2>2. Spared(P, before) \subseteq quads'
      BY <1>4, <1>8, <1>11, <2>1 DEF Underway
    <2>3. \A i \in DOMAIN R : R[i].op = "quads-" => R[i].of \subseteq P.del \cup B
      BY <1>3, <1>4, <1>11, SplitHas DEF Underway
    <2>4. \A q \in (P.del \ B) \cap quads' : \E i \in DOMAIN R : Has(R, i, "quads-", q)
      BY <1>4, <1>8, <1>9, <1>11 DEF Underway
    <2>5. quads' \cap NamedBy(P) \subseteq before \cup B
      BY <1>4, <1>8, <1>11 DEF Underway
    <2>6. Underway(p, P, before, known[t], look[t], R, B, r, quads')
      BY <1>4, <1>11, <2>2, <2>3, <2>4, <2>5 DEF Underway
    <2> QED
      BY <1>1, <1>2, <2>6 DEF TaskUnderway
  <1>12. CASE p \in {"insert", "cleanup"}
    <2>1. \A q \in NamedBy(P) \ B : \A i \in DOMAIN F : ~Has(F, i, "quads-", q)
      BY <1>3, <1>4, <1>12, SplitHas DEF InHand, InOrder, Has
    <2>2. quads' \cap (NamedBy(P) \ B) = quads \cap (NamedBy(P) \ B)
      BY <1>8, <2>1
    <2>3. Underway(p, P, before, known[t], look[t], R, B, r, quads')
      BY <1>4, <1>12, <2>2 DEF Underway
    <2> QED
      BY <1>1, <1>2, <2>3 DEF TaskUnderway
  <1>13. CASE p = "sweep"
    BY <1>1, <1>13, RebuildUnderway
  <1> QED
    BY <1>1, <1>10, <1>11, <1>12, <1>13

\* The steps of a projection leave the quads alone until its clean-up.
LEMMA ProjectionUnderway ==
    ASSUME TypeOK, NEW t \in Task, TaskUnderway(t), quads' = quads,
           pc[t] \in {"embed", "insert"}, pc'[t] \in {"insert", "cleanup"},
           UNCHANGED <<patch, batch, scan, start>>
    PROVE  TaskUnderway(t)'
  BY DEF TaskUnderway, Underway, Prior

LEMMA StepUnderway ==
    ASSUME TypeOK, OrphanInv, IndexInv, apart, NEW t \in Task, TaskUnderway(t), Step(t)
    PROVE  TaskUnderway(t)'
  <1>1. CASE Wipe(t) \/ Lookup(t) \/ Stage(t) \/ Flush(t) \/ FlushEarly(t)
    BY <1>1, WipeUnderway, LookupUnderway, StageUnderway, FlushUnderway, FlushEarlyUnderway
  <1>2. CASE Embed(t)
    <2>1. /\ pc[t] = "embed" /\ pc'[t] = "insert" /\ quads' = quads
          /\ UNCHANGED <<patch, batch, scan, start>>
      BY <1>2 DEF Embed, Go, TypeOK, database, history
    <2> QED
      BY <2>1, ProjectionUnderway
  <1>3. CASE InsertChunk(t)
    <2>1. /\ pc[t] = "insert" /\ pc'[t] = "insert" /\ quads' = quads
          /\ UNCHANGED <<patch, batch, scan, start>>
      BY <1>3 DEF InsertChunk, history
    <2> QED
      BY <2>1, ProjectionUnderway
  <1>4. CASE FlushVec(t)
    <2>1. CASE End(t)
      BY <2>1, EndUnderway
    <2>2. CASE pc' = [pc EXCEPT ![t] = "page"]
      <3>1. pc'[t] = "page"
        BY <2>2 DEF TypeOK
      <3> QED
        BY <3>1, RebuildUnderway
    <2> QED
      BY <1>4, <2>1, <2>2 DEF FlushVec, RebuildEnds
  <1>5. CASE ProjectionFails(t)
    <2>1. CASE End(t)
      BY <2>1, EndUnderway
    <2>2. CASE /\ pc' = [pc EXCEPT ![t] = "cleanup"]
               /\ UNCHANGED <<patch, look, known, batch, scan, start, landed, index>>
      <3>1. pc[t] \in {"embed", "insert"} /\ pc'[t] = "cleanup" /\ quads' = quads
        BY <1>5, <2>2 DEF ProjectionFails, TypeOK, database
      <3> QED
        BY <2>2, <3>1, ProjectionUnderway
    <2> QED
      BY <1>5, <2>1, <2>2 DEF ProjectionFails
  <1>6. CASE CommitFails(t) \/ Cleanup(t) \/ CleanupFails(t) \/ RebuildFails(t)
    BY <1>6, EndUnderway DEF CommitFails, Cleanup, CleanupFails, RebuildFails
  <1>7. CASE Page(t)
    <2>1. pc[t] = "page"
      BY <1>7 DEF Page
    <2>2. CASE End(t)
      BY <2>2, EndUnderway
    <2>3. CASE pc' = [pc EXCEPT ![t] = "sweep"] \/ UNCHANGED pc
      <3>1. pc'[t] \in {"sweep", "page"}
        BY <2>1, <2>3 DEF TypeOK
      <3> QED
        BY <3>1, RebuildUnderway
    <2> QED
      BY <1>7, <2>2, <2>3 DEF Page, RebuildEnds
  <1>8. CASE Sweep(t)
    <2>1. pc[t] = "sweep" /\ pc'[t] = "embed" /\ scan'[t] = scan[t]
      BY <1>8 DEF Sweep, Go, TypeOK
    <2>2. scan[t].on
      BY <2>1 DEF OrphanInv, TaskOrder
    <2> QED
      BY <2>1, <2>2, RebuildUnderway
  <1> QED
    BY <1>1, <1>2, <1>3, <1>4, <1>5, <1>6, <1>7, <1>8 DEF Step

\* A commit that begins has looked for nothing and staged its deletions.
LEMMA CallUnderway ==
    ASSUME TypeOK, NEW t \in Task, NEW p \in Patch[t], CallCommit(t, p), TaskUnderway(t)
    PROVE  TaskUnderway(t)'
  <1> DEFINE P == [p EXCEPT !.ins = @ \cap Scope, !.del = @ \cap Scope]
             S == Deletions(P.del)
  <1>1. /\ pc[t] = "idle" /\ patch'[t] = P /\ known'[t] = known[t] /\ look'[t] = P.ins
        /\ start'[t] = quads /\ quads' = quads
        /\ pc'[t] = IF p.replace THEN "wipe" ELSE "lookup"
        /\ ~p.replace => staged'[t] = S
    BY DEF CallCommit, Go, TypeOK, database
  <1>2. p \in PatchType
    <2>1. Patch[t] \in SUBSET PatchType
      BY PatchAssumption
    <2> QED
      BY <2>1
  <1>3. P.replace = p.replace /\ P.del \in SUBSET Quad
    BY <1>2, ScopeAssumption DEF PatchType
  <1>4. known[t] = {}
    BY <1>1 DEF TaskUnderway, Underway
  <1>5. CASE p.replace
    <2>1. Prior(t)' = {} /\ P.replace
      BY <1>1, <1>3, <1>5 DEF Prior
    <2> HIDE DEF P
    <2> QED
      BY <1>1, <1>4, <1>5, <2>1 DEF TaskUnderway, Underway
  <1>6. CASE ~p.replace
    <2>1. Prior(t)' = quads
      BY <1>1, <1>3, <1>6 DEF Prior
    <2>2. /\ \A q \in P.del : \E i \in DOMAIN S : Has(S, i, "quads-", q)
          /\ \A i \in DOMAIN S : S[i].of \subseteq P.del
      BY <1>3, DeletionsThrough, DeletionsSweep DEF Sweeping
    <2> HIDE DEF P, S
    <2>3. Spared(P, quads) \subseteq quads
      BY DEF Spared
    <2> QED
      BY <1>1, <1>4, <1>6, <2>1, <2>2, <2>3 DEF TaskUnderway, Underway
  <1> QED
    BY <1>5, <1>6

\* The other tasks when one begins.
LEMMA BeginsUnderway ==
    ASSUME NEW t \in Task, Others(t), quads' = quads, NEW u \in Task \ {t},
           known'[u] = known[u], look'[u] = look[u], start'[u] = start[u], TaskUnderway(u)
    PROVE  TaskUnderway(u)'
  BY DEF Others, TaskUnderway, Prior

LEMMA WriteKeepsUndo ==
    ASSUME TypeInv, OrphanInv, IndexInv, UndoInv, Write
    PROVE  UndoInv'
  <1>0. TypeOK /\ Reindexer \subseteq Task
    BY PatchAssumption DEF TypeInv
  <1>1. ASSUME NEW t \in Task, NEW p \in Patch[t], CallCommit(t, p) PROVE UndoInv'
    <2> SUFFICES ASSUME apart' PROVE \A u \in Task : TaskUnderway(u)'
      BY DEF UndoInv
    <2>0. Others(t)
      BY <1>0, <1>1, OthersSame
    <2>1. apart /\ quads' = quads
      BY <1>1 DEF CallCommit, CallBegins, database
    <2>2. \A u \in Task \ {t} : known'[u] = known[u] /\ look'[u] = look[u] /\ start'[u] = start[u]
      BY <1>0, <1>1 DEF CallCommit, TypeOK
    <2> QED
      BY <1>0, <1>1, <2>0, <2>1, <2>2, CallUnderway, BeginsUnderway DEF UndoInv
  <1>2. ASSUME NEW t \in Task, CallReindex(t) PROVE UndoInv'
    <2> SUFFICES ASSUME apart' PROVE \A u \in Task : TaskUnderway(u)'
      BY DEF UndoInv
    <2>1. apart /\ quads' = quads /\ Others(t) /\ pc'[t] = "page"
      BY <1>0, <1>2, OthersSame DEF CallReindex, CallBegins, Go, TypeOK, database
    <2>2. UNCHANGED <<known, look, start>>
      BY <1>2 DEF CallReindex
    <2>3. TaskUnderway(t)'
      BY <2>1, RebuildUnderway
    <2> QED
      BY <2>1, <2>2, <2>3, BeginsUnderway DEF UndoInv
  <1>3. ASSUME NEW t \in Task, Step(t) PROVE UndoInv'
    <2>1. UNCHANGED apart /\ Others(t) /\ Apartness(t)
      BY <1>0, <1>3, StepTyped, OthersSame, StepApartness
    <2>2. CASE apart
      <3>1. Keeps(t) /\ TaskUnderway(t)'
        BY <1>0, <1>3, <2>2, StepKeeps, StepUnderway DEF OrphanInv, UndoInv
      <3>2. \A u \in Task \ {t} : TaskUnderway(u)'
        BY <1>0, <2>1, <2>2, <3>1, OthersUnderway DEF OrphanInv, UndoInv, Keeps
      <3> QED
        BY <3>1, <3>2 DEF UndoInv
    <2>3. CASE ~apart
      BY <2>1, <2>3 DEF UndoInv
    <2> QED
      BY <2>2, <2>3
  <1>4. ASSUME Crash PROVE UndoInv'
    <2>1. \A t \in Task : pc'[t] = "idle" /\ known'[t] = {}
      BY <1>4 DEF Crash
    <2> QED
      BY <2>1 DEF UndoInv, TaskUnderway, Underway
  <1> QED
    BY <1>0, <1>1, <1>2, <1>3, <1>4 DEF Write

LEMMA UndoInvStutters ==
    ASSUME UndoInv, UNCHANGED <<database, local, mode, pc, history>>
    PROVE  UndoInv'
  BY DEF UndoInv, TaskUnderway, Prior, database, local, history

LEMMA InitUnderway == Init => UndoInv
  <1> SUFFICES ASSUME Init, NEW t \in Task PROVE TaskUnderway(t)
    BY DEF UndoInv
  <1>1. pc[t] = "idle" /\ known[t] = {}
    BY DEF Init
  <1> QED
    BY <1>1 DEF TaskUnderway, Underway

LEMMA AlwaysUnderway == Spec => []UndoInv
  <1>1. TypeInv /\ OrphanInv /\ IndexInv /\ UndoInv /\ [Next]_vars => UndoInv'
    <2> SUFFICES ASSUME TypeInv, OrphanInv, IndexInv, UndoInv, [Next]_vars PROVE UndoInv'
      OBVIOUS
    <2> QED
      BY WriteKeepsUndo, UndoInvStutters DEF Next, vars
  <1> QED
    BY InitUnderway, <1>1, AlwaysTyped, AlwaysInOrder, AlwaysIndexed, PTL DEF Spec

\* A clean-up that lands leaves what there was, less the deletions.
LEMMA CleanupUndoes ==
    ASSUME TypeOK, OrphanInv, IndexInv, UndoInv, apart, NEW t \in Task, Cleanup(t)
    PROVE  /\ quads' \cap NamedBy(patch[t]) = Spared(patch[t], Prior(t))
           /\ quads' \ NamedBy(patch[t]) = quads \ NamedBy(patch[t])
  <1> DEFINE P == patch[t]
             S == staged[t]
             B == batch[t]
             before == Prior(t)
  <1>1. Land(S) /\ pc[t] = "cleanup"
    BY DEF Cleanup, FlushRest
  <1>2. InHand("cleanup", S, B, todo[t], scan[t], quads, chunks, vec)
    BY <1>1 DEF IndexInv, TaskInHand
  <1>3. B = Fresh(P, before) /\ quads \cap (NamedBy(P) \ B) = Spared(P, before)
    BY <1>1, <1>2 DEF UndoInv, TaskUnderway, Underway, InHand
  <1>4. Landed(S, quads, chunks, vec, quads', chunks', vec') /\ quads' \subseteq Quad
    BY <1>1, LandingShows, LandTypes DEF TypeOK
  <1>5. B \subseteq Quad /\ quads \subseteq Quad
    BY DEF TypeOK
  <1> HIDE DEF P, S, B, before
  <1>6. \A q \in B : q \notin quads'
    BY <1>2, <1>4, <1>5, LandedIsGone
  <1>7. \A q \in Quad \ B : \A i \in DOMAIN S : ~Has(S, i, "quads-", q) /\ ~Has(S, i, "quads+", q)
    BY <1>2 DEF InHand, Has
  <1>8. \A q \in Quad \ B : q \in quads' <=> q \in quads
    BY <1>4, <1>7 DEF Landed
  <1>9. B \subseteq NamedBy(P)
    BY <1>3 DEF Fresh, NamedBy
  <1>10. quads' \cap NamedBy(P) = quads \cap (NamedBy(P) \ B)
    BY <1>4, <1>5, <1>6, <1>8
  <1>11. quads' \ NamedBy(P) = quads \ NamedBy(P)
    BY <1>4, <1>5, <1>8, <1>9
  <1> QED
    BY <1>3, <1>10, <1>11 DEF P, before

\* A commit whose projection failed, and whose clean-up landed, leaves of the
\* quads its patch names those there were before less its deletions, and leaves
\* the quads other commits put there meanwhile, however the lookups, the batches
\* and the other tasks' steps fell in between.
THEOREM FailureAlwaysUndone == Spec => FailureUndoesInsertions
  <1>1. TypeInv /\ OrphanInv /\ IndexInv /\ UndoInv /\ [Next]_vars =>
           [\A t \in Task : apart /\ Cleanup(t) =>
              LET p == patch[t]
                  before == IF p.replace THEN {} ELSE start[t]
                  named == p.ins \cup p.del
              IN  /\ quads' \cap named = (before \cap p.ins) \ p.del
                  /\ quads' \ named = quads \ named]_vars
    <2> SUFFICES ASSUME TypeInv, OrphanInv, IndexInv, UndoInv, NEW t \in Task, apart, Cleanup(t)
                 PROVE  LET p == patch[t]
                            before == IF p.replace THEN {} ELSE start[t]
                            named == p.ins \cup p.del
                        IN  /\ quads' \cap named = (before \cap p.ins) \ p.del
                            /\ quads' \ named = quads \ named
      OBVIOUS
    <2>1. /\ quads' \cap NamedBy(patch[t]) = Spared(patch[t], Prior(t))
          /\ quads' \ NamedBy(patch[t]) = quads \ NamedBy(patch[t])
      BY CleanupUndoes DEF TypeInv
    <2>2. Spared(patch[t], Prior(t)) = (Prior(t) \cap patch[t].ins) \ patch[t].del
      BY DEF Spared
    <2> QED
      BY <2>1, <2>2 DEF NamedBy, Prior
  <1> QED
    BY <1>1, AlwaysTyped, AlwaysInOrder, AlwaysIndexed, AlwaysUnderway, PTL
    DEF Spec, FailureUndoesInsertions

-----------------------------------------------------------------------------
\* A commit as one step.

\* The last batch of a commit leaves, of the quads its patch names, exactly its
\* insertions, and no other quad changes.
LEMMA FlushLandsPatch ==
    ASSUME TypeOK, OrphanInv, IndexInv, UndoInv, apart, NEW t \in Task, Flush(t)
    PROVE  /\ quads' \cap NamedBy(patch[t]) = patch[t].ins
           /\ quads' \ NamedBy(patch[t]) = quads \ NamedBy(patch[t])
  <1> DEFINE P == patch[t]
             B == batch[t]
             before == Prior(t)
  <1>1. /\ B = Fresh(P, before) /\ B \subseteq quads'
        /\ quads' \cap (NamedBy(P) \ B) = Spared(P, before)
        /\ quads' \ NamedBy(P) = quads \ NamedBy(P)
    BY LastBatchLands DEF UndoInv, Flush, FlushRest
  <1> HIDE DEF P, B, before
  <1>2. P.ins = B \cup Spared(P, before)
    BY <1>1 DEF Fresh, Spared
  <1>3. quads' \cap NamedBy(P) = P.ins
    BY <1>1, <1>2 DEF NamedBy
  <1> QED
    BY <1>1, <1>3 DEF P

\* A batch that deletes and inserts no quad leaves the quads alone.
LEMMA LandsQuietly ==
    ASSUME TypeOK, NEW S \in Seq(Statement), Land(S),
           \A i \in DOMAIN S, q \in Quad : ~Has(S, i, "quads-", q) /\ ~Has(S, i, "quads+", q)
    PROVE  quads' = quads
  <1>1. quads \subseteq Quad /\ quads' \subseteq Quad
    BY LandTypes DEF TypeOK
  <1>2. \A q \in Quad : q \in quads' <=> q \in quads
    BY LandMeans DEF Landed
  <1> QED
    BY <1>1, <1>2

\* What a task has staged in a projection or a sweep is not about rows of quads.
LEMMA ProjectsQuietly ==
    ASSUME OrphanInv, IndexInv, apart, NEW t \in Task, pc[t] \in {"insert", "sweep"}
    PROVE  \A i \in DOMAIN staged[t], q \in Quad :
              ~Has(staged[t], i, "quads-", q) /\ ~Has(staged[t], i, "quads+", q)
  <1>1. /\ InOrder(pc[t], staged[t], batch[t], todo[t], Concerns(t), quads, chunks, vec)
        /\ InHand(pc[t], staged[t], batch[t], todo[t], scan[t], quads, chunks, vec)
    BY DEF OrphanInv, TaskOrder, IndexInv, TaskInHand
  <1>2. CASE pc[t] = "insert"
    BY <1>1, <1>2 DEF InOrder, Has
  <1>3. CASE pc[t] = "sweep"
    BY <1>1, <1>3 DEF InOrder, InHand, Has
  <1> QED
    BY <1>2, <1>3

\* An early flush changes only quads the patch names; in a projection or a
\* rebuild it changes none.
LEMMA FlushEarlyQuads ==
    ASSUME TypeOK, OrphanInv, IndexInv, UndoInv, apart, NEW t \in Task, FlushEarly(t)
    PROVE  /\ quads' \ NamedBy(patch[t]) = quads \ NamedBy(patch[t])
           /\ scan[t].on => quads' = quads
  <1> DEFINE S == staged[t]
             F == SubSeq(S, 1, Threshold)
             N == NamedBy(patch[t])
             B == batch[t]
  <1>1. /\ Land(F) /\ Len(S) >= Threshold /\ S \in Seq(Statement)
        /\ pc[t] \in {"lookup", "flush", "insert", "cleanup", "sweep"}
    BY DEF FlushEarly, TypeOK
  <1>2. /\ F \in Seq(Statement) /\ DOMAIN F = 1..Threshold /\ DOMAIN S = 1..Len(S)
        /\ \A i \in 1..Threshold : F[i] = S[i]
        /\ Len(S) \in Nat /\ Threshold \in Nat
    BY <1>1, Parting
  <1> HIDE DEF F
  <1>3. \A i \in DOMAIN F : i \in DOMAIN S /\ F[i] = S[i]
    BY <1>1, <1>2
  <1>4. /\ InOrder(pc[t], S, B, todo[t], Concerns(t), quads, chunks, vec)
        /\ InHand(pc[t], S, B, todo[t], scan[t], quads, chunks, vec)
        /\ Underway(pc[t], patch[t], Prior(t), known[t], look[t], S, B, scan[t], quads)
    BY DEF OrphanInv, TaskOrder, IndexInv, TaskInHand, UndoInv, TaskUnderway
  <1>5. CASE pc[t] \in {"insert", "sweep"}
    <2>1. \A i \in DOMAIN S, q \in Quad : ~Has(S, i, "quads-", q) /\ ~Has(S, i, "quads+", q)
      BY <1>5, ProjectsQuietly
    <2>2. \A i \in DOMAIN F, q \in Quad : ~Has(F, i, "quads-", q) /\ ~Has(F, i, "quads+", q)
      BY <1>3, <2>1 DEF Has
    <2> QED
      BY <1>1, <1>2, <2>2, LandsQuietly
  <1>6. CASE pc[t] \in {"lookup", "flush", "cleanup"}
    <2>1. ~scan[t].on
      BY <1>4, <1>6 DEF InHand
    <2>2. pc[t] \in {"flush", "cleanup"} => B \subseteq N
      BY <1>4, <1>6, <2>1 DEF Underway, Fresh, NamedBy
    <2>3. \A i \in DOMAIN S : S[i].op = "quads-" => S[i].of \subseteq N
      BY <1>4, <1>6, <2>2 DEF Underway, InHand, NamedBy
    <2>4. \A i \in DOMAIN S, q \in Quad : Has(S, i, "quads+", q) => q \in N
      BY <1>4, <1>6, <2>2 DEF InHand
    <2> HIDE DEF S, N
    <2>5. \A i \in DOMAIN F, q \in Quad \ N : ~Has(F, i, "quads-", q) /\ ~Has(F, i, "quads+", q)
      BY <1>3, <2>3, <2>4 DEF Has
    <2>6. \A q \in Quad \ N : q \in quads' <=> q \in quads
      BY <1>1, <1>2, <2>5, LandMeans DEF Landed
    <2>7. quads' \subseteq Quad /\ quads \subseteq Quad
      BY <1>1, <1>2, LandTypes DEF TypeOK
    <2>8. quads' \ N = quads \ N
      BY <2>6, <2>7
    <2> QED
      BY <2>1, <2>8 DEF N
  <1> QED
    BY <1>1, <1>5, <1>6

\* A step of a task is one of five: it goes on and leaves the quads alone, wipes,
\* lands a part, lands the last batch of its commit, or ends its call.
GoesOn(t) ==
    /\ quads' = quads /\ index' = index
    /\ pc[t] # "wipe" /\ pc'[t] \notin {"idle", "wipe"}
    /\ pc'[t] \in {"lookup", "flush"} => pc[t] \in {"lookup", "flush"}
    /\ patch'[t] = patch[t] /\ start'[t] = start[t] /\ landed'[t] = landed[t]
    /\ scan'[t].on = scan[t].on

EndsCall(t) ==
    /\ End(t)
    /\ \/ CommitFails(t) \/ FlushVec(t) \/ ProjectionFails(t)
       \/ Cleanup(t) \/ CleanupFails(t) \/ Page(t) \/ RebuildFails(t)

LEMMA StepMoves ==
    ASSUME TypeOK, OrphanInv, IndexInv, apart, NEW t \in Task, Step(t)
    PROVE  GoesOn(t) \/ Wipe(t) \/ FlushEarly(t) \/ Flush(t) \/ EndsCall(t)
  <1>1. CASE Lookup(t)
    BY <1>1 DEF GoesOn, Lookup, TypeOK, database, history
  <1>2. CASE Stage(t)
    BY <1>2 DEF GoesOn, Stage, Go, TypeOK, database, history
  <1>3. CASE Embed(t)
    BY <1>3 DEF GoesOn, Embed, Go, TypeOK, database, history
  <1>4. CASE InsertChunk(t)
    BY <1>4 DEF GoesOn, InsertChunk, TypeOK, history
  <1>5. CASE FlushVec(t)
    <2>1. CASE End(t)
      BY <1>5, <2>1 DEF EndsCall
    <2>2. CASE /\ pc' = [pc EXCEPT ![t] = "page"]
               /\ UNCHANGED <<patch, look, known, todo, scan, start, landed, index>>
      <3>1. pc[t] = "insert" /\ Land(staged[t]) /\ staged[t] \in Seq(Statement)
        BY <1>5 DEF FlushVec, FlushRest, TypeOK
      <3>2. quads' = quads
        BY <3>1, ProjectsQuietly, LandsQuietly
      <3> QED
        BY <2>2, <3>1, <3>2 DEF GoesOn, TypeOK
    <2> QED
      BY <1>5, <2>1, <2>2 DEF FlushVec, RebuildEnds
  <1>6. CASE ProjectionFails(t)
    <2>1. CASE End(t)
      BY <1>6, <2>1 DEF EndsCall
    <2>2. CASE /\ pc' = [pc EXCEPT ![t] = "cleanup"]
               /\ UNCHANGED <<patch, look, known, batch, scan, start, landed, index>>
      BY <1>6, <2>2 DEF ProjectionFails, GoesOn, TypeOK, database
    <2> QED
      BY <1>6, <2>1, <2>2 DEF ProjectionFails
  <1>7. CASE CommitFails(t) \/ Cleanup(t) \/ CleanupFails(t) \/ RebuildFails(t)
    BY <1>7 DEF EndsCall, CommitFails, Cleanup, CleanupFails, RebuildFails
  <1>8. CASE Page(t)
    <2> DEFINE rows == PageAfter(quads, scan[t].anchor, PageSize)
               next == AnchorAfter(rows, scan[t].anchor)
               last == Cardinality(rows) < PageSize
    <2>1. pc[t] = "page" /\ quads' = quads
      BY <1>8 DEF Page, database
    <2>2. scan[t].on
      BY <2>1 DEF OrphanInv, TaskOrder
    <2>3. CASE End(t)
      BY <1>8, <2>3 DEF EndsCall
    <2>4. CASE /\ pc' = [pc EXCEPT ![t] = "sweep"]
               /\ scan' = [scan EXCEPT ![t] = [on |-> TRUE, anchor |-> next, last |-> last]]
               /\ UNCHANGED <<patch, look, known, todo, start, landed, index>>
      <3> HIDE DEF next, last
      <3>1. scan'[t].on
        BY <2>4 DEF TypeOK
      <3> QED
        BY <2>1, <2>2, <2>4, <3>1 DEF GoesOn, TypeOK
    <2>5. CASE /\ scan' = [scan EXCEPT ![t].anchor = next]
               /\ UNCHANGED <<pc, patch, look, known, batch, todo, staged, start, landed, index>>
      <3> HIDE DEF next
      <3>1. scan'[t].on
        BY <2>2, <2>5 DEF TypeOK
      <3> QED
        BY <2>1, <2>2, <2>5, <3>1 DEF GoesOn
    <2> QED
      BY <1>8, <2>3, <2>4, <2>5 DEF Page, RebuildEnds
  <1>9. CASE Sweep(t)
    <2>1. pc[t] = "sweep" /\ Land(staged[t]) /\ staged[t] \in Seq(Statement)
      BY <1>9 DEF Sweep, Go, FlushRest, TypeOK
    <2>2. quads' = quads
      BY <2>1, ProjectsQuietly, LandsQuietly
    <2> QED
      BY <1>9, <2>1, <2>2 DEF GoesOn, Sweep, Go, TypeOK, history
  <1> QED
    BY <1>1, <1>2, <1>3, <1>4, <1>5, <1>6, <1>7, <1>8, <1>9 DEF Step

\* Where a commit is with the quads: a replace import has only quads of its patch
\* left, nothing of the patch is there before a part has landed, and all of it is
\* once a deferred import has gone on to its rebuild.
CommitSoFar(t) ==
    LET P == patch[t]
    IN  /\ pc[t] = "idle" => P = NoPatch
        /\ t \in index.alone => ~P.import
        /\ pc[t] = "wipe" => quads = start[t]
        /\ P.replace /\ pc[t] # "wipe" => quads \subseteq NamedBy(P)
        /\ pc[t] \in {"lookup", "flush"} /\ ~landed[t] =>
              quads \cap NamedBy(P) = Prior(t) \cap NamedBy(P)
        /\ Deferred(t) /\ scan[t].on => quads \cap NamedBy(P) = P.ins

AtomicInv == apart => \A t \in Task : CommitSoFar(t)

\* Another commit's quads are left alone.
LEMMA OthersSoFar ==
    ASSUME TypeOK, quads' \subseteq Quad, NEW t \in Task, Others(t), Apartness(t), Asides(t),
           Apart, NEW u \in Task \ {t}, TaskOrder(u), CommitSoFar(u)
    PROVE  CommitSoFar(u)'
  <1> DEFINE K == Concerns(u)
             P == patch[u]
  <1>1. /\ pc'[u] = pc[u] /\ patch'[u] = P /\ scan'[u] = scan[u] /\ mode' = mode
        /\ landed'[u] = landed[u] /\ start'[u] = start[u]
        /\ u \in index'.alone => u \in index.alone
    <2>1. index \in IndexState
      BY DEF TypeOK
    <2>2. index' = index \/ Doubt \/ index'.alone = {}
      BY DEF Apartness
    <2>3. u \in index'.alone => u \in index.alone
      BY <2>1, <2>2 DEF Doubt, IndexState
    <2> QED
      BY <2>3 DEF Others, Apartness
  <1>2. K \in SUBSET Quad /\ K \cap Concerns(t) = {}
    BY DEF TaskOrder, InOrder, Ordered, Apart
  <1>3. \A q \in K : q \in quads <=> q \in quads'
    BY <1>2 DEF Asides, Aside
  <1>4. pc[u] = "wipe" => P.replace
    BY DEF TaskOrder
  <1>5. CASE pc[u] = "idle"
    BY <1>1, <1>5 DEF CommitSoFar, NoPatch, Deferred
  <1>6. CASE pc[u] # "idle"
    <2>1. NamedBy(P) \subseteq K
      BY <1>6 DEF TypeOK, PatchType, Concerns, NamedBy
    <2>2. P.replace => K = Quad
      BY <1>6 DEF Concerns
    <2>3. quads \subseteq Quad
      BY DEF TypeOK
    <2>4. quads' \cap NamedBy(P) = quads \cap NamedBy(P)
      BY <1>3, <2>1
    <2>5. P.replace => quads' = quads
      BY <1>3, <2>2, <2>3
    <2>6. Prior(u)' = Prior(u) /\ Deferred(u)' = Deferred(u)
      BY <1>1 DEF Prior, Deferred
    <2> HIDE DEF K, P
    <2> QED
      BY <1>1, <1>4, <1>6, <2>4, <2>5, <2>6 DEF CommitSoFar, P
  <1> QED
    BY <1>5, <1>6

\* What is left to show of a last batch that is not the end of the call.
FlushGoesOn(t) ==
    /\ pc'[t] \in {"embed", "page"} /\ patch'[t] = patch[t] /\ start'[t] = start[t]
    /\ index' = index
    /\ scan'[t].on => Deferred(t)

LEMMA FlushMoves ==
    ASSUME TypeOK, IndexInv, apart, NEW t \in Task, Flush(t)
    PROVE  pc[t] = "flush" /\ ~scan[t].on /\ (FlushGoesOn(t) \/ End(t))
  <1>1. pc[t] = "flush" /\ AfterFlush(t)
    BY DEF Flush
  <1>2. ~scan[t].on
    BY <1>1 DEF IndexInv, TaskInHand, InHand
  <1>3. CASE End(t)
    BY <1>1, <1>2, <1>3
  <1>4. CASE /\ pc' = [pc EXCEPT ![t] = "embed"]
             /\ UNCHANGED <<patch, look, known, batch, todo, scan, start, landed, index>>
    BY <1>1, <1>2, <1>4 DEF FlushGoesOn, TypeOK
  <1>5. CASE /\ Deferred(t)
             /\ pc' = [pc EXCEPT ![t] = "page"]
             /\ scan' = [scan EXCEPT ![t] = [NoScan EXCEPT !.on = TRUE]]
             /\ UNCHANGED <<patch, look, known, batch, todo, start, landed, index>>
    BY <1>1, <1>2, <1>5 DEF FlushGoesOn, TypeOK
  <1> QED
    BY <1>1, <1>3, <1>4, <1>5 DEF AfterFlush

LEMMA StepSoFar ==
    ASSUME TypeOK, OrphanInv, IndexInv, UndoInv, apart, NEW t \in Task, CommitSoFar(t),
           Step(t), Others(t)
    PROVE  CommitSoFar(t)'
  <1> DEFINE P == patch[t]
  <1>0. mode' = mode
    BY DEF Others
  <1>1. CASE GoesOn(t)
    <2>1. Prior(t)' = Prior(t) /\ Deferred(t)' = Deferred(t)
      BY <1>0, <1>1 DEF GoesOn, Prior, Deferred
    <2> QED
      BY <1>1, <2>1 DEF GoesOn, CommitSoFar
  <1>2. CASE Wipe(t)
    <2>1. /\ pc[t] = "wipe" /\ pc'[t] = "lookup" /\ quads' = {} /\ patch'[t] = P
          /\ scan' = scan /\ index' = index
      BY <1>2 DEF Wipe, Go, TypeOK, history
    <2>2. P.replace /\ ~scan[t].on
      BY <2>1 DEF OrphanInv, TaskOrder, IndexInv, TaskInHand, InHand
    <2>3. Prior(t)' = {}
      BY <2>1, <2>2 DEF Prior
    <2> QED
      BY <2>1, <2>2, <2>3 DEF CommitSoFar
  <1>3. CASE FlushEarly(t)
    <2>1. /\ pc[t] \notin {"idle", "wipe"} /\ pc'[t] = pc[t] /\ patch'[t] = P
          /\ scan' = scan /\ index' = index /\ landed'[t]
      BY <1>3 DEF FlushEarly, TypeOK
    <2>2. /\ quads' \ NamedBy(P) = quads \ NamedBy(P)
          /\ scan[t].on => quads' = quads
      BY <1>3, FlushEarlyQuads
    <2>3. Deferred(t)' = Deferred(t)
      BY <1>0, <2>1 DEF Deferred
    <2> HIDE DEF P
    <2>4. quads \subseteq NamedBy(P) => quads' \subseteq NamedBy(P)
      BY <2>2
    <2> QED
      BY <2>1, <2>2, <2>3, <2>4 DEF CommitSoFar, P
  <1>4. CASE Flush(t)
    <2>1. /\ quads' \cap NamedBy(P) = P.ins
          /\ quads' \ NamedBy(P) = quads \ NamedBy(P)
      BY <1>4, FlushLandsPatch
    <2>2. pc[t] = "flush" /\ (FlushGoesOn(t) \/ End(t))
      BY <1>4, FlushMoves
    <2>3. CASE FlushGoesOn(t)
      <3> HIDE DEF P
      <3>1. quads \subseteq NamedBy(P) => quads' \subseteq NamedBy(P)
        BY <2>1
      <3> QED
        BY <2>1, <2>2, <2>3, <3>1 DEF FlushGoesOn, CommitSoFar, P
    <2>4. CASE End(t)
      BY <2>4 DEF End, TypeOK, CommitSoFar, NoPatch, Deferred
    <2> QED
      BY <2>2, <2>3, <2>4
  <1>5. CASE EndsCall(t)
    BY <1>5 DEF EndsCall, End, TypeOK, CommitSoFar, NoPatch, Deferred
  <1> QED
    BY <1>1, <1>2, <1>3, <1>4, <1>5, StepMoves

LEMMA BeginsSoFar ==
    ASSUME TypeOK, OrphanInv, IndexInv, apart, NEW t \in Task, NEW p \in Patch[t],
           CallCommit(t, p), CommitSoFar(t)
    PROVE  CommitSoFar(t)'
  <1> DEFINE q == [p EXCEPT !.ins = @ \cap Scope, !.del = @ \cap Scope]
  <1>1. /\ pc[t] = "idle" /\ patch'[t] = q /\ start'[t] = quads /\ quads' = quads
        /\ pc'[t] = IF p.replace THEN "wipe" ELSE "lookup"
        /\ scan' = scan /\ index'.alone = {}
    BY DEF CallCommit, Go, TypeOK, database
  <1>2. p \in PatchType
    <2>1. Patch[t] \in SUBSET PatchType
      BY PatchAssumption
    <2> QED
      BY <2>1
  <1>3. q.replace = p.replace
    BY <1>2 DEF PatchType
  <1>4. ~scan[t].on
    BY <1>1 DEF OrphanInv, TaskOrder
  <1> HIDE DEF q
  <1>5. ~p.replace => Prior(t)' = quads
    BY <1>1, <1>3 DEF Prior
  <1> QED
    BY <1>1, <1>3, <1>4, <1>5 DEF CommitSoFar

\* The commits under way when another call begins.
LEMMA BeginningSoFar ==
    ASSUME NEW t \in Task, Others(t), quads' = quads, NEW u \in Task \ {t},
           landed'[u] = landed[u], start'[u] = start[u], u \notin index'.alone, CommitSoFar(u)
    PROVE  CommitSoFar(u)'
  BY DEF Others, CommitSoFar, Prior, Deferred

LEMMA WriteKeepsAtomic ==
    ASSUME TypeInv, OrphanInv, IndexInv, UndoInv, AtomicInv, Write
    PROVE  AtomicInv'
  <1>0. TypeOK /\ Reindexer \subseteq Task
    BY PatchAssumption DEF TypeInv
  <1>1. ASSUME NEW t \in Task, NEW p \in Patch[t], CallCommit(t, p) PROVE AtomicInv'
    <2> SUFFICES ASSUME apart' PROVE \A u \in Task : CommitSoFar(u)'
      BY DEF AtomicInv
    <2>0. Others(t)
      BY <1>0, <1>1, OthersSame
    <2>1. apart /\ quads' = quads /\ index'.alone = {}
      BY <1>1 DEF CallCommit, CallBegins, database
    <2>2. \A u \in Task \ {t} : landed'[u] = landed[u] /\ start'[u] = start[u]
      BY <1>0, <1>1 DEF CallCommit, TypeOK
    <2> QED
      BY <1>0, <1>1, <2>0, <2>1, <2>2, BeginsSoFar, BeginningSoFar DEF AtomicInv
  <1>2. ASSUME NEW t \in Task, CallReindex(t) PROVE AtomicInv'
    <2> SUFFICES ASSUME apart' PROVE \A u \in Task : CommitSoFar(u)'
      BY DEF AtomicInv
    <2>0. Others(t)
      BY <1>0, <1>2, OthersSame
    <2>1. /\ apart /\ quads' = quads /\ pc[t] = "idle" /\ pc'[t] = "page"
          /\ UNCHANGED <<patch, start, landed, mode>> /\ index'.alone \subseteq {t}
      BY <1>0, <1>2 DEF CallReindex, CallBegins, Go, TypeOK, IndexState, database
    <2>2. CommitSoFar(t)'
      <3>1. patch'[t] = NoPatch
        BY <2>1 DEF AtomicInv, CommitSoFar
      <3> QED
        BY <2>1, <3>1 DEF CommitSoFar, NoPatch, Deferred
    <2>3. \A u \in Task \ {t} : CommitSoFar(u)'
      BY <2>0, <2>1, BeginningSoFar DEF AtomicInv
    <2> QED
      BY <2>2, <2>3
  <1>3. ASSUME NEW t \in Task, Step(t) PROVE AtomicInv'
    <2>1. UNCHANGED apart /\ Others(t) /\ Apartness(t) /\ quads' \subseteq Quad
      BY <1>0, <1>3, StepTyped, OthersSame, StepApartness DEF Typed, TableTypes
    <2>2. CASE apart
      <3>1. Keeps(t) /\ CommitSoFar(t)'
        BY <1>0, <1>3, <2>1, <2>2, StepKeeps, StepSoFar DEF OrphanInv, AtomicInv
      <3>2. \A u \in Task \ {t} : CommitSoFar(u)'
        BY <1>0, <2>1, <2>2, <3>1, OthersSoFar DEF OrphanInv, AtomicInv, Keeps
      <3> QED
        BY <3>1, <3>2 DEF AtomicInv
    <2>3. CASE ~apart
      BY <2>1, <2>3 DEF AtomicInv
    <2> QED
      BY <2>2, <2>3
  <1>4. ASSUME Crash PROVE AtomicInv'
    <2>1. \A t \in Task : pc'[t] = "idle" /\ patch'[t] = NoPatch /\ scan'[t] = NoScan
      BY <1>4 DEF Crash
    <2>2. \A t \in Task : CommitSoFar(t)'
      BY <2>1 DEF CommitSoFar, NoPatch, Deferred
    <2> QED
      BY <2>2 DEF AtomicInv
  <1> QED
    BY <1>0, <1>1, <1>2, <1>3, <1>4 DEF Write

LEMMA AtomicInvStutters ==
    ASSUME AtomicInv, UNCHANGED <<database, local, mode, pc, history>>
    PROVE  AtomicInv'
  BY DEF AtomicInv, CommitSoFar, Prior, Deferred, database, local, history

LEMMA InitAtomic == Init => AtomicInv
  <1> SUFFICES ASSUME Init, NEW t \in Task PROVE CommitSoFar(t)
    BY DEF AtomicInv
  <1>1. pc[t] = "idle" /\ patch[t] = NoPatch
    BY DEF Init
  <1> QED
    BY <1>1 DEF CommitSoFar, NoPatch, Deferred

LEMMA AlwaysAtomic == Spec => []AtomicInv
  <1>1. /\ TypeInv /\ OrphanInv /\ IndexInv /\ UndoInv /\ AtomicInv
        /\ [Next]_vars
        => AtomicInv'
    <2> SUFFICES ASSUME TypeInv, OrphanInv, IndexInv, UndoInv, AtomicInv, [Next]_vars
                 PROVE  AtomicInv'
      OBVIOUS
    <2> QED
      BY WriteKeepsAtomic, AtomicInvStutters DEF Next, vars
  <1> QED
    BY InitAtomic, <1>1, AlwaysTyped, AlwaysInOrder, AlwaysIndexed, AlwaysUnderway, PTL DEF Spec

\* What the abstract store sees of the commits: which quads are settled, and which
\* calls there are.
Calls == [t \in Task |-> CallsOf(t)]

InSettled(q) ==
    \/ q \in quads /\ \A u \in Task : q \notin Touched(u)
    \/ \E u \in Task : q \in Touched(u) /\ q \in start[u]

LEMMA SettledMeans ==
    /\ \A q : q \in Settled <=> InSettled(q)
    /\ \A q : q \in Settled' <=> InSettled(q)'
  BY DEF Settled, InSettled

LEMMA SettledTypes ==
    ASSUME TypeOK
    PROVE  Settled \subseteq Quad
  <1>1. quads \subseteq Quad /\ \A u \in Task : start[u] \subseteq Quad
    BY DEF TypeOK
  <1> QED
    BY <1>1, SettledMeans DEF InSettled

LEMMA TouchedIsConcern ==
    ASSUME TypeOK, NEW t \in Task
    PROVE  Touched(t) \subseteq Concerns(t) /\ Concerns(t) \subseteq Quad
  BY DEF TypeOK, PatchType, Touched, Committing, Concerns

\* What a step of t leaves of the other commits.
LeavesCommits(t) ==
    \A u \in Task \ {t} :
        /\ Touched(u)' = Touched(u) /\ CallsOf(u)' = CallsOf(u) /\ start'[u] = start[u]
        /\ Touched(u) \cap Touched(t) = {}

LEMMA StepLeavesCommits ==
    ASSUME TypeOK, Apart, NEW t \in Task, Others(t),
           \A u \in Task \ {t} : start'[u] = start[u]
    PROVE  LeavesCommits(t)
  <1> SUFFICES ASSUME NEW u \in Task \ {t}
               PROVE  /\ Touched(u)' = Touched(u) /\ CallsOf(u)' = CallsOf(u)
                      /\ Touched(u) \cap Touched(t) = {}
    BY DEF LeavesCommits
  <1>1. pc'[u] = pc[u] /\ patch'[u] = patch[u] /\ scan'[u] = scan[u] /\ mode' = mode
    BY DEF Others
  <1>2. Committing(u)' = Committing(u)
    BY <1>1 DEF Committing, Deferred
  <1>3. Touched(u)' = Touched(u) /\ CallsOf(u)' = CallsOf(u)
    BY <1>1, <1>2 DEF Touched, CallsOf
  <1>4. Concerns(u) \cap Concerns(t) = {}
    BY DEF Apart
  <1> QED
    BY <1>3, <1>4, TouchedIsConcern

\* A commit goes on.
LEMMA StaysSettled ==
    ASSUME NEW t \in Task, LeavesCommits(t), Touched(t)' = Touched(t),
           CallsOf(t)' = CallsOf(t), Touched(t) = {} \/ start'[t] = start[t],
           quads' \ Touched(t) = quads \ Touched(t)
    PROVE  Settled' = Settled /\ Calls' = Calls
  <1>1. \A u \in Task : CallsOf(u)' = CallsOf(u) /\ Touched(u)' = Touched(u)
    BY DEF LeavesCommits
  <1>2. \A u \in Task : \A q \in Touched(u) : q \in start'[u] <=> q \in start[u]
    BY DEF LeavesCommits
  <1>3. \A q : (q \in quads' /\ q \notin Touched(t)) <=> (q \in quads /\ q \notin Touched(t))
    BY SMT
  <1>4. \A q : InSettled(q)' <=> InSettled(q)
    BY <1>1, <1>2, <1>3 DEF InSettled
  <1>5. Settled' = Settled
    BY <1>4, SettledMeans
  <1> QED
    BY <1>1, <1>5 DEF Calls

\* A commit ends: its quads are as the tables have them.
LEMMA EndSettles ==
    ASSUME NEW t \in Task, LeavesCommits(t), Touched(t)' = {}, CallsOf(t)' = {},
           quads' \ Touched(t) = quads \ Touched(t)
    PROVE  /\ Settled' \ Touched(t) = Settled \ Touched(t)
           /\ Settled' \cap Touched(t) = quads' \cap Touched(t)
           /\ Settled \cap Touched(t) = start[t] \cap Touched(t)
           /\ Calls' = [Calls EXCEPT ![t] = {}]
  <1>1. \A u \in Task \ {t} : /\ Touched(u)' = Touched(u) /\ start'[u] = start[u]
                              /\ \A q : q \notin Touched(u) \/ q \notin Touched(t)
    BY DEF LeavesCommits
  <1>2. \A q : q \in Touched(t) => (InSettled(q)' <=> q \in quads')
    BY <1>1 DEF InSettled
  <1>3. \A q : q \in Touched(t) => (InSettled(q) <=> q \in start[t])
    BY <1>1 DEF InSettled
  <1>4. \A q : (q \in quads' /\ q \notin Touched(t)) <=> (q \in quads /\ q \notin Touched(t))
    BY SMT
  <1>5. \A q : q \notin Touched(t) => (InSettled(q)' <=> InSettled(q))
    BY <1>1, <1>4 DEF InSettled
  <1>6. Calls' = [Calls EXCEPT ![t] = {}]
    BY DEF Calls, LeavesCommits
  <1> QED
    BY <1>2, <1>3, <1>5, <1>6, SettledMeans

\* The patch of a commit as the abstract store has it, and the commit's own part of
\* the quads as its outcomes leave it.
Asked(t) == [ins |-> patch[t].ins, del |-> patch[t].del, replace |-> patch[t].replace]

LEMMA CommitFacts ==
    ASSUME TypeOK, NEW t \in Task
    PROVE  /\ Committing(t) => /\ CallsOf(t) = {Asked(t)} /\ Promise!About(Asked(t)) = Touched(t)
                               /\ Touched(t) = IF patch[t].replace THEN Quad ELSE NamedBy(patch[t])
           /\ ~Committing(t) => CallsOf(t) = {} /\ Touched(t) = {}
           /\ Asked(t) \in Promise!CallType
           /\ Asked(t).ins = patch[t].ins /\ Asked(t).del = patch[t].del
           /\ Asked(t).replace = patch[t].replace
  <1>1. patch[t] \in PatchType
    BY DEF TypeOK
  <1> QED
    BY <1>1 DEF PatchType, CallsOf, Asked, Promise!About, Promise!CallType, Touched, NamedBy

\* T are the quads the patch p may change, D the settled quads before and E after.
LEMMA PatchThere ==
    ASSUME NEW D \in SUBSET Quad, NEW E \in SUBSET Quad, NEW p,
           E \ Promise!About(p) = D \ Promise!About(p),
           E \cap Promise!About(p) = p.ins
    PROVE  E = Promise!After(p, D)
  <1>1. CASE p.replace
    BY <1>1 DEF Promise!About, Promise!After, Promise!Less, Promise!Wiped
  <1>2. CASE ~p.replace
    BY <1>2 DEF Promise!About, Promise!After, Promise!Less, Promise!Wiped
  <1> QED
    BY <1>1, <1>2

LEMMA PatchTakenBack ==
    ASSUME NEW D \in SUBSET Quad, NEW E \in SUBSET Quad, NEW p,
           E \ Promise!About(p) = D \ Promise!About(p),
           E \cap Promise!About(p) =
              IF p.replace THEN {} ELSE ((D \cap Promise!About(p)) \cap p.ins) \ p.del
    PROVE  E = Promise!Less(p, D)
  <1>1. CASE p.replace
    BY <1>1 DEF Promise!About, Promise!Less, Promise!Wiped
  <1>2. CASE ~p.replace
    BY <1>2 DEF Promise!About, Promise!Less, Promise!Wiped
  <1> QED
    BY <1>1, <1>2

\* A commit has added to the quads there were only insertions of its patch.
LEMMA OnlyInsertions ==
    ASSUME TypeOK, OrphanInv, UndoInv, AtomicInv, apart, NEW t \in Task, Committing(t)
    PROVE  quads \cap Touched(t) \subseteq start[t] \cup patch[t].ins
  <1> DEFINE P == patch[t]
             N == NamedBy(P)
             B == batch[t]
             before == Prior(t)
  <1>1. /\ Underway(pc[t], P, before, known[t], look[t], staged[t], B, scan[t], quads)
        /\ CommitSoFar(t) /\ pc[t] # "idle" /\ pc[t] \in Place
        /\ pc[t] \in {"page", "sweep"} => scan[t].on
        /\ scan[t].on => Deferred(t)
    BY DEF UndoInv, TaskUnderway, AtomicInv, OrphanInv, TaskOrder, Committing, TypeOK
  <1>2. before \subseteq start[t]
    BY DEF Prior
  <1>3. pc[t] # "wipe" => quads \cap N \subseteq start[t] \cup P.ins
    <2> SUFFICES ASSUME pc[t] # "wipe" PROVE quads \cap N \subseteq start[t] \cup P.ins
      OBVIOUS
    <2>1. CASE scan[t].on
      BY <1>1, <2>1 DEF CommitSoFar
    <2>2. CASE pc[t] = "lookup"
      BY <1>1, <1>2, <2>2 DEF Underway
    <2>3. CASE pc[t] = "flush"
      <3>1. quads \cap N \subseteq before \cup B /\ B = Fresh(P, before)
        BY <1>1, <2>3 DEF Underway
      <3> QED
        BY <1>2, <3>1 DEF Fresh
    <2>4. CASE pc[t] \in {"embed", "insert", "cleanup"} /\ ~scan[t].on
      <3>1. quads \cap (N \ B) = Spared(P, before) /\ B = Fresh(P, before)
        BY <1>1, <2>4 DEF Underway
      <3> QED
        BY <1>2, <3>1 DEF Fresh, Spared
    <2> QED
      BY <1>1, <2>1, <2>2, <2>3, <2>4 DEF Place
  <1>4. CASE pc[t] = "wipe"
    BY <1>1, <1>4 DEF CommitSoFar
  <1>5. CASE pc[t] # "wipe"
    <2>1. P.replace => quads \subseteq N
      BY <1>1, <1>5 DEF CommitSoFar
    <2>2. ~P.replace => Touched(t) = N
      BY CommitFacts
    <2> HIDE DEF P, N
    <2>3. quads \cap Touched(t) \subseteq quads \cap N
      BY <2>1, <2>2 DEF P
    <2> QED
      BY <1>3, <1>5, <2>3 DEF P
  <1> QED
    BY <1>4, <1>5

\* The call of a commit returns, other commits going on: what it has of the quads,
\* as an outcome of the abstract store.
Ending(t) ==
    /\ Committing(t) /\ LeavesCommits(t)
    /\ Touched(t)' = {} /\ CallsOf(t)' = {}
    /\ quads' \ Touched(t) = quads \ Touched(t) /\ quads' \subseteq Quad

LEMMA EndingTypes ==
    ASSUME TypeOK, NEW t \in Task, Ending(t)
    PROVE  /\ Settled \in SUBSET Quad /\ Settled' \in SUBSET Quad
           /\ Asked(t) \in Calls[t] /\ Calls[t] = {Asked(t)}
           /\ Calls' = [Calls EXCEPT ![t] = {}]
           /\ Settled' \ Touched(t) = Settled \ Touched(t)
           /\ Settled' \cap Touched(t) = quads' \cap Touched(t)
           /\ Settled \cap Touched(t) = start[t] \cap Touched(t)
  <1>1. /\ Settled' \ Touched(t) = Settled \ Touched(t)
        /\ Settled' \cap Touched(t) = quads' \cap Touched(t)
        /\ Settled \cap Touched(t) = start[t] \cap Touched(t)
        /\ Calls' = [Calls EXCEPT ![t] = {}]
    BY EndSettles DEF Ending
  <1>2. Settled \subseteq Quad /\ quads' \subseteq Quad
    BY SettledTypes DEF Ending
  <1>3. CallsOf(t) = {Asked(t)}
    BY CommitFacts DEF Ending
  <1> QED
    BY <1>1, <1>2, <1>3 DEF Calls

LEMMA EndingCommits ==
    ASSUME TypeOK, NEW t \in Task, Ending(t), quads' \cap Touched(t) = patch[t].ins,
           UNCHANGED index \/ Doubt
    PROVE  Promise!Commit(t)
  <1>1. Settled' = Promise!After(Asked(t), Settled)
    <2> DEFINE p == Asked(t)
    <2>1. Promise!About(p) = Touched(t) /\ p.ins = patch[t].ins
      BY CommitFacts DEF Ending
    <2>2. /\ Settled \in SUBSET Quad /\ Settled' \in SUBSET Quad
          /\ Settled' \ Promise!About(p) = Settled \ Promise!About(p)
          /\ Settled' \cap Promise!About(p) = p.ins
      BY <2>1, EndingTypes
    <2> HIDE DEF p
    <2>3. Settled' = Promise!After(p, Settled)
      BY <2>2, PatchThere
    <2> QED
      BY <2>3 DEF p
  <1>2. Calls[t] = {Asked(t)} /\ Calls' = [Calls EXCEPT ![t] = {}]
    BY EndingTypes
  <1>3. index'.is # "doubtful" => index.is # "doubtful"
    BY DEF Doubt, TypeOK, IndexState
  <1> QED
    BY <1>1, <1>2, <1>3 DEF Promise!Commit, Promise!Returns, Calls

LEMMA EndingTakesBack ==
    ASSUME TypeOK, NEW t \in Task, Ending(t), UNCHANGED index,
           quads' \cap Touched(t) = IF patch[t].replace THEN {}
                                    ELSE Spared(patch[t], start[t])
    PROVE  Promise!TakeBack(t)
  <1>1. ~patch[t].replace => patch[t].ins \subseteq Touched(t)
    BY CommitFacts DEF Ending, NamedBy
  <1>2. Spared(patch[t], start[t]) = (start[t] \cap patch[t].ins) \ patch[t].del
    BY DEF Spared
  <1>3. ~patch[t].replace =>
          Spared(patch[t], start[t]) =
             ((Settled \cap Touched(t)) \cap patch[t].ins) \ patch[t].del
    BY <1>1, <1>2, EndingTypes
  <1>4. Settled' = Promise!Less(Asked(t), Settled)
    <2> DEFINE p == Asked(t)
    <2>1. /\ Promise!About(p) = Touched(t) /\ p.ins = patch[t].ins /\ p.del = patch[t].del
          /\ p.replace = patch[t].replace
      BY CommitFacts DEF Ending
    <2>2. /\ Settled \in SUBSET Quad /\ Settled' \in SUBSET Quad
          /\ Settled' \ Promise!About(p) = Settled \ Promise!About(p)
          /\ Settled' \cap Promise!About(p) =
                IF p.replace THEN {} ELSE ((Settled \cap Promise!About(p)) \cap p.ins) \ p.del
      BY <1>3, <2>1, EndingTypes
    <2> HIDE DEF p
    <2>3. Settled' = Promise!Less(p, Settled)
      BY <2>2, PatchTakenBack
    <2> QED
      BY <2>3 DEF p
  <1>5. Calls[t] = {Asked(t)} /\ Calls' = [Calls EXCEPT ![t] = {}]
    BY EndingTypes
  <1> QED
    BY <1>4, <1>5 DEF Promise!TakeBack, Promise!Returns, Calls

LEMMA EndingRefuses ==
    ASSUME TypeOK, NEW t \in Task, Ending(t), UNCHANGED index,
           \/ quads' \cap Touched(t) = start[t] \cap Touched(t)
           \/ patch[t].replace /\ quads' = {}
    PROVE  Promise!Refuse(t)
  <1>1. Settled' \in {Settled, Promise!Wiped(Asked(t), Settled)}
    <2>1. CASE quads' \cap Touched(t) = start[t] \cap Touched(t)
      <3>1. Settled' = Settled
        BY <2>1, EndingTypes
      <3> QED
        BY <3>1
    <2>2. CASE patch[t].replace /\ quads' = {}
      <3>1. Touched(t) = Quad
        BY <2>2, CommitFacts DEF Ending
      <3>2. Settled' = {}
        BY <2>2, <3>1, EndingTypes
      <3> QED
        BY <2>2, <3>2, CommitFacts DEF Promise!Wiped
    <2> QED
      BY <2>1, <2>2
  <1>2. Calls[t] = {Asked(t)} /\ Calls' = [Calls EXCEPT ![t] = {}]
    BY EndingTypes
  <1> QED
    BY <1>1, <1>2 DEF Promise!Refuse, Promise!Returns, Calls

LEMMA EndingFails ==
    ASSUME TypeOK, NEW t \in Task, Ending(t), Doubt,
           quads' \cap Touched(t) \subseteq start[t] \cup patch[t].ins
    PROVE  Promise!Fail({t})
  <1>1. /\ Calls[t] = {Asked(t)} /\ Calls' = [Calls EXCEPT ![t] = {}]
        /\ Promise!About(Asked(t)) = Touched(t) /\ Asked(t).ins = patch[t].ins
    BY EndingTypes, CommitFacts DEF Ending
  <1>2. Settled' \ Touched(t) = Settled \ Touched(t)
    BY EndingTypes
  <1>3. Settled' \subseteq Settled \cup patch[t].ins
    BY EndingTypes
  <1>4. index'.is = "doubtful"
    BY DEF Doubt, TypeOK, IndexState
  <1>5. UNION {Calls[u] : u \in {t}} = {Asked(t)}
    BY <1>1
  <1>6. /\ UNION {Promise!About(p) : p \in {Asked(t)}} = Touched(t)
        /\ UNION {p.ins : p \in {Asked(t)}} = patch[t].ins
    BY <1>1
  <1>7. Calls' = [u \in Task |-> IF u \in {t} THEN {} ELSE Calls[u]]
    BY <1>1 DEF Calls
  <1> QED
    BY <1>2, <1>3, <1>4, <1>5, <1>6, <1>7 DEF Promise!Fail, Calls

\* What changes only quads a commit's patch names changes only what it may touch.
LEMMA NamedIsTouched ==
    ASSUME TypeOK, quads' \subseteq Quad, NEW t \in Task, Committing(t),
           quads' \ NamedBy(patch[t]) = quads \ NamedBy(patch[t])
    PROVE  quads' \ Touched(t) = quads \ Touched(t)
  <1>1. CASE patch[t].replace
    <2>1. Touched(t) = Quad /\ quads \subseteq Quad
      BY <1>1, CommitFacts DEF TypeOK
    <2> QED
      BY <2>1
  <1>2. CASE ~patch[t].replace
    BY <1>2, CommitFacts
  <1> QED
    BY <1>1, <1>2

\* A step that is not the last of its call shows the abstract store nothing.
LEMMA GoingOnIsHidden ==
    ASSUME TypeOK, OrphanInv, IndexInv, UndoInv, apart, quads' \subseteq Quad, NEW t \in Task,
           LeavesCommits(t), mode' = mode, apart' = apart, pc[t] # "idle",
           GoesOn(t) \/ Wipe(t) \/ FlushEarly(t) \/ (Flush(t) /\ FlushGoesOn(t))
    PROVE  pc'[t] # "idle" /\ UNCHANGED Promise!vars
  <1> DEFINE Same == /\ pc'[t] # "idle" /\ patch'[t] = patch[t] /\ start'[t] = start[t]
                     /\ index' = index
                     /\ Committing(t)' = Committing(t)
                     /\ quads' \ Touched(t) = quads \ Touched(t)
  <1>1. ASSUME GoesOn(t) PROVE Same
    <2>1. /\ pc'[t] # "idle" /\ patch'[t] = patch[t] /\ start'[t] = start[t]
          /\ index' = index /\ quads' = quads /\ scan'[t].on = scan[t].on
      BY <1>1 DEF GoesOn
    <2>2. Committing(t)' = Committing(t)
      BY <2>1 DEF Committing, Deferred
    <2> QED
      BY <2>1, <2>2
  <1>2. ASSUME Wipe(t) PROVE Same
    <2>1. /\ pc[t] = "wipe" /\ pc'[t] = "lookup" /\ patch'[t] = patch[t]
          /\ start'[t] = start[t] /\ index' = index /\ quads' = {} /\ scan' = scan
      BY <1>2 DEF Wipe, Go, TypeOK, history
    <2>2. ~scan[t].on /\ patch[t].replace
      BY <2>1 DEF OrphanInv, TaskOrder, IndexInv, TaskInHand, InHand
    <2>3. Committing(t) /\ Committing(t)'
      BY <2>1, <2>2 DEF Committing
    <2>4. Touched(t) = Quad /\ quads \subseteq Quad
      BY <2>2, <2>3, CommitFacts DEF TypeOK
    <2> QED
      BY <2>1, <2>3, <2>4
  <1>3. ASSUME FlushEarly(t) PROVE Same
    <2>1. /\ pc' = pc /\ patch' = patch /\ start' = start /\ index' = index /\ scan' = scan
      BY <1>3 DEF FlushEarly
    <2>2. /\ quads' \ NamedBy(patch[t]) = quads \ NamedBy(patch[t])
          /\ scan[t].on => quads' = quads
      BY <1>3, FlushEarlyQuads
    <2>3. Committing(t)' = Committing(t)
      BY <2>1 DEF Committing, Deferred
    <2>4. ~Committing(t) => scan[t].on
      BY DEF Committing
    <2>5. quads' \ Touched(t) = quads \ Touched(t)
      BY <2>2, <2>4, NamedIsTouched
    <2> QED
      BY <2>1, <2>3, <2>5
  <1>4. ASSUME Flush(t) /\ FlushGoesOn(t) PROVE Same
    <2>1. /\ pc'[t] \in {"embed", "page"} /\ patch'[t] = patch[t] /\ start'[t] = start[t]
          /\ index' = index /\ (scan'[t].on => Deferred(t)) /\ ~scan[t].on
      BY <1>4, FlushMoves DEF FlushGoesOn
    <2>2. Committing(t) /\ Committing(t)'
      BY <2>1 DEF Committing, Deferred
    <2>3. quads' \ Touched(t) = quads \ Touched(t)
      BY <1>4, <2>2, FlushLandsPatch, NamedIsTouched
    <2> QED
      BY <2>1, <2>2, <2>3
  <1>5. Same
    BY <1>1, <1>2, <1>3, <1>4
  <1>6. Touched(t)' = Touched(t) /\ CallsOf(t)' = CallsOf(t)
    BY <1>5 DEF Touched, CallsOf
  <1>7. Settled' = Settled /\ Calls' = Calls
    BY <1>5, <1>6, StaysSettled
  <1> QED
    BY <1>5, <1>7 DEF Promise!vars, Calls

\* A call ends well, its projection or rebuild over.
EndsWell(t) ==
    /\ FlushVec(t) \/ Page(t)
    /\ pc[t] = "insert" \/ scan[t].on
    /\ index' = index \/ (t \in index.alone /\ scan[t].on /\ index'.is = "rebuilt")

LEMMA EndsHow ==
    ASSUME TypeOK, OrphanInv, IndexInv, apart, NEW t \in Task, EndsCall(t)
    PROVE  /\ FlushVec(t) \/ Page(t) => EndsWell(t) /\ quads' = quads
           /\ \/ CommitFails(t) \/ Cleanup(t) \/ EndsWell(t)
              \/ Doubt /\ quads' = quads
  <1>0. pc'[t] = "idle" /\ End(t)
    BY DEF EndsCall, End, TypeOK
  <1>1. ASSUME FlushVec(t) PROVE EndsWell(t) /\ quads' = quads
    <2>1. pc[t] = "insert" /\ Land(staged[t]) /\ staged[t] \in Seq(Statement)
      BY <1>1 DEF FlushVec, FlushRest, TypeOK
    <2>2. quads' = quads
      BY <2>1, ProjectsQuietly, LandsQuietly
    <2>3. index' = index \/ (t \in index.alone /\ scan[t].on /\ index'.is = "rebuilt")
      BY <1>0, <1>1 DEF FlushVec, RebuildEnds, TypeOK
    <2> QED
      BY <1>1, <2>1, <2>2, <2>3 DEF EndsWell
  <1>2. ASSUME Page(t) PROVE EndsWell(t) /\ quads' = quads
    <2>1. pc[t] = "page" /\ quads' = quads
      BY <1>2 DEF Page, database
    <2>2. scan[t].on
      BY <2>1 DEF OrphanInv, TaskOrder
    <2>3. pc' = [pc EXCEPT ![t] = "sweep"] \/ UNCHANGED pc \/ RebuildEnds(t)
      BY <1>2 DEF Page
    <2>4. RebuildEnds(t)
      BY <1>0, <2>1, <2>3 DEF TypeOK
    <2>5. index' = index \/ (t \in index.alone /\ index'.is = "rebuilt")
      BY <2>4 DEF RebuildEnds
    <2> QED
      BY <1>2, <2>1, <2>2, <2>5 DEF EndsWell
  <1>3. ASSUME ProjectionFails(t) PROVE Doubt /\ quads' = quads
    <2>1. quads' = quads
      BY <1>3 DEF ProjectionFails, database
    <2>2. pc' = [pc EXCEPT ![t] = "cleanup"] \/ Doubt
      BY <1>3 DEF ProjectionFails
    <2> QED
      BY <1>0, <2>1, <2>2 DEF TypeOK
  <1>4. ASSUME CleanupFails(t) \/ RebuildFails(t) PROVE Doubt /\ quads' = quads
    BY <1>4 DEF CleanupFails, RebuildFails, database
  <1> QED
    BY <1>1, <1>2, <1>3, <1>4 DEF EndsCall

\* A commit that ended well has its whole patch in the tables.
LEMMA WholePatch ==
    ASSUME TypeOK, OrphanInv, IndexInv, UndoInv, AtomicInv, apart, NEW t \in Task, Committing(t),
           pc[t] = "insert" \/ scan[t].on
    PROVE  quads \cap Touched(t) = patch[t].ins /\ (scan[t].on => t \notin index.alone)
  <1> DEFINE P == patch[t]
             N == NamedBy(P)
             B == batch[t]
  <1>1. CommitSoFar(t) /\ (scan[t].on => Deferred(t)) /\ pc[t] # "idle"
    BY DEF AtomicInv, Committing
  <1>2. scan[t].on => t \notin index.alone
    BY <1>1 DEF CommitSoFar, Deferred
  <1>3. quads \cap N = P.ins
    <2>1. CASE scan[t].on
      BY <1>1, <2>1 DEF CommitSoFar
    <2>2. CASE pc[t] = "insert" /\ ~scan[t].on
      <3>1. B = Fresh(P, Prior(t)) /\ quads \cap (N \ B) = Spared(P, Prior(t))
        BY <2>2 DEF UndoInv, TaskUnderway, Underway
      <3>2. B \subseteq quads
        BY <2>2 DEF OrphanInv, TaskOrder, InOrder
      <3>3. P.ins = B \cup Spared(P, Prior(t)) /\ B \subseteq N
        BY <3>1 DEF Fresh, Spared, NamedBy
      <3> HIDE DEF P, N, B
      <3> QED
        BY <3>1, <3>2, <3>3
    <2> QED
      BY <2>1, <2>2
  <1>4. pc[t] # "wipe"
    BY DEF IndexInv, TaskInHand, InHand
  <1>5. P.replace => quads \subseteq N
    BY <1>1, <1>4 DEF CommitSoFar
  <1>6. Touched(t) = (IF P.replace THEN Quad ELSE N) /\ quads \subseteq Quad
    BY CommitFacts DEF TypeOK
  <1>7. quads \cap Touched(t) = quads \cap N
    <2> HIDE DEF P, N
    <2> QED
      BY <1>5, <1>6
  <1> QED
    BY <1>2, <1>3, <1>7

\* What a commit that fails before a part has landed leaves.
LEMMA NothingLanded ==
    ASSUME TypeOK, AtomicInv, apart, NEW t \in Task, Committing(t), ~landed[t],
           pc[t] \in {"wipe", "lookup", "flush"}
    PROVE  \/ quads \cap Touched(t) = start[t] \cap Touched(t)
           \/ patch[t].replace /\ quads = {}
  <1> DEFINE N == NamedBy(patch[t])
  <1>1. /\ pc[t] = "wipe" => quads = start[t]
        /\ patch[t].replace /\ pc[t] # "wipe" => quads \subseteq N
        /\ pc[t] # "wipe" => quads \cap N = Prior(t) \cap N
    BY DEF AtomicInv, CommitSoFar
  <1>2. CASE pc[t] = "wipe"
    BY <1>1, <1>2
  <1>3. CASE pc[t] # "wipe" /\ patch[t].replace
    <2>1. Prior(t) = {}
      BY <1>3 DEF Prior
    <2> HIDE DEF N
    <2> QED
      BY <1>1, <1>3, <2>1
  <1>4. CASE pc[t] # "wipe" /\ ~patch[t].replace
    <2>1. Prior(t) = start[t] /\ Touched(t) = N
      BY <1>4, CommitFacts DEF Prior
    <2> QED
      BY <1>1, <1>4, <2>1
  <1> QED
    BY <1>2, <1>3, <1>4

\* What a clean-up that landed leaves.
LEMMA CleanedUp ==
    ASSUME TypeOK, OrphanInv, IndexInv, UndoInv, AtomicInv, apart, quads' \subseteq Quad,
           NEW t \in Task, Committing(t), Cleanup(t)
    PROVE  /\ quads' \ Touched(t) = quads \ Touched(t)
           /\ quads' \cap Touched(t) = IF patch[t].replace THEN {}
                                       ELSE Spared(patch[t], start[t])
  <1> DEFINE N == NamedBy(patch[t])
  <1>1. /\ quads' \cap N = Spared(patch[t], Prior(t))
        /\ quads' \ N = quads \ N
    BY CleanupUndoes
  <1>2. quads' \ Touched(t) = quads \ Touched(t)
    BY <1>1, NamedIsTouched
  <1>3. CASE patch[t].replace
    <2>1. quads \subseteq N
      BY <1>3 DEF AtomicInv, CommitSoFar, Cleanup
    <2>2. Prior(t) = {}
      BY <1>3 DEF Prior
    <2>3. Spared(patch[t], Prior(t)) = {}
      BY <2>2 DEF Spared
    <2> HIDE DEF N
    <2>4. quads' = {}
      BY <1>1, <2>1, <2>3
    <2> QED
      BY <1>2, <1>3, <2>4
  <1>4. CASE ~patch[t].replace
    <2>1. Prior(t) = start[t] /\ Touched(t) = N
      BY <1>4, CommitFacts DEF Prior
    <2> QED
      BY <1>1, <1>2, <1>4, <2>1
  <1> QED
    BY <1>3, <1>4

\* A commit that returns leaves the other commits alone.
LEMMA EndIsEnding ==
    ASSUME TypeOK, NEW t \in Task, End(t), LeavesCommits(t), Committing(t),
           quads' \subseteq Quad, quads' \ Touched(t) = quads \ Touched(t)
    PROVE  Ending(t)
  <1>1. pc'[t] = "idle"
    BY DEF End, TypeOK
  <1> QED
    BY <1>1 DEF Ending, Touched, CallsOf, Committing

\* A commit that resolves has committed its patch.
LEMMA ResolvesPromised ==
    ASSUME TypeOK, OrphanInv, IndexInv, UndoInv, AtomicInv, apart, quads' \subseteq Quad,
           NEW t \in Task, LeavesCommits(t), Committing(t), End(t),
           Flush(t) \/ (EndsWell(t) /\ quads' = quads)
    PROVE  Promise!Commit(t)
  <1> DEFINE N == NamedBy(patch[t])
  <1>1. CASE Flush(t)
    <2>1. quads' \cap N = patch[t].ins /\ quads' \ N = quads \ N
      BY <1>1, FlushLandsPatch
    <2>2. Ending(t)
      BY <2>1, NamedIsTouched, EndIsEnding
    <2>3. quads' \cap Touched(t) = patch[t].ins
      <3>1. pc[t] = "flush"
        BY <1>1 DEF Flush
      <3>2. patch[t].replace => quads \subseteq N
        BY <3>1 DEF AtomicInv, CommitSoFar
      <3>3. Touched(t) = IF patch[t].replace THEN Quad ELSE N
        BY CommitFacts
      <3> HIDE DEF N
      <3>4. quads' \cap Touched(t) = quads' \cap N
        BY <2>1, <3>2, <3>3
      <3> QED
        BY <2>1, <3>4
    <2>4. UNCHANGED index \/ Doubt
      <3>1. AfterFlush(t)
        BY <1>1 DEF Flush
      <3> QED
        BY <3>1 DEF AfterFlush
    <2> QED
      BY <2>2, <2>3, <2>4, EndingCommits
  <1>2. CASE EndsWell(t) /\ quads' = quads
    <2>1. /\ quads \cap Touched(t) = patch[t].ins
          /\ scan[t].on => t \notin index.alone
      BY <1>2, WholePatch DEF EndsWell
    <2>2. index' = index
      BY <1>2, <2>1 DEF EndsWell
    <2>3. Ending(t) /\ quads' \cap Touched(t) = patch[t].ins
      BY <1>2, <2>1, EndIsEnding
    <2> QED
      BY <2>2, <2>3, EndingCommits
  <1> QED
    BY <1>1, <1>2

\* A commit that throws does what the abstract store allows.
LEMMA ThrowsPromised ==
    ASSUME TypeOK, OrphanInv, IndexInv, UndoInv, AtomicInv, apart, quads' \subseteq Quad,
           NEW t \in Task, LeavesCommits(t), Committing(t), End(t),
           CommitFails(t) \/ Cleanup(t) \/ (Doubt /\ quads' = quads)
    PROVE  Promise!TakeBack(t) \/ Promise!Refuse(t) \/ Promise!Fail({t})
  <1>1. CASE Doubt /\ quads' = quads
    BY <1>1, EndIsEnding, OnlyInsertions, EndingFails
  <1>2. CASE CommitFails(t) /\ ~landed[t]
    <2>1. quads' = quads /\ UNCHANGED index /\ pc[t] \in {"wipe", "lookup", "flush"}
      BY <1>2 DEF CommitFails, database
    <2> QED
      BY <1>2, <2>1, EndIsEnding, NothingLanded, EndingRefuses
  <1>3. CASE CommitFails(t) /\ landed[t]
    <2>1. quads' = quads /\ Doubt
      BY <1>3 DEF CommitFails, database
    <2> QED
      BY <1>1, <2>1
  <1>4. CASE Cleanup(t)
    <2>1. UNCHANGED index
      BY <1>4 DEF Cleanup
    <2> QED
      BY <1>4, <2>1, CleanedUp, EndIsEnding, EndingTakesBack
  <1> QED
    BY <1>1, <1>2, <1>3, <1>4

\* A reindex that ends shows the abstract store at most what it made of the index.
LEMMA ReindexPromised ==
    ASSUME TypeOK, OrphanInv, IndexInv, apart, UNCHANGED apart, NEW t \in Task,
           LeavesCommits(t), ~Committing(t), End(t), pc[t] # "idle", EndsCall(t)
    PROVE  Promise!Next \/ UNCHANGED Promise!vars
  <1>1. pc'[t] = "idle" /\ scan[t].on
    BY DEF End, TypeOK, Committing
  <1>2. Touched(t) = {} /\ CallsOf(t) = {} /\ Touched(t)' = {} /\ CallsOf(t)' = {}
    BY <1>1 DEF Touched, CallsOf, Committing
  <1>3. ~CommitFails(t) /\ ~Cleanup(t)
    BY <1>1 DEF CommitFails, Cleanup, IndexInv, TaskInHand, InHand
  <1>4. quads' = quads /\ (EndsWell(t) \/ Doubt)
    BY <1>3, EndsHow DEF EndsWell
  <1>5. Settled' = Settled /\ Calls' = Calls
    BY <1>2, <1>4, StaysSettled
  <1>6. CASE index' = index
    BY <1>5, <1>6 DEF Promise!vars, Calls
  <1>7. CASE Doubt
    <2>1. index'.is = "doubtful"
      BY <1>7 DEF Doubt, TypeOK, IndexState
    <2>2. Calls' = [u \in Task |-> IF u \in {} THEN {} ELSE Calls[u]]
      BY <1>5 DEF Calls
    <2>3. UNION {Calls[u] : u \in {}} = {}
      OBVIOUS
    <2>4. Promise!Fail({})
      BY <1>5, <2>1, <2>2, <2>3 DEF Promise!Fail, Calls
    <2> QED
      BY <2>4 DEF Promise!Next, Promise!Keeps
  <1>8. CASE t \in index.alone /\ scan[t].on /\ index'.is = "rebuilt"
    <2>1. \A u \in Task \ {t} : pc[u] = "idle"
      BY <1>8 DEF IndexInv, Lone
    <2>2. \A u \in Task : CallsOf(u) = {}
      BY <1>2, <2>1 DEF CallsOf, Committing
    <2>3. Promise!Reindexed
      BY <1>5, <1>8, <2>2 DEF Promise!Reindexed, Calls
    <2> QED
      BY <2>3 DEF Promise!Next, Promise!Keeps
  <1> QED
    BY <1>4, <1>6, <1>7, <1>8 DEF EndsWell

LEMMA StepPromised ==
    ASSUME TypeInv, OrphanInv, IndexInv, UndoInv, AtomicInv, apart, NEW t \in Task, Step(t)
    PROVE  /\ Promise!Next \/ UNCHANGED Promise!vars
           /\ Committing(t) /\ Resolves(t) => Promise!Commit(t)
  <1>1. TypeOK /\ apart' = apart /\ Others(t) /\ Apartness(t) /\ quads' \subseteq Quad
    BY StepTyped, OthersSame, StepApartness DEF TypeInv, Typed, TableTypes
  <1>2. LeavesCommits(t) /\ mode' = mode /\ pc[t] # "idle"
    BY <1>1, StepLeavesCommits DEF OrphanInv, Apartness, Others
  <1>3. CASE GoesOn(t) \/ Wipe(t) \/ FlushEarly(t) \/ (Flush(t) /\ FlushGoesOn(t))
    BY <1>1, <1>2, <1>3, GoingOnIsHidden DEF Resolves
  <1>4. CASE Flush(t) /\ End(t)
    <2>1. Committing(t)
      BY <1>1, <1>2, <1>4, FlushMoves DEF Committing
    <2>2. Promise!Commit(t)
      BY <1>1, <1>2, <1>4, <2>1, ResolvesPromised
    <2> QED
      BY <1>1, <2>2 DEF Promise!Next, Promise!Keeps
  <1>5. CASE EndsCall(t) /\ Committing(t)
    <2>1. End(t)
      BY <1>5 DEF EndsCall
    <2>2. Flush(t) \/ FlushVec(t) \/ Page(t) => Promise!Commit(t)
      BY <1>1, <1>2, <1>5, <2>1, EndsHow, ResolvesPromised
    <2>3. \/ Promise!Commit(t) \/ Promise!TakeBack(t) \/ Promise!Refuse(t) \/ Promise!Fail({t})
      BY <1>1, <1>2, <1>5, <2>1, <2>2, EndsHow, ThrowsPromised DEF EndsWell
    <2>4. {t} \in SUBSET Task
      OBVIOUS
    <2> QED
      BY <1>1, <2>2, <2>3, <2>4 DEF Promise!Next, Promise!Keeps, Resolves
  <1>6. CASE EndsCall(t) /\ ~Committing(t)
    BY <1>1, <1>2, <1>6, ReindexPromised DEF EndsCall
  <1> QED
    BY <1>1, <1>3, <1>4, <1>5, <1>6, StepMoves, FlushMoves

\* A call that begins about other quads than the calls under way.
LEMMA CallPromised ==
    ASSUME TypeOK, OrphanInv, apart, NEW t \in Task, NEW p \in Patch[t], CallCommit(t, p), apart'
    PROVE  Promise!Next
  <1> DEFINE q == [p EXCEPT !.ins = @ \cap Scope, !.del = @ \cap Scope]
             about == IF p.replace \/ (p.import /\ mode = "deferred") THEN Quad
                      ELSE q.ins \cup q.del
             P == patch'[t]
             a == [ins |-> P.ins, del |-> P.del, replace |-> P.replace]
  <1>1. /\ pc[t] = "idle" /\ pc'[t] # "idle" /\ P = q /\ start'[t] = quads
        /\ quads' = quads /\ scan' = scan
        /\ CallBegins(t, about) /\ Others(t) /\ (\A u \in Task \ {t} : start'[u] = start[u])
    <2>1. /\ pc[t] = "idle" /\ pc'[t] # "idle" /\ P = q /\ quads' = quads /\ scan' = scan
          /\ CallBegins(t, about)
      BY DEF CallCommit, Go, TypeOK, database
    <2>2. start' = [start EXCEPT ![t] = quads]
      BY DEF CallCommit
    <2> QED
      BY <2>1, <2>2, OthersSame DEF TypeOK
  <1>2. p \in PatchType
    <2>1. Patch[t] \in SUBSET PatchType
      BY PatchAssumption
    <2> QED
      BY <2>1
  <1>3. /\ q.ins \in SUBSET Quad /\ q.del \in SUBSET Quad
        /\ q.replace = p.replace /\ q.replace \in BOOLEAN
    BY <1>2, ScopeAssumption DEF PatchType
  <1>4. \A u \in Task \ {t} : Concerns(u) \cap about = {}
    BY <1>1 DEF CallBegins
  <1> HIDE DEF q
  <1>5. Promise!About(a) \subseteq about /\ a \in Promise!CallType
    BY <1>1, <1>3 DEF Promise!About, Promise!CallType
  <1>6. ~scan[t].on
    BY <1>1 DEF OrphanInv, TaskOrder
  <1>7. /\ Touched(t) = {} /\ CallsOf(t) = {}
        /\ CallsOf(t)' = {a} /\ Touched(t)' = Promise!About(a)
    BY <1>1, <1>6 DEF Touched, CallsOf, Committing, Promise!About
  <1>8. LeavesCommits(t)
    BY <1>1, StepLeavesCommits DEF OrphanInv
  <1> HIDE DEF about, a, P
  <1>9. \A u \in Task \ {t} : Touched(u) \cap Promise!About(a) = {}
    BY <1>4, <1>5, TouchedIsConcern
  <1>10. Settled' = Settled
    <2>1. \A u \in Task \ {t} : /\ Touched(u)' = Touched(u) /\ start'[u] = start[u]
                                /\ \A x : x \notin Touched(u) \/ x \notin Touched(t)'
      BY <1>7, <1>8, <1>9 DEF LeavesCommits
    <2>2. \A x : x \in Touched(t)' => (InSettled(x)' <=> x \in quads)
      BY <1>1, <2>1 DEF InSettled
    <2>3. \A x : x \in Touched(t)' => (InSettled(x) <=> x \in quads)
      BY <1>7, <2>1 DEF InSettled
    <2>4. \A x : x \notin Touched(t)' => (InSettled(x)' <=> InSettled(x))
      BY <1>1, <1>7, <2>1 DEF InSettled
    <2> QED
      BY <2>2, <2>3, <2>4, SettledMeans
  <1>11. Calls' = [Calls EXCEPT ![t] = {a}] /\ Calls[t] = {}
    BY <1>7, <1>8 DEF Calls, LeavesCommits
  <1>12. \A u \in Task \ {t} : \A r \in Calls[u] : Promise!About(r) \cap Promise!About(a) = {}
    <2> SUFFICES ASSUME NEW u \in Task \ {t}, NEW r \in CallsOf(u)
                 PROVE  Promise!About(r) \cap Promise!About(a) = {}
      BY DEF Calls
    <2>1. Promise!About(r) = Touched(u)
      BY CommitFacts
    <2> QED
      BY <1>9, <2>1
  <1>13. (index'.is # "doubtful") = (index.is # "doubtful")
    BY DEF CallCommit
  <1>14. Promise!Call(t, a)
    BY <1>10, <1>11, <1>12, <1>13 DEF Promise!Call, Calls
  <1> QED
    BY <1>5, <1>14 DEF Promise!Next, Promise!Keeps

LEMMA CallReindexHidden ==
    ASSUME TypeOK, OrphanInv, AtomicInv, apart, NEW t \in Task, CallReindex(t), apart'
    PROVE  UNCHANGED Promise!vars
  <1>1. /\ pc[t] = "idle" /\ patch' = patch /\ start' = start /\ quads' = quads
        /\ scan'[t].on /\ index'.is = index.is /\ Others(t) /\ mode' = mode
    <2>1. /\ pc[t] = "idle" /\ patch' = patch /\ start' = start /\ quads' = quads
          /\ mode' = mode
      BY DEF CallReindex, Go, database
    <2>2. scan'[t].on
      BY DEF CallReindex, TypeOK, NoScan
    <2>3. index'.is = index.is
      BY DEF CallReindex, TypeOK, IndexState
    <2> QED
      BY <2>1, <2>2, <2>3, OthersSame
  <1>2. ~Committing(t) /\ ~Committing(t)'
    BY <1>1 DEF Committing, Deferred, AtomicInv, CommitSoFar, NoPatch
  <1>3. Touched(t) = {} /\ CallsOf(t) = {} /\ Touched(t)' = {} /\ CallsOf(t)' = {}
    BY <1>2 DEF Touched, CallsOf
  <1>4. LeavesCommits(t)
    BY <1>1, StepLeavesCommits DEF OrphanInv
  <1>5. Settled' = Settled /\ Calls' = Calls
    BY <1>1, <1>3, <1>4, StaysSettled
  <1> QED
    BY <1>1, <1>5 DEF Promise!vars, Calls

LEMMA CrashPromised ==
    ASSUME TypeOK, OrphanInv, IndexInv, UndoInv, AtomicInv, apart, Crash
    PROVE  Promise!Next
  <1> DEFINE patches == UNION {Calls[u] : u \in Task}
             about == UNION {Promise!About(p) : p \in patches}
             added == UNION {p.ins : p \in patches}
  <1>1. /\ \A u \in Task : pc'[u] = "idle"
        /\ quads' = quads /\ index'.is = "doubtful" /\ apart' = apart
    BY DEF Crash, database
  <1>2. \A u \in Task : Touched(u)' = {} /\ CallsOf(u)' = {}
    BY <1>1 DEF Touched, CallsOf, Committing
  <1>3. \A q : q \in Settled' <=> q \in quads
    BY <1>1, <1>2, SettledMeans DEF InSettled
  <1>4. ASSUME NEW u \in Task
        PROVE  /\ Touched(u) \subseteq about
               /\ quads \cap Touched(u) \subseteq start[u] \cup added
    <2>1. CASE Committing(u)
      <3>1. Asked(u) \in patches
        BY <2>1, CommitFacts DEF Calls
      <3>2. Touched(u) \subseteq about /\ patch[u].ins \subseteq added
        BY <2>1, <3>1, CommitFacts
      <3> QED
        BY <2>1, <3>2, OnlyInsertions
    <2>2. CASE ~Committing(u)
      BY <2>2, CommitFacts
    <2> QED
      BY <2>1, <2>2
  <1> HIDE DEF patches, about, added
  <1>5. Settled' \ about = Settled \ about
    <2>1. \A q : q \notin about => (q \in Settled <=> q \in quads)
      BY <1>4, SettledMeans DEF InSettled
    <2> QED
      BY <1>3, <2>1
  <1>6. Settled' \subseteq Settled \cup added
    <2> SUFFICES ASSUME NEW q \in quads PROVE q \in Settled \cup added
      BY <1>3
    <2>1. CASE \A u \in Task : q \notin Touched(u)
      BY <2>1, SettledMeans DEF InSettled
    <2>2. ASSUME NEW u \in Task, q \in Touched(u) PROVE q \in Settled \cup added
      BY <1>4, <2>2, SettledMeans DEF InSettled
    <2> QED
      BY <2>1, <2>2
  <1>7. Calls' = [u \in Task |-> IF u \in Task THEN {} ELSE Calls[u]]
    BY <1>2 DEF Calls
  <1>8. Promise!Fail(Task)
    BY <1>1, <1>5, <1>6, <1>7 DEF Promise!Fail, Calls, patches, about, added
  <1>9. Task \in SUBSET Task
    OBVIOUS
  <1> QED
    BY <1>1, <1>8, <1>9 DEF Promise!Next, Promise!Keeps

LEMMA SteppingPromised ==
    ASSUME TypeInv, OrphanInv, IndexInv, UndoInv, AtomicInv, [Next]_vars
    PROVE  Promise!Next \/ UNCHANGED Promise!vars
  <1>0. TypeOK /\ Reindexer \subseteq Task
    BY PatchAssumption DEF TypeInv
  <1>1. CASE ~apart'
    BY <1>1 DEF Promise!Next
  <1>2. CASE apart' /\ UNCHANGED vars
    <2>1. /\ quads' = quads /\ pc' = pc /\ patch' = patch /\ scan' = scan /\ mode' = mode
          /\ start' = start /\ index' = index /\ apart' = apart
      BY <1>2, Zenon DEF vars, database, local, history
    <2>2. \A u \in Task : Touched(u)' = Touched(u) /\ CallsOf(u)' = CallsOf(u)
      BY <2>1 DEF Touched, CallsOf, Committing, Deferred
    <2>3. Settled' = Settled
      BY <2>1, <2>2, SettledMeans DEF InSettled
    <2> QED
      BY <2>1, <2>2, <2>3 DEF Promise!vars
  <1>3. ASSUME apart', NEW t \in Task, NEW p \in Patch[t], CallCommit(t, p)
        PROVE  Promise!Next
    <2>1. apart
      BY <1>3 DEF CallCommit, CallBegins
    <2> QED
      BY <1>0, <1>3, <2>1, CallPromised
  <1>4. ASSUME apart', NEW t \in Task, CallReindex(t) PROVE UNCHANGED Promise!vars
    <2>1. apart
      BY <1>4 DEF CallReindex, CallBegins
    <2> QED
      BY <1>0, <1>4, <2>1, CallReindexHidden
  <1>5. ASSUME apart', NEW t \in Task, Step(t)
        PROVE  Promise!Next \/ UNCHANGED Promise!vars
    <2>1. apart
      BY <1>5, StepTyped
    <2> QED
      BY <1>5, <2>1, StepPromised
  <1>6. ASSUME apart', Crash PROVE Promise!Next
    <2>1. apart
      BY <1>6 DEF Crash
    <2> QED
      BY <1>0, <1>6, <2>1, CrashPromised
  <1> QED
    BY <1>0, <1>1, <1>2, <1>3, <1>4, <1>5, <1>6 DEF Next, Write

LEMMA InitPromised == Init => Promise!Init
  <1> SUFFICES ASSUME Init PROVE Promise!Init
    OBVIOUS
  <1>1. /\ quads = {} /\ index.is = "kept" /\ apart = TRUE
        /\ \A u \in Task : pc[u] = "idle"
    BY DEF Init
  <1>2. \A u \in Task : Touched(u) = {} /\ CallsOf(u) = {}
    BY <1>1 DEF Touched, CallsOf, Committing
  <1>3. Settled = {}
    BY <1>1, <1>2, SettledMeans DEF InSettled
  <1> QED
    BY <1>1, <1>2, <1>3 DEF Promise!Init

\* Every behaviour of the L2 store is one of the abstract indexed store, in which a
\* commit is a single step at its end, as long as the calls that overlap are about
\* different quads: one that resolves has changed its quads as its whole patch
\* says, one that throws has taken its insertions back or done nothing, and only a
\* failure after a part has landed, or of the clean-up, or a crash, leaves a part
\* of the patch, and then the index is known to be in doubt.  This holds wherever
\* lookups and batches are cut, whatever fails, and whatever others do between.
THEOREM CommitsAreAtomic == Spec => CallsAreAtomic
  <1>1. /\ TypeInv /\ OrphanInv /\ IndexInv /\ UndoInv /\ AtomicInv /\ [Next]_vars
        => Promise!Next \/ UNCHANGED Promise!vars
    BY SteppingPromised
  <1>2. /\ TypeInv /\ OrphanInv /\ IndexInv /\ UndoInv /\ AtomicInv /\ [Next]_vars
        => [\A t \in Task : apart' /\ Committing(t) /\ Resolves(t) => Promise!Commit(t)]_vars
    <2> SUFFICES ASSUME TypeInv, OrphanInv, IndexInv, UndoInv, AtomicInv, Next, ~UNCHANGED vars,
                        NEW t \in Task, apart', Committing(t), Resolves(t)
                 PROVE  Promise!Commit(t)
      OBVIOUS
    <2>1. Step(t)
      BY DEF Resolves, Step
    <2>2. apart
      BY <2>1, StepTyped
    <2> QED
      BY <2>1, <2>2, StepPromised
  <1> QED
    BY <1>1, <1>2, InitPromised, AlwaysTyped, AlwaysInOrder, AlwaysIndexed, AlwaysUnderway,
       AlwaysAtomic, PTL DEF Spec, CallsAreAtomic, Promise!Spec

-----------------------------------------------------------------------------
\* The search beside the writers.

\* A rowid is of one chunk, and a chunk is of a part of its quad's text.
OneRowPerId == \A c, d \in chunks : c.id = d.id => c = d
PartsOfTexts == \A c \in chunks : c.part \in 1..Parts[c.quad]

\* The rowids the keyword statement returned are not used for other chunks since.
RowsStayKnown == \A c \in DOMAIN kw, d \in chunks : c.id = d.id => c = d

\* What a statement may return for a request r.
Answers(rows, r) ==
    \A c \in DOMAIN rows :
        /\ c.quad \in Quad /\ c.part \in 1..Parts[c.quad]
        /\ rows[c] \in 1..r.limit /\ Passes(r, c.quad)
        /\ \A d \in DOMAIN rows : c.id = d.id \/ rows[c] = rows[d] => c = d

\* The chunks that stood still and that a statement should have found.
KeywordFound ==
    \A c \in steady :
        Sanitized(req.query) \subseteq Words[c.quad][c.part] /\ Passes(req, c.quad)
        => c \in DOMAIN kw
VectorFound ==
    \A c \in steady : c.id \in lasting /\ Passes(req, c.quad) => c \in DOMAIN vc

\* What the statements that have run found.
Finding ==
    /\ place \in {"vector", "answer"} =>
          /\ Sanitized(req.query) # {} => "keyword" \in plan
          /\ roomy /\ "keyword" \in plan => KeywordFound
    /\ place = "vector" => "vector" \in plan
    /\ place = "answer" =>
          /\ roomy /\ "vector" \in plan => VectorFound
          /\ "vector" \notin plan => DOMAIN vc = {}

\* Where the search stands, and what it has seen.
Awaiting ==
    /\ place \in {"idle", "embed"} => DOMAIN kw = {} /\ DOMAIN vc = {}
    /\ place = "idle" => lasting = {} /\ steady = {}
    /\ steady \subseteq chunks
    /\ place # "idle" => quads \subseteq seen
    /\ \A c \in DOMAIN kw : Sanitized(req.query) \subseteq Words[c.quad][c.part]
    /\ apart => \A c \in DOMAIN kw \cup DOMAIN vc : c.quad \in seen

SearchInv ==
    /\ OneRowPerId /\ PartsOfTexts /\ RowsStayKnown /\ FusionJoinsOneChunk
    /\ Answers(kw, req) /\ Answers(vc, req) /\ Awaiting /\ Finding
    /\ place \in {"idle", "embed", "vector", "answer"}
    /\ req \in Request \cup {NoRequest}
    /\ plan \subseteq {"keyword", "vector"}
    /\ held = Ids(DOMAIN kw)
    /\ seen \subseteq Quad /\ lasting \subseteq vec /\ roomy \in BOOLEAN

-----------------------------------------------------------------------------
\* What the statements return.

LEMMA LimitIsPositive ==
    ASSUME NEW r \in Request \cup {NoRequest}
    PROVE  r.limit \in Nat \ {0}
  BY RequestAssumption DEF RequestType, NoRequest

LEMMA RankingsRank ==
    ASSUME NEW S, IsFiniteSet(S), NEW n \in Nat \ {0}, NEW w \in Rankings(S, n)
    PROVE  /\ DOMAIN w \subseteq S
           /\ \A x \in DOMAIN w : w[x] \in 1..n
           /\ \A x, y \in DOMAIN w : w[x] = w[y] => x = y
           /\ Cardinality(S) <= n => DOMAIN w = S
  <1> DEFINE k == Cardinality(S)
             m == Min({n, k})
  <1>1. k \in Nat
    BY FS_CardinalityType
  <1>2. m = CHOOSE x \in {n, k} : \A y \in {n, k} : x <= y
    BY DEF Min
  <1>3. m \in Nat /\ m <= n /\ (k <= n => m = k)
    <2> HIDE DEF m
    <2>1. \E x \in {n, k} : \A y \in {n, k} : x <= y
      <3> HIDE DEF k
      <3> QED BY <1>1
    <2>2. m \in {n, k} /\ \A y \in {n, k} : m <= y
      <3> HIDE DEF k
      <3> QED BY <1>2, <2>1
    <2> QED
      BY <1>1, <2>2
  <1>4. PICK W \in kSubset(m, S) : w \in Bijection(W, 1..m)
    BY DEF Rankings
  <1>5. W \subseteq S /\ Cardinality(W) = m /\ w \in [W -> 1..m] /\ IsInjective(w)
    BY <1>4 DEF kSubset, Bijection, Injection
  <1>6. k <= n => W = S
    BY <1>3, <1>5, FS_Subset
  <1> HIDE DEF m
  <1> QED
    BY <1>3, <1>5, <1>6 DEF IsInjective

LEMMA JoinsAnswer ==
    ASSUME TypeOK, OneRowPerId, PartsOfTexts, NEW r \in Request \cup {NoRequest},
           NEW S, IsFiniteSet(S), NEW w \in Rankings(S, r.limit),
           NEW rows, rows = Joined(r, w)
    PROVE  /\ DOMAIN rows \subseteq chunks /\ Answers(rows, r)
           /\ \A c \in DOMAIN rows : c.id \in S
           /\ Cardinality(S) <= r.limit =>
                 \A c \in chunks : c.id \in S /\ Passes(r, c.quad) => c \in DOMAIN rows
  <1>1. /\ DOMAIN w \subseteq S /\ \A x \in DOMAIN w : w[x] \in 1..r.limit
        /\ \A x, y \in DOMAIN w : w[x] = w[y] => x = y
        /\ Cardinality(S) <= r.limit => DOMAIN w = S
    BY LimitIsPositive, RankingsRank
  <1>2. /\ DOMAIN rows = {d \in chunks : d.id \in DOMAIN w /\ Passes(r, d.quad)}
        /\ \A c \in DOMAIN rows : rows[c] = w[c.id]
    BY DEF Joined
  <1>3. \A c \in chunks : c.quad \in Quad /\ c.part \in 1..Parts[c.quad]
    BY DEF TypeOK, PartsOfTexts
  <1>4. \A c, d \in DOMAIN rows : c.id = d.id \/ rows[c] = rows[d] => c = d
    BY <1>1, <1>2 DEF OneRowPerId
  <1>5. Answers(rows, r)
    BY <1>1, <1>2, <1>3, <1>4 DEF Answers
  <1> QED
    BY <1>1, <1>2, <1>5

LEMMA FiniteTables ==
    ASSUME TypeInv
    PROVE  IsFiniteSet(vec) /\ \A C \in SUBSET chunks : IsFiniteSet(Ids(C))
  <1>1. vec \subseteq UsedIds /\ \A C \in SUBSET chunks : Ids(C) \subseteq UsedIds
    BY DEF UsedIds, Ids
  <1> QED
    BY <1>1, FS_Subset DEF TypeInv

\* There are as many rowids as chunks.
LEMMA IdsAreMany ==
    ASSUME TypeInv, OneRowPerId, NEW C \in SUBSET chunks
    PROVE  Cardinality(Ids(C)) = Cardinality(C)
  <1> DEFINE f == [c \in C |-> c.id]
  <1>1. f \in Bijection(C, Ids(C))
    BY DEF Bijection, Injection, Surjection, IsInjective, Ids, OneRowPerId
  <1>2. f \in Injection(C, Ids(C)) /\ ExistsBijection(C, Ids(C)) /\ IsFiniteSet(Ids(C))
    BY <1>1, FiniteTables DEF Bijection, ExistsBijection
  <1>3. IsFiniteSet(C)
    BY <1>2, FS_Injection
  <1> QED
    BY <1>2, <1>3, FS_Bijection

\* The keyword rows have the words, whatever is not a filler word of the query.
LEMMA KeywordRowsAnswer ==
    ASSUME TypeInv, OneRowPerId, PartsOfTexts, NEW r \in Request \cup {NoRequest},
           NEW rows \in KeywordRows(r)
    PROVE  /\ DOMAIN rows \subseteq chunks /\ Answers(rows, r)
           /\ \A c \in DOMAIN rows : Sanitized(r.query) \subseteq Words[c.quad][c.part]
           /\ Fits(Matches(r), r) =>
                 \A c \in chunks :
                    Sanitized(r.query) \subseteq Words[c.quad][c.part] /\ Passes(r, c.quad)
                    => c \in DOMAIN rows
  <1> DEFINE S == Ids(Matches(r))
  <1>1. IsFiniteSet(S) /\ Cardinality(S) = Cardinality(Matches(r))
    BY FiniteTables, IdsAreMany DEF Matches
  <1>2. PICK w \in Rankings(S, r.limit) : rows = Joined(r, w)
    BY DEF KeywordRows
  <1> HIDE DEF S
  <1>3. /\ DOMAIN rows \subseteq chunks /\ Answers(rows, r)
        /\ \A c \in DOMAIN rows : c.id \in S
        /\ Cardinality(S) <= r.limit =>
              \A c \in chunks : c.id \in S /\ Passes(r, c.quad) => c \in DOMAIN rows
    BY <1>1, <1>2, JoinsAnswer DEF TypeInv
  <1>4. /\ \A c \in DOMAIN rows : c \in Matches(r)
        /\ \A c \in Matches(r) : c.id \in S
    BY <1>3 DEF S, Ids, Matches, OneRowPerId
  <1>5. \A c \in chunks : Sanitized(r.query) \subseteq Words[c.quad][c.part]
                          => c \in Matches(r)
    BY DEF Matches
  <1> QED
    BY <1>1, <1>3, <1>4, <1>5 DEF Matches, Fits

LEMMA VectorRowsAnswer ==
    ASSUME TypeInv, OneRowPerId, PartsOfTexts, NEW r \in Request \cup {NoRequest},
           NEW rows \in VectorRows(r)
    PROVE  /\ DOMAIN rows \subseteq chunks /\ Answers(rows, r)
           /\ Fits(vec, r) =>
                 \A c \in chunks : c.id \in vec /\ Passes(r, c.quad) => c \in DOMAIN rows
  <1>1. PICK w \in Rankings(vec, r.limit) : rows = Joined(r, w)
    BY DEF VectorRows
  <1> QED
    BY <1>1, FiniteTables, JoinsAnswer DEF TypeInv, Fits

-----------------------------------------------------------------------------
\* What a writer's step does to what the search relies on.

\* A step of a writer adds no chunk, or one with a new rowid.
Adds(n) ==
    /\ chunks' = chunks \cup {n}
    /\ n.id \notin UsedIds /\ n.quad \in Quad /\ n.part \in 1..Parts[n.quad]

LEMMA InsertAdds ==
    ASSUME TypeInv, NEW t \in Task, InsertChunk(t)
    PROVE  \E n : Adds(n)
  <1>1. FreshId \notin UsedIds
    BY FreshIdIsFresh DEF TypeInv
  <1>2. PICK c \in todo[t] :
           chunks' = chunks \cup {[id |-> FreshId, quad |-> c[1], part |-> c[2]]}
    BY DEF InsertChunk
  <1>3. c[1] \in Quad /\ c[2] \in 1..Parts[c[1]]
    BY DEF TypeInv, TypeOK
  <1> DEFINE n == [id |-> FreshId, quad |-> c[1], part |-> c[2]]
  <1>4. Adds(n)
    BY <1>1, <1>2, <1>3 DEF Adds
  <1> QED
    BY <1>4

LEMMA WriteAdds ==
    ASSUME TypeInv, Write
    PROVE  chunks' \subseteq chunks \/ \E n : Adds(n)
  <1>1. ASSUME NEW t \in Task, Step(t)
        PROVE  chunks' \subseteq chunks \/ \E n : Adds(n)
    <2>1. CASE InsertChunk(t)
      BY <2>1, InsertAdds
    <2>2. CASE FlushEarly(t) \/ Flush(t) \/ FlushVec(t) \/ Cleanup(t) \/ Sweep(t)
      BY <2>2 DEF FlushEarly, Flush, FlushVec, Cleanup, Sweep, FlushRest, Land
    <2>3. CASE Wipe(t)
      BY <2>3 DEF Wipe
    <2>4. CASE \/ Lookup(t) \/ Stage(t) \/ CommitFails(t) \/ Embed(t) \/ ProjectionFails(t)
               \/ CleanupFails(t) \/ Page(t) \/ RebuildFails(t)
      BY <2>4 DEF Lookup, Stage, CommitFails, Embed, ProjectionFails, CleanupFails, Page,
                  RebuildFails, database
    <2> QED
      BY <1>1, <2>1, <2>2, <2>3, <2>4 DEF Step
  <1>2. CASE \/ \E t \in Task : \E p \in Patch[t] : CallCommit(t, p)
             \/ \E t \in Reindexer : CallReindex(t)
             \/ Crash
    BY <1>2 DEF CallCommit, CallReindex, Crash, database
  <1> QED
    BY <1>1, <1>2 DEF Write

LEMMA WriteApart ==
    ASSUME TypeInv, Write, apart'
    PROVE  apart
  <1>1. ASSUME NEW t \in Task, Step(t) PROVE apart
    BY <1>1, StepTyped
  <1>2. CASE \/ \E t \in Task : \E p \in Patch[t] : CallCommit(t, p)
             \/ \E t \in Reindexer : CallReindex(t)
             \/ Crash
    BY <1>2 DEF CallCommit, CallReindex, CallBegins, Crash
  <1> QED
    BY <1>1, <1>2 DEF Write

LEMMA WritesKeep ==
    ASSUME TypeInv, SearchInv, Writes
    PROVE  SearchInv'
  <1>0. /\ Write /\ UNCHANGED <<place, req, plan, kw, vc, held, roomy>>
        /\ place # "answer"
    BY DEF Writes, found
  <1>1. Ids(chunks) \subseteq UsedIds /\ Ids(DOMAIN kw) \subseteq UsedIds
    BY DEF UsedIds, SearchInv
  <1>2. OneRowPerId' /\ PartsOfTexts' /\ RowsStayKnown'
    <2>1. CASE chunks' \subseteq chunks
      BY <1>0, <2>1 DEF SearchInv, OneRowPerId, PartsOfTexts, RowsStayKnown
    <2>2. ASSUME NEW n, Adds(n) PROVE OneRowPerId' /\ PartsOfTexts' /\ RowsStayKnown'
      <3>1. /\ \A c \in chunks : c.id # n.id
            /\ \A c \in DOMAIN kw : c.id # n.id
        BY <1>1, <2>2 DEF Adds, Ids
      <3> QED
        BY <1>0, <2>2, <3>1 DEF SearchInv, OneRowPerId, PartsOfTexts, RowsStayKnown, Adds
    <2> QED
      BY <1>0, <2>1, <2>2, WriteAdds
  <1>3. FusionJoinsOneChunk' /\ Answers(kw', req') /\ Answers(vc', req')
    BY <1>0 DEF SearchInv, FusionJoinsOneChunk
  <1>4. apart' => apart
    BY <1>0, WriteApart
  <1>5. quads' \subseteq Quad
    BY <1>0, WriteTyped DEF TypeInv, TypeOK
  <1>6. CASE place = "idle"
    <2>1. UNCHANGED <<seen, steady, lasting>>
      BY <1>6 DEF Writes
    <2>2. Awaiting'
      BY <1>0, <1>6, <2>1 DEF Awaiting, SearchInv
    <2>3. Finding'
      BY <1>0, <1>6 DEF Finding
    <2> QED
      BY <1>0, <1>2, <1>3, <1>6, <2>1, <2>2, <2>3 DEF SearchInv, Awaiting
  <1>7. CASE place # "idle"
    <2>1. /\ seen' = seen \cup quads' /\ lasting' = lasting \cap vec'
          /\ steady' = steady \cap chunks'
      BY <1>7 DEF Writes
    <2>2. Awaiting'
      BY <1>0, <1>4, <1>7, <2>1 DEF Awaiting, SearchInv
    <2>3. steady' \subseteq steady /\ Finding
      BY <2>1 DEF SearchInv
    <2>4. Finding'
      <3>1. KeywordFound => KeywordFound'
        BY <1>0, <2>3 DEF KeywordFound
      <3> QED
        BY <1>0, <2>3, <3>1 DEF Finding
    <2> QED
      BY <1>0, <1>2, <1>3, <1>5, <1>7, <2>1, <2>2, <2>4 DEF SearchInv
  <1> QED
    BY <1>6, <1>7

-----------------------------------------------------------------------------
\* The steps of the search.

\* A step that changes no table keeps what is known of the tables.
LEMMA TablesKnown ==
    ASSUME TypeOK, SearchInv, UNCHANGED <<database, apart>>
    PROVE  /\ OneRowPerId' /\ PartsOfTexts'
           /\ chunks' = chunks /\ vec' = vec /\ quads' = quads /\ apart' = apart
           /\ quads \subseteq Quad
  BY DEF SearchInv, OneRowPerId, PartsOfTexts, database, TypeOK

\* Rows of chunks are of stored quads.
LEMMA RowsAreStored ==
    ASSUME OrphanInv, apart, NEW rows \in SUBSET chunks
    PROVE  \A c \in rows : c.quad \in quads
  BY DEF OrphanInv, Sound

LEMMA ExecuteKeeps ==
    ASSUME TypeInv, OrphanInv, SearchInv,
           NEW r \in Request \cup {NoRequest}, NEW hasVector \in BOOLEAN,
           Execute(r, hasVector), UNCHANGED <<database, apart>>, req' = r,
           quads \subseteq seen', seen' \subseteq Quad, lasting' \subseteq vec,
           steady' \subseteq chunks
    PROVE  SearchInv'
  <1> DEFINE branches == PlanFor(r, hasVector)
  <1>1. /\ OneRowPerId' /\ PartsOfTexts'
        /\ chunks' = chunks /\ vec' = vec /\ quads' = quads /\ apart' = apart
    BY TablesKnown DEF TypeInv
  <1>2. OneRowPerId /\ PartsOfTexts
    BY DEF SearchInv
  <1>3. /\ branches \subseteq {"keyword", "vector"}
        /\ plan' = branches
        /\ place' \in {"vector", "answer"}
        /\ held' = Ids(DOMAIN kw') /\ roomy' \in BOOLEAN
        /\ place' = "vector" => "vector" \in plan'
        /\ Sanitized(r.query) # {} => "keyword" \in branches
    BY DEF Execute, PlanFor
  <1>4. /\ DOMAIN kw' \subseteq chunks /\ Answers(kw', r)
        /\ \A c \in DOMAIN kw' : Sanitized(r.query) \subseteq Words[c.quad][c.part]
        /\ branches = {"vector"} => DOMAIN kw' = {}
        /\ roomy' /\ "keyword" \in branches => KeywordFound'
    <2>1. CASE "keyword" \in branches
      <3>1. kw' \in KeywordRows(r)
        BY <2>1 DEF Execute
      <3>2. roomy' => Fits(Matches(r), r)
        BY <2>1 DEF Execute
      <3>3. /\ DOMAIN kw' \subseteq chunks /\ Answers(kw', r)
            /\ \A c \in DOMAIN kw' : Sanitized(r.query) \subseteq Words[c.quad][c.part]
            /\ roomy' => \A c \in chunks :
                  Sanitized(r.query) \subseteq Words[c.quad][c.part] /\ Passes(r, c.quad)
                  => c \in DOMAIN kw'
        BY <1>2, <3>1, <3>2, KeywordRowsAnswer
      <3> QED
        BY <2>1, <3>3 DEF KeywordFound
    <2>2. CASE "keyword" \notin branches
      <3>1. kw' = <<>>
        BY <2>2 DEF Execute
      <3> QED
        BY <2>2, <3>1, EmptyIsSeq DEF Answers
    <2> QED
      BY <2>1, <2>2
  <1>5. /\ DOMAIN vc' \subseteq chunks /\ Answers(vc', r)
        /\ branches # {"vector"} => DOMAIN vc' = {}
        /\ roomy' /\ branches = {"vector"} => VectorFound'
    <2>1. CASE branches = {"vector"}
      <3>1. vc' \in VectorRows(r)
        BY <2>1 DEF Execute
      <3>2. roomy' => Fits(vec, r)
        BY <2>1 DEF Execute
      <3>3. /\ DOMAIN vc' \subseteq chunks /\ Answers(vc', r)
            /\ roomy' => \A c \in chunks :
                  c.id \in vec /\ Passes(r, c.quad) => c \in DOMAIN vc'
        BY <1>2, <3>1, <3>2, VectorRowsAnswer
      <3> QED
        BY <2>1, <3>3 DEF VectorFound
    <2>2. CASE branches # {"vector"}
      <3>1. vc' = <<>>
        BY <2>2 DEF Execute
      <3> QED
        BY <2>2, <3>1, EmptyIsSeq DEF Answers
    <2> QED
      BY <2>1, <2>2
  <1> HIDE DEF branches
  <1>6. RowsStayKnown' /\ FusionJoinsOneChunk'
    BY <1>1, <1>4, <1>5 DEF RowsStayKnown, FusionJoinsOneChunk, OneRowPerId
  <1>7. apart => \A c \in DOMAIN kw' \cup DOMAIN vc' : c.quad \in quads
    BY <1>4, <1>5, RowsAreStored
  <1>8. Awaiting'
    BY <1>1, <1>3, <1>4, <1>7 DEF Awaiting
  <1>9. Answers(kw, req)' /\ Answers(vc, req)'
    BY <1>4, <1>5 DEF Answers
  <1>10. place' = "answer" => branches # {"keyword", "vector"}
    BY DEF Execute, branches
  <1>11. Finding'
    BY <1>3, <1>4, <1>5, <1>10 DEF Finding
  <1> QED
    BY <1>1, <1>3, <1>6, <1>8, <1>9, <1>11 DEF SearchInv

LEMMA CallSearchKeeps ==
    ASSUME TypeInv, OrphanInv, SearchInv, NEW r \in Request, CallSearch(r)
    PROVE  SearchInv'
  <1>1. /\ UNCHANGED <<database, apart>> /\ place = "idle" /\ req' = r
        /\ seen' = quads /\ steady' = chunks /\ lasting' = vec
    BY DEF CallSearch, history
  <1>2. /\ OneRowPerId' /\ PartsOfTexts'
        /\ chunks' = chunks /\ vec' = vec /\ quads' = quads /\ apart' = apart
        /\ quads \subseteq Quad
    BY <1>1, TablesKnown DEF TypeInv
  <1>3. CASE Vectors
    <2>1. place' = "embed" /\ UNCHANGED <<plan, kw, vc, held, roomy>>
      BY <1>3 DEF CallSearch
    <2>2. DOMAIN kw' = {} /\ DOMAIN vc' = {}
      BY <1>1, <2>1 DEF SearchInv, Awaiting
    <2>3. /\ Answers(kw, req)' /\ Answers(vc, req)' /\ Awaiting'
          /\ RowsStayKnown' /\ FusionJoinsOneChunk' /\ Finding'
      BY <1>2, <1>1, <2>1, <2>2
         DEF Answers, Awaiting, RowsStayKnown, FusionJoinsOneChunk, Finding
    <2> QED
      BY <1>1, <1>2, <2>1, <2>3 DEF SearchInv
  <1>4. CASE ~Vectors
    <2>1. Execute(r, FALSE)
      BY <1>4 DEF CallSearch
    <2> QED
      BY <1>1, <1>2, <2>1, ExecuteKeeps
  <1> QED
    BY <1>3, <1>4

\* The embedding arrives or does not: a search from its call on.
LEMMA EmbeddedKeeps ==
    ASSUME TypeInv, OrphanInv, SearchInv, QueryEmbedded \/ QueryNotEmbedded
    PROVE  SearchInv'
  <1>1. /\ UNCHANGED <<database, apart>> /\ place = "embed"
        /\ req' = req /\ seen' = seen /\ lasting' = lasting /\ steady' = steady
        /\ \E h \in BOOLEAN : Execute(req, h)
    BY DEF QueryEmbedded, QueryNotEmbedded, history
  <1>2. /\ req \in Request \cup {NoRequest} /\ quads \subseteq seen
        /\ seen \subseteq Quad /\ lasting \subseteq vec /\ steady \subseteq chunks
    BY <1>1 DEF SearchInv, Awaiting
  <1> QED
    BY <1>1, <1>2, ExecuteKeeps

LEMMA SearchVectorsKeeps ==
    ASSUME TypeInv, OrphanInv, SearchInv, SearchVectors
    PROVE  SearchInv'
  <1>1. /\ UNCHANGED <<database, apart, held>> /\ place = "vector" /\ place' = "answer"
        /\ UNCHANGED <<req, plan, kw, seen, steady, lasting>>
        /\ vc' \in VectorRows(req) /\ roomy' \in BOOLEAN
        /\ roomy' => roomy /\ Fits(vec, req)
    BY DEF SearchVectors, vars, history, SearchInv
  <1>2. /\ OneRowPerId' /\ PartsOfTexts'
        /\ chunks' = chunks /\ vec' = vec /\ quads' = quads /\ apart' = apart
    BY <1>1, TablesKnown DEF TypeInv
  <1>3. /\ OneRowPerId /\ PartsOfTexts /\ req \in Request \cup {NoRequest}
        /\ RowsStayKnown /\ Finding
        /\ steady \subseteq chunks /\ lasting \subseteq vec
    BY DEF SearchInv, Awaiting
  <1>4. /\ DOMAIN vc' \subseteq chunks /\ Answers(vc', req)
        /\ Fits(vec, req) =>
              \A c \in chunks : c.id \in vec /\ Passes(req, c.quad) => c \in DOMAIN vc'
    BY <1>1, <1>3, VectorRowsAnswer
  <1>5. RowsStayKnown' /\ FusionJoinsOneChunk'
    BY <1>1, <1>2, <1>3, <1>4 DEF RowsStayKnown, FusionJoinsOneChunk
  <1>6. apart => \A c \in DOMAIN vc' : c.quad \in quads
    BY <1>4, RowsAreStored
  <1>7. Awaiting'
    BY <1>1, <1>2, <1>6 DEF Awaiting, SearchInv
  <1>8. Answers(kw, req)' /\ Answers(vc, req)'
    BY <1>1, <1>4 DEF Answers, SearchInv
  <1>9. Finding'
    <2>1. roomy' => VectorFound'
      BY <1>1, <1>3, <1>4 DEF VectorFound
    <2>2. KeywordFound => KeywordFound'
      BY <1>1 DEF KeywordFound
    <2> QED
      BY <1>1, <1>3, <2>1, <2>2 DEF Finding
  <1> QED
    BY <1>1, <1>2, <1>5, <1>7, <1>8, <1>9 DEF SearchInv

LEMMA ForgetKeeps ==
    ASSUME TypeOK, SearchInv, Forget
    PROVE  SearchInv'
  <1>1. /\ UNCHANGED <<database, apart>>
        /\ place' = "idle" /\ req' = NoRequest /\ plan' = {} /\ kw' = <<>> /\ vc' = <<>>
        /\ held' = {} /\ seen' = {} /\ steady' = {} /\ lasting' = {} /\ roomy' = TRUE
    BY DEF Forget, history
  <1>2. OneRowPerId' /\ PartsOfTexts'
    BY <1>1, TablesKnown
  <1>3. DOMAIN kw' = {} /\ DOMAIN vc' = {}
    BY <1>1, EmptyIsSeq
  <1>4. /\ Answers(kw, req)' /\ Answers(vc, req)' /\ Awaiting'
        /\ RowsStayKnown' /\ FusionJoinsOneChunk' /\ held' = Ids(DOMAIN kw')
        /\ Finding'
    BY <1>1, <1>3 DEF Answers, Awaiting, RowsStayKnown, FusionJoinsOneChunk, Ids, Finding
  <1> QED
    BY <1>1, <1>2, <1>4 DEF SearchInv

\* The search's own steps: it writes nothing, and holds rowids that are in use.
Searching ==
    \/ \E r \in Request : CallSearch(r)
    \/ QueryEmbedded \/ QueryNotEmbedded \/ SearchVectors
    \/ Answer \/ SearchFails

LEMMA SearchingKeeps ==
    ASSUME TypeInv, OrphanInv, SearchInv, Searching
    PROVE  /\ SearchInv'
           /\ UNCHANGED <<database, local, mode, pc, history>>
           /\ held' \subseteq UsedIds
  <1>1. UNCHANGED <<database, local, mode, pc, history>>
    BY DEF Searching, CallSearch, QueryEmbedded, QueryNotEmbedded, SearchVectors, Answer,
           SearchFails, Forget, vars
  <1>2. SearchInv'
    BY CallSearchKeeps, EmbeddedKeeps, SearchVectorsKeeps, ForgetKeeps
       DEF Searching, Answer, SearchFails, TypeInv
  <1>3. held' \subseteq UsedIds
    <2>1. CASE held' = held \/ held' = {}
      BY <2>1 DEF UsedIds
    <2>2. ASSUME NEW r \in Request \cup {NoRequest}, NEW h \in BOOLEAN, Execute(r, h)
          PROVE  held' \subseteq UsedIds
      <3>1. held' = Ids(DOMAIN kw') /\ (kw' \in KeywordRows(r) \/ kw' = <<>>)
        BY <2>2 DEF Execute
      <3>2. OneRowPerId /\ PartsOfTexts
        BY DEF SearchInv
      <3>3. DOMAIN kw' \subseteq chunks
        BY <3>1, <3>2, KeywordRowsAnswer, EmptyIsSeq
      <3> QED
        BY <3>1, <3>3 DEF Ids, UsedIds
    <2>3. req \in Request \cup {NoRequest}
      BY DEF SearchInv
    <2> QED
      BY <2>1, <2>2, <2>3 DEF Searching, CallSearch, QueryEmbedded, QueryNotEmbedded,
         SearchVectors, Answer, SearchFails, Forget, vars
  <1> QED
    BY <1>1, <1>2, <1>3

-----------------------------------------------------------------------------
\* The invariant of the writers and the search together.

BesideInv == TypeInv /\ OrphanInv /\ IndexInv /\ SearchInv

LEMMA BesideStarts == SearchInit => BesideInv
  <1> SUFFICES ASSUME SearchInit PROVE BesideInv
    OBVIOUS
  <1>1. TypeInv /\ OrphanInv /\ IndexInv
    BY InitTyped, InitKeeps, InitIndexed DEF SearchInit
  <1>2. /\ chunks = {} /\ held = {} /\ vec = {}
        /\ place = "idle" /\ req = NoRequest /\ plan = {}
        /\ seen = {} /\ steady = {} /\ lasting = {} /\ roomy = TRUE
    BY DEF SearchInit, Init
  <1>3. DOMAIN kw = {} /\ DOMAIN vc = {}
    BY EmptyIsSeq DEF SearchInit
  <1>4. SearchInv
    BY <1>2, <1>3 DEF SearchInv, OneRowPerId, PartsOfTexts, RowsStayKnown,
       FusionJoinsOneChunk, Answers, Awaiting, Finding, Ids
  <1> QED
    BY <1>1, <1>4 DEF BesideInv

LEMMA BesideStep == BesideInv /\ [SearchNext]_searchVars => BesideInv'
  <1> SUFFICES ASSUME BesideInv, [SearchNext]_searchVars PROVE BesideInv'
    OBVIOUS
  <1>0. TypeInv /\ OrphanInv /\ IndexInv /\ SearchInv
    BY DEF BesideInv
  <1>1. CASE Writes
    BY <1>0, <1>1, WriteTyped, WriteKeeps, WriteKeepsIndex, WritesKeep DEF Writes, BesideInv
  <1>2. CASE Searching
    <2>1. /\ SearchInv'
          /\ UNCHANGED <<database, local, mode, pc, history>>
          /\ held' \subseteq UsedIds
      BY <1>0, <1>2, SearchingKeeps
    <2>2. OrphanInv' /\ IndexInv'
      BY <1>0, <2>1, OrphanInvStutters, IndexInvStutters DEF history
    <2>3. Modest
      BY <2>1 DEF Modest, Ids, UsedIds, database, local
    <2>4. UsedIds \subseteq Nat
      <3>1. \A t \in Task : Named(staged[t], "vec+") \subseteq Nat
        BY <1>0, NamedTypes DEF TypeInv, TypeOK
      <3>2. Ids(chunks) \subseteq Nat /\ vec \subseteq Nat /\ held \subseteq Nat
        BY <1>0 DEF TypeInv, TypeOK, Ids
      <3> QED
        BY <3>1, <3>2 DEF UsedIds
    <2>5. TypeOK'
      BY <1>0, <2>1, <2>4 DEF TypeInv, TypeOK, database, local, history
    <2> QED
      BY <1>0, <2>1, <2>2, <2>3, <2>5, ModestStep DEF BesideInv, TypeInv
  <1>3. CASE UNCHANGED searchVars
    <2>1. UNCHANGED <<vars, found, witness>>
      BY <1>3 DEF searchVars
    <2>2. TypeInv'
      BY <1>0, <2>1, StutterTyped
    <2>3. OrphanInv' /\ IndexInv'
      BY <1>0, <2>1, OrphanInvStutters, IndexInvStutters DEF vars, history
    <2>4. SearchInv'
      BY <1>0, <2>1 DEF SearchInv, OneRowPerId, PartsOfTexts, RowsStayKnown, Awaiting,
         Finding, KeywordFound, VectorFound,
         FusionJoinsOneChunk, Answers, vars, found, witness, database, history
    <2> QED
      BY <2>2, <2>3, <2>4 DEF BesideInv
  <1> QED
    BY <1>1, <1>2, <1>3 DEF SearchNext, Searching

LEMMA AlwaysBeside == SearchSpec => []BesideInv
  BY BesideStarts, BesideStep, PTL DEF SearchSpec

-----------------------------------------------------------------------------
\* The theorems.

\* The types of a search beside its writers: the rows it holds are of parts of the
\* stored texts, their ranks are within its limit, and it holds no other rowids.
THEOREM SearchTypeCorrect == SearchSpec => []SearchTypeOK
  <1>1. BesideInv => SearchTypeOK
    BY DEF BesideInv, SearchInv, SearchTypeOK, Answers
  <1> QED
    BY AlwaysBeside, <1>1, PTL

\* The fusion adds up ranks of one text, however the writers delete and insert
\* chunks between its two statements: a rowid that was used is not used again.
THEOREM FusionJoinsRightly == SearchSpec => []FusionJoinsOneChunk
  <1>1. BesideInv => FusionJoinsOneChunk
    BY DEF BesideInv, SearchInv
  <1> QED
    BY AlwaysBeside, <1>1, PTL

\* Search answers with what the store holds: every result is of a quad that was
\* stored at some moment of the search, passes its filter, and has the words of
\* the query if it was found by them; for any writers about different quads.
THEOREM FindsWhatWasStored == SearchSpec => []FoundWasStored
  <1>1. BesideInv => FoundWasStored
    <2> SUFFICES ASSUME BesideInv, place = "answer", apart, NEW c \in Results
                 PROVE  /\ c.quad \in seen /\ Passes(req, c.quad)
                        /\ c \in DOMAIN kw =>
                              Sanitized(req.query) \subseteq Words[c.quad][c.part]
      BY DEF FoundWasStored
    <2>1. c \in DOMAIN kw \cup DOMAIN vc
      BY DEF Results, Listed, Rows
    <2> QED
      BY <2>1 DEF BesideInv, SearchInv, Awaiting, Answers
  <1> QED
    BY AlwaysBeside, <1>1, PTL

\* One part of one quad is listed twice only if its chunk was replaced while the
\* search ran: of the chunks no writer touched there is one for each part.
THEOREM TwinsAreRefreshed == SearchSpec => []TwinsWereRefreshed
  <1>1. BesideInv => TwinsWereRefreshed
    <2> SUFFICES ASSUME BesideInv, apart, NEW c \in steady, NEW d \in steady, c # d
                 PROVE  <<c.quad, c.part>> # <<d.quad, d.part>>
      BY DEF TwinsWereRefreshed
    <2>1. c \in chunks /\ d \in chunks
      BY DEF BesideInv, SearchInv, Awaiting
    <2>2. OnePerPart(chunks)
      BY DEF BesideInv, IndexInv
    <2> QED
      BY <2>1, <2>2 DEF OnePerPart
  <1> QED
    BY AlwaysBeside, <1>1, PTL

-----------------------------------------------------------------------------
\* What stood still is found.

\* A branch adds the reciprocal rank of a row it returned, and nothing for others.
LEMMA Shares ==
    ASSUME NEW rows, NEW r, Answers(rows, r), r.limit \in Nat, NEW c
    PROVE  /\ c \in DOMAIN rows => Share(rows, c) = <<1, FusionK + rows[c]>>
           /\ c.id \notin Ids(DOMAIN rows) => Share(rows, c) = <<0, 1>>
  <1> DEFINE ranks == {rows[d] : d \in {e \in DOMAIN rows : e.id = c.id}}
  <1>1. ASSUME c \in DOMAIN rows PROVE Share(rows, c) = <<1, FusionK + rows[c]>>
    <2>1. ranks = {rows[c]}
      BY <1>1 DEF Answers
    <2>2. rows[c] \in Nat
      BY <1>1 DEF Answers
    <2>3. Min({rows[c]}) = rows[c]
      BY <2>2 DEF Min
    <2> QED
      BY <2>1, <2>3 DEF Share
  <1>2. ASSUME c.id \notin Ids(DOMAIN rows) PROVE Share(rows, c) = <<0, 1>>
    <2>1. ranks = {}
      BY <1>2 DEF Ids
    <2> QED
      BY <2>1 DEF Share
  <1> QED
    BY <1>1, <1>2

\* A branch returns no more rows than its limit.
LEMMA FewRows ==
    ASSUME NEW rows, NEW r, Answers(rows, r), r.limit \in Nat \ {0}
    PROVE  IsFiniteSet(DOMAIN rows) /\ Cardinality(DOMAIN rows) <= r.limit
  <1> DEFINE f == [c \in DOMAIN rows |-> rows[c]]
  <1>1. f \in Injection(DOMAIN rows, 1..r.limit)
    BY DEF Answers, Injection, IsInjective
  <1>2. IsFiniteSet(1..r.limit) /\ Cardinality(1..r.limit) = r.limit
    BY FS_Interval
  <1>3. Cardinality(DOMAIN rows) <= Cardinality(1..r.limit) /\ IsFiniteSet(DOMAIN rows)
    BY <1>1, <1>2, FS_Injection
  <1> QED
    BY <1>2, <1>3

\* Two reciprocal ranks within the first n add up to more than any one can be.
LEMMA TwoSharesWin ==
    ASSUME NEW n \in Nat \ {0}, NEW a \in n..(2 * n - 1), NEW b \in n..(2 * n - 1),
           NEW e \in Nat, n <= e
    PROVE  (1 * b + 1 * a) * e > 1 * (a * b)
  <1>1. a * b <= (2 * n - 1) * b /\ a * b <= a * (2 * n - 1)
    <2>1. \A x, y, z \in Nat : x <= y => x * z <= y * z /\ z * x <= z * y
      OBVIOUS
    <2>2. a \in Nat /\ b \in Nat /\ 2 * n - 1 \in Nat
      OBVIOUS
    <2> QED
      BY <2>1, <2>2
  <1>2. (a + b) * n <= (a + b) * e
    OBVIOUS
  <1>3. /\ (2 * n - 1) * b = 2 * (b * n) - b
        /\ a * (2 * n - 1) = 2 * (a * n) - a
        /\ (a + b) * n = a * n + b * n
        /\ (1 * b + 1 * a) * e = (a + b) * e
        /\ 1 * (a * b) = a * b
    OBVIOUS
  <1>4. a * b \in Int /\ a * n \in Int /\ b * n \in Int /\ (a + b) * e \in Int
    OBVIOUS
  <1> DEFINE ab == a * b
             an == a * n
             bn == b * n
             se == (a + b) * e
  <1>5. ab <= 2 * bn - b /\ ab <= 2 * an - a /\ an + bn <= se
    BY <1>1, <1>2, <1>3
  <1> HIDE DEF ab, an, bn, se
  <1>6. ab \in Int /\ an \in Int /\ bn \in Int /\ se \in Int
    BY <1>4 DEF ab, an, bn, se
  <1>7. se > ab
    BY <1>5, <1>6
  <1> QED
    BY <1>3, <1>7 DEF ab, se

LEMMA ListedIfFirst ==
    ASSUME NEW c, NEW S, IsFiniteSet(S), Cardinality(S) <= req.limit, req.limit \in Nat,
           c \in S, c \in Rows, ~Before(c, c),
           \A d \in Rows : Before(d, c) => d \in S
    PROVE  c \in Listed
  <1> DEFINE B == {d \in Rows : Before(d, c)}
  <1>1. B \subseteq S \ {c}
    OBVIOUS
  <1>2. /\ IsFiniteSet(S \ {c}) /\ Cardinality(S \ {c}) = Cardinality(S) - 1
        /\ Cardinality(S) \in Nat
    BY FS_RemoveElement, FS_CardinalityType
  <1>3. Cardinality(B) <= Cardinality(S \ {c}) /\ Cardinality(B) \in Nat
    BY <1>1, <1>2, FS_Subset, FS_CardinalityType
  <1> QED
    BY <1>2, <1>3 DEF Listed

LEMMA ScoresAreFractions ==
    ASSUME BesideInv, NEW c \in Rows
    PROVE  /\ \E n, m \in Nat : Score(c) = <<n, m>>
           /\ Slot(c) \in Nat /\ Terms[c.quad].subject \in Nat
  <1>1. /\ req.limit \in Nat \ {0} /\ Answers(kw, req) /\ Answers(vc, req)
        /\ c \in DOMAIN kw \cup DOMAIN vc
    BY LimitIsPositive DEF BesideInv, SearchInv, Rows
  <1>2. ASSUME NEW rows, Answers(rows, req),
               c \in DOMAIN rows \/ c.id \notin Ids(DOMAIN rows)
        PROVE  \E n, m \in Nat : Share(rows, c) = <<n, m>>
    <2>1. CASE c \in DOMAIN rows
      <3>1. FusionK + rows[c] \in Nat
        BY <1>2, <2>1, FusionAssumption DEF Answers
      <3> QED
        BY <1>1, <1>2, <2>1, <3>1, Shares
    <2>2. CASE c.id \notin Ids(DOMAIN rows)
      BY <1>1, <1>2, <2>2, Shares
    <2> QED
      BY <1>2, <2>1, <2>2
  <1>3. /\ c \in DOMAIN kw \/ c.id \notin Ids(DOMAIN kw)
        /\ c \in DOMAIN vc \/ c.id \notin Ids(DOMAIN vc)
    BY DEF Rows, Ids, BesideInv, SearchInv, FusionJoinsOneChunk
  <1>4. PICK a, b, d, e \in Nat : Share(kw, c) = <<a, b>> /\ Share(vc, c) = <<d, e>>
    BY <1>1, <1>2, <1>3
  <1>5. Score(c) = <<a * e + d * b, b * e>> /\ a * e + d * b \in Nat /\ b * e \in Nat
    BY <1>4 DEF Score
  <1>6. Slot(c) \in Nat
    BY <1>1 DEF Slot, Answers
  <1>7. Terms[c.quad].subject \in Nat
    BY <1>1, TermsAssumption DEF Answers, Dimension
  <1> QED
    BY <1>5, <1>6, <1>7

LEMMA BeforeIsStrict ==
    ASSUME BesideInv, NEW c \in Rows, NEW d \in Rows,
           Greater(Score(c), Score(d)) \/ c = d
    PROVE  ~Before(d, c)
  <1>1. PICK n, m \in Nat : Score(c) = <<n, m>>
    BY ScoresAreFractions
  <1>2. PICK i, j \in Nat : Score(d) = <<i, j>>
    BY ScoresAreFractions
  <1>3. n * j \in Nat /\ i * m \in Nat /\ n * m \in Nat
    OBVIOUS
  <1>4. CASE c = d
    <2>1. ~(n * m > n * m)
      BY <1>3
    <2>2. ~Greater(Score(c), Score(c))
      BY <1>1, <2>1 DEF Greater
    <2> QED
      BY <1>4, <2>2, ScoresAreFractions DEF Before
  <1>5. CASE Greater(Score(c), Score(d))
    <2>1. n * j > i * m
      BY <1>1, <1>2, <1>5 DEF Greater
    <2>2. ~(i * m > n * j)
      BY <1>3, <2>1
    <2>3. ~Greater(Score(d), Score(c))
      BY <1>1, <1>2, <2>2 DEF Greater
    <2> QED
      BY <1>5, <2>3 DEF Before
  <1> QED
    BY <1>4, <1>5

\* A row both branches rank high comes before every row the vector branch alone
\* returned.
LEMMA BothBeatOne ==
    ASSUME BesideInv, NEW c \in DOMAIN kw \cap DOMAIN vc, RankedHigh(c),
           NEW d \in DOMAIN vc, d.id \notin Ids(DOMAIN kw)
    PROVE  Greater(Score(c), Score(d))
  <1>1. req.limit \in Nat \ {0} /\ Answers(kw, req) /\ Answers(vc, req)
    BY LimitIsPositive DEF BesideInv, SearchInv
  <1> DEFINE a == FusionK + kw[c]
             b == FusionK + vc[c]
             e == FusionK + vc[d]
             n == FusionK + 1
  <1>2. kw[c] \in 1..n /\ vc[c] \in 1..n /\ vc[d] \in Nat \ {0}
    BY <1>1, FusionAssumption DEF Answers, RankedHigh
  <1>3. /\ n \in Nat \ {0} /\ a \in n..(2 * n - 1) /\ b \in n..(2 * n - 1)
        /\ e \in Nat /\ n <= e
    BY <1>2, FusionAssumption
  <1>4. /\ Share(kw, c) = <<1, a>> /\ Share(vc, c) = <<1, b>>
        /\ Share(kw, d) = <<0, 1>> /\ Share(vc, d) = <<1, e>>
    BY <1>1, Shares
  <1> HIDE DEF a, b, e, n
  <1>5. Score(c) = <<1 * b + 1 * a, a * b>> /\ Score(d) = <<0 * e + 1 * 1, 1 * e>>
    BY <1>4 DEF Score
  <1>6. 0 * e + 1 * 1 = 1 /\ 1 * e = e
    BY <1>3
  <1>7. (1 * b + 1 * a) * e > 1 * (a * b)
    BY <1>3, TwoSharesWin
  <1> QED
    BY <1>5, <1>6, <1>7 DEF Greater

\* What was there all along is found: a chunk that no writer touched during the
\* search, that has the words of the query and passes the filter, is listed as
\* long as the windows held what there was; in a hybrid search, if its vector
\* stood still as well and neither statement ranks it below its first FusionK + 1.
THEOREM SteadyStaysFound == SearchSpec => []SteadyIsFound
  <1>1. BesideInv => SteadyIsFound
    <2> SUFFICES ASSUME BesideInv, place = "answer", roomy, req.query \ Stopword # {},
                        NEW c \in steady,
                        req.query \ Stopword \subseteq Words[c.quad][c.part],
                        Passes(req, c.quad),
                        "vector" \in plan => c.id \in lasting /\ RankedHigh(c)
                 PROVE  c \in Listed
      BY DEF SteadyIsFound
    <2>1. Sanitized(req.query) = req.query \ Stopword
      BY DEF Sanitized
    <2>2. /\ req.limit \in Nat \ {0} /\ Answers(kw, req) /\ Answers(vc, req)
          /\ Finding /\ FusionJoinsOneChunk
      BY LimitIsPositive DEF BesideInv, SearchInv
    <2>3. c \in DOMAIN kw
      BY <2>1, <2>2 DEF Finding, KeywordFound
    <2>4. c \in Rows /\ ~Before(c, c)
      BY <2>3, BeforeIsStrict DEF Rows
    <2>5. ASSUME NEW d \in Rows, Before(d, c) PROVE d \in DOMAIN kw
      <3>1. CASE "vector" \notin plan
        BY <2>2, <2>5, <3>1 DEF Finding, Rows
      <3>2. CASE "vector" \in plan
        <4>1. c \in DOMAIN vc
          BY <2>2, <3>2 DEF Finding, VectorFound
        <4> SUFFICES ASSUME d \notin DOMAIN kw PROVE FALSE
          OBVIOUS
        <4>2. d \in DOMAIN vc /\ d.id \notin Ids(DOMAIN kw)
          BY <2>5 DEF Rows
        <4>3. Greater(Score(c), Score(d))
          BY <2>3, <3>2, <4>1, <4>2, BothBeatOne
        <4> QED
          BY <2>4, <2>5, <4>3, BeforeIsStrict
      <3> QED
        BY <3>1, <3>2
    <2>6. IsFiniteSet(DOMAIN kw) /\ Cardinality(DOMAIN kw) <= req.limit
      BY <2>2, FewRows
    <2> QED
      BY <2>2, <2>3, <2>4, <2>5, <2>6, ListedIfFirst
  <1> QED
    BY AlwaysBeside, <1>1, PTL
=============================================================================
