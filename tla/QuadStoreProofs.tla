-------------------------- MODULE QuadStoreProofs --------------------------
(***************************************************************************)
(* Proofs about QuadStore, for any tasks, quads, patches, sizes of slices, *)
(* batches and pages, and any failures: the types first, then that there   *)
(* are no orphans.                                                         *)
(***************************************************************************)
EXTENDS QuadStore, KeysetPageTheorems, SequenceTheorems, TLAPS

-----------------------------------------------------------------------------
\* Slices.

\* Dividing rounds down.
LEMMA Dividing ==
    ASSUME NEW a \in Nat, NEW n \in Nat, n > 0
    PROVE  /\ a \div n \in Nat
           /\ n * (a \div n) <= a
           /\ a < n * (a \div n) + n
  <1>1. a = n * (a \div n) + (a % n) /\ a % n \in 0..(n - 1)
    OBVIOUS
  <1>2. a \div n \in Int
    OBVIOUS
  <1> QED
    BY <1>1, <1>2

\* The quotient of a smaller number is below the number of slices.
LEMMA QuotientInRange ==
    ASSUME NEW a \in Nat, NEW b \in Nat, NEW n \in Nat, n > 0, a < b
    PROVE  (a \div n) + 1 \in 1..((b + n - 1) \div n)
  <1> DEFINE x == a \div n
             y == (b + n - 1) \div n
  <1>1. x \in Nat /\ n * x <= a
    BY Dividing
  <1>2. b + n - 1 \in Nat
    OBVIOUS
  <1>3. y \in Nat /\ b + n - 1 < n * y + n
    BY <1>2, Dividing
  <1> HIDE DEF x, y
  <1>4. n * x < n * y
    BY <1>1, <1>3
  <1>5. x < y
    <2> SUFFICES ASSUME y <= x PROVE FALSE
      BY <1>1, <1>3
    <2>1. n * y <= n * x
      BY <1>1, <1>3
    <2> QED
      BY <1>1, <1>3, <1>4, <2>1
  <1>6. x + 1 \in 1..y
    BY <1>1, <1>3, <1>5
  <1> QED
    BY <1>6 DEF x, y

\* The slices of a set of quads are apart, and make it up.
LEMMA SliceFacts ==
    ASSUME NEW Q \in SUBSET Quad, NEW n \in Nat, n > 0
    PROVE  /\ SliceCount(Q, n) \in Nat
           /\ \A i : Slice(Q, n, i) \subseteq Q
           /\ \A i, j \in Nat : Slice(Q, n, i) \cap Slice(Q, n, j) # {} => i = j
           /\ \A q \in Q : \E i \in 1..SliceCount(Q, n) : q \in Slice(Q, n, i)
  <1>1. IsFiniteSet(Q) /\ Cardinality(Q) \in Nat /\ Q \subseteq Nat
    BY FS_Subset, FS_CardinalityType, QuadAssumption
  <1>2. SliceCount(Q, n) \in Nat
    <2>1. Cardinality(Q) + n - 1 \in Nat
      BY <1>1
    <2> QED
      BY <2>1, Dividing DEF SliceCount
  <1>3. \A i : Slice(Q, n, i) \subseteq Q
    BY DEF Slice
  <1>4. ASSUME NEW q \in Q
        PROVE  LET below == Cardinality({r \in Q : r < q})
               IN  below \in Nat /\ below < Cardinality(Q)
    <2> DEFINE B == {r \in Q : r < q}
    <2>1. B \in SUBSET Q /\ q \in Q /\ q \notin B
      BY <1>1
    <2>2. IsFiniteSet(B) /\ Cardinality(B) <= Cardinality(Q) /\ Cardinality(B) # Cardinality(Q)
      BY <1>1, <2>1, FS_Subset
    <2>3. Cardinality(B) \in Nat
      BY <2>2, FS_CardinalityType
    <2> QED
      BY <1>1, <2>2, <2>3
  <1>5. \A i, j \in Nat : Slice(Q, n, i) \cap Slice(Q, n, j) # {} => i = j
    <2> SUFFICES ASSUME NEW i \in Nat, NEW j \in Nat, NEW q \in Q,
                        q \in Slice(Q, n, i), q \in Slice(Q, n, j)
                 PROVE  i = j
      BY <1>3
    <2> QED
      BY DEF Slice
  <1>6. ASSUME NEW q \in Q PROVE \E i \in 1..SliceCount(Q, n) : q \in Slice(Q, n, i)
    <2> DEFINE below == Cardinality({r \in Q : r < q})
               i == (below \div n) + 1
    <2>1. below \in Nat /\ below < Cardinality(Q)
      BY <1>4
    <2>2. i \in 1..SliceCount(Q, n)
      <3> HIDE DEF below
      <3> QED BY <1>1, <2>1, QuotientInRange DEF SliceCount
    <2>3. below \div n = i - 1
      <3> HIDE DEF below
      <3> QED BY <2>1, Dividing
    <2>4. q \in Slice(Q, n, i)
      BY <2>3 DEF Slice
    <2> QED
      BY <2>2, <2>4
  <1> QED
    BY <1>2, <1>3, <1>5, <1>6

\* Position k of the s-th group of L statements.
Position(L, s, k) == (s - 1) * L + k

\* The statement ops[k] about slice s.
About(Q, n, ops, s, k) == [op |-> ops[k], of |-> Slice(Q, n, s)]

\* Statement i of S is number k of the group of slice s.
Stands(S, i, Q, n, ops, s, k) ==
    /\ s \in 1..SliceCount(Q, n) /\ k \in 1..Len(ops)
    /\ i = Position(Len(ops), s, k)
    /\ S[i] = About(Q, n, ops, s, k)

Grouped(S, Q, n, ops) ==
    \A i \in DOMAIN S : \E s, k \in Nat : Stands(S, i, Q, n, ops, s, k)

\* PerSlice is a group of statements for each slice.
LEMMA PerSliceShape ==
    ASSUME NEW Q \in SUBSET Quad, NEW n \in Nat, n > 0,
           NEW ops, Len(ops) \in {1, 2, 3}
    PROVE  /\ DOMAIN PerSlice(Q, n, ops) = 1..(SliceCount(Q, n) * Len(ops))
           /\ SliceCount(Q, n) * Len(ops) \in Nat
           /\ Grouped(PerSlice(Q, n, ops), Q, n, ops)
           /\ \A s \in 1..SliceCount(Q, n), k \in 1..Len(ops) :
                /\ Position(Len(ops), s, k) \in DOMAIN PerSlice(Q, n, ops)
                /\ PerSlice(Q, n, ops)[Position(Len(ops), s, k)] = About(Q, n, ops, s, k)
  <1> DEFINE S == PerSlice(Q, n, ops)
             L == Len(ops)
             C == SliceCount(Q, n)
  <1>1. C \in Nat
    BY SliceFacts
  <1>2. S = [i \in 1..(C * L) |->
                About(Q, n, ops, ((i - 1) \div L) + 1, ((i - 1) % L) + 1)]
    BY DEF PerSlice, About
  <1>3. /\ C * L \in Nat
        /\ \A i \in 1..(C * L) : /\ ((i - 1) \div L) + 1 \in 1..C
                                 /\ ((i - 1) % L) + 1 \in 1..L
                                 /\ i = Position(L, ((i - 1) \div L) + 1, ((i - 1) % L) + 1)
        /\ \A s \in 1..C, k \in 1..L :
              /\ Position(L, s, k) \in 1..(C * L)
              /\ ((Position(L, s, k) - 1) \div L) + 1 = s
              /\ ((Position(L, s, k) - 1) % L) + 1 = k
    <2> HIDE DEF C, S
    <2>1. CASE L = 1
      BY <1>1, <2>1 DEF Position
    <2>2. CASE L = 2
      BY <1>1, <2>2 DEF Position
    <2>3. CASE L = 3
      BY <1>1, <2>3 DEF Position
    <2> QED
      BY <2>1, <2>2, <2>3
  <1> HIDE DEF C, L, S
  <1>4. DOMAIN S = 1..(C * L)
    BY <1>2
  <1>5. ASSUME NEW i \in DOMAIN S
        PROVE  \E s, k \in Nat : Stands(S, i, Q, n, ops, s, k)
    <2> DEFINE s == ((i - 1) \div L) + 1
               k == ((i - 1) % L) + 1
    <2>1. s \in 1..C /\ k \in 1..L /\ i = Position(L, s, k)
      BY <1>3, <1>4
    <2>2. S[i] = About(Q, n, ops, s, k)
      BY <1>2, <1>4
    <2>3. s \in Nat /\ k \in Nat
      BY <2>1
    <2> HIDE DEF s, k
    <2>4. Stands(S, i, Q, n, ops, s, k)
      BY <2>1, <2>2 DEF Stands, C, L
    <2> QED
      BY <2>3, <2>4
  <1>6. ASSUME NEW s \in 1..C, NEW k \in 1..L
        PROVE  Position(L, s, k) \in DOMAIN S /\ S[Position(L, s, k)] = About(Q, n, ops, s, k)
    BY <1>2, <1>3, <1>4
  <1> QED
    BY <1>3, <1>4, <1>5, <1>6 DEF C, L, S, Grouped

-----------------------------------------------------------------------------
\* Sequences of statements.

\* Statement i of S names q under op.
Has(S, i, op, q) == i \in DOMAIN S /\ S[i].op = op /\ q \in S[i].of

LEMMA NamedMeans ==
    ASSUME NEW S, NEW op, NEW q
    PROVE  q \in Named(S, op) <=> \E i \in DOMAIN S : Has(S, i, op, q)
  BY DEF Named, Has

\* What deletes the chunks of the quads in Q, and maybe the quads.
Sweeping(S, Q) ==
    /\ S \in Seq(Statement)
    /\ \A i \in DOMAIN S : S[i].op \in {"vec-", "chunks-", "quads-"} /\ S[i].of \subseteq Q
    /\ \A i \in DOMAIN S, q \in Q :
          Has(S, i, "quads-", q) => i > 1 /\ Has(S, i - 1, "chunks-", q)
    /\ Vectors => \A i \in DOMAIN S, q \in Q :
          Has(S, i, "chunks-", q) => i > 1 /\ Has(S, i - 1, "vec-", q)
    /\ \A i, j \in DOMAIN S, q \in Q :
          Has(S, i, "chunks-", q) /\ Has(S, j, "chunks-", q) => i = j

\* A sequence of statements about slices is one of statements.
LEMMA PerSliceIsSeq ==
    ASSUME NEW Q \in SUBSET Quad, NEW n \in Nat, n > 0,
           NEW ops, Len(ops) \in {1, 2, 3},
           \A k \in 1..Len(ops) : ops[k] \in {"vec-", "chunks-", "quads-", "quads+"}
    PROVE  PerSlice(Q, n, ops) \in Seq(Statement)
  <1> DEFINE S == PerSlice(Q, n, ops)
             N == SliceCount(Q, n) * Len(ops)
  <1>0. /\ DOMAIN S = 1..N /\ N \in Nat
        /\ Grouped(S, Q, n, ops)
    BY PerSliceShape
  <1>1. DOMAIN S = 1..N /\ N \in Nat
    BY <1>0
  <1>2. \A i \in DOMAIN S : S[i] \in Statement
    <2> SUFFICES ASSUME NEW i \in DOMAIN S PROVE S[i] \in Statement
      OBVIOUS
    <2>1. PICK s \in Nat, k \in Nat : Stands(S, i, Q, n, ops, s, k)
      BY <1>0 DEF Grouped
    <2>2. Slice(Q, n, s) \in SUBSET Quad
      BY SliceFacts
    <2> QED
      BY <2>1, <2>2 DEF Statement, Stands, About
  <1>3. S = [i \in DOMAIN S |-> S[i]]
    BY DEF PerSlice
  <1> HIDE DEF S, N
  <1>4. S \in [1..N -> Statement]
    BY <1>1, <1>2, <1>3
  <1> QED
    BY <1>1, <1>4, SeqDef DEF S

\* The operations of a deletion, in their order.
LEMMA SweepOpsAre ==
    /\ Vectors => /\ Len(SweepOps) = 2 /\ SweepOps[1] = "vec-" /\ SweepOps[2] = "chunks-"
    /\ ~Vectors => Len(SweepOps) = 1 /\ SweepOps[1] = "chunks-"
  BY DEF SweepOps

LEMMA DeletionOpsAre ==
    LET ops == Append(SweepOps, "quads-")
    IN  /\ Vectors => /\ Len(ops) = 3
                      /\ ops[1] = "vec-" /\ ops[2] = "chunks-" /\ ops[3] = "quads-"
        /\ ~Vectors => Len(ops) = 2 /\ ops[1] = "chunks-" /\ ops[2] = "quads-"
  BY DEF SweepOps

\* The statement before number k of a group is number k - 1 of it.
LEMMA StandsBefore ==
    ASSUME NEW Q \in SUBSET Quad, NEW n \in Nat, n > 0,
           NEW ops, Len(ops) \in {1, 2, 3},
           NEW i \in DOMAIN PerSlice(Q, n, ops), NEW s \in Nat, NEW k \in Nat,
           Stands(PerSlice(Q, n, ops), i, Q, n, ops, s, k), k > 1
    PROVE  /\ i > 1 /\ i - 1 \in DOMAIN PerSlice(Q, n, ops)
           /\ PerSlice(Q, n, ops)[i - 1] = About(Q, n, ops, s, k - 1)
  <1> DEFINE S == PerSlice(Q, n, ops)
             L == Len(ops)
  <1>1. s \in 1..SliceCount(Q, n) /\ k \in 1..L /\ k - 1 \in 1..L /\ i = (s - 1) * L + k
    BY DEF Stands, Position
  <1>2. i - 1 = Position(L, s, k - 1)
    BY <1>1 DEF Position
  <1>3. Position(L, s, k - 1) \in DOMAIN S /\ S[Position(L, s, k - 1)] = About(Q, n, ops, s, k - 1)
    BY <1>1, PerSliceShape
  <1>4. DOMAIN S = 1..(SliceCount(Q, n) * L) /\ SliceCount(Q, n) * L \in Nat
    BY PerSliceShape
  <1>5. i > 1
    <2>1. i \in Nat /\ i - 1 \in 1..(SliceCount(Q, n) * L)
      BY <1>2, <1>3, <1>4
    <2> QED
      BY <2>1
  <1> QED
    BY <1>2, <1>3, <1>5

\* A deletion of chunks, or of chunks and quads, is one whatever its slices.
LEMMA PerSliceSweeps ==
    ASSUME NEW Q \in SUBSET Quad, NEW ops,
           ops \in {SweepOps, Append(SweepOps, "quads-")}
    PROVE  Sweeping(PerSlice(Q, LookupSize, ops), Q)
  <1> DEFINE n == LookupSize
             S == PerSlice(Q, n, ops)
  <1>1. n \in Nat /\ n > 0
    BY SizeAssumption
  <1>2. /\ Len(ops) \in {1, 2, 3}
        /\ \A k \in 1..Len(ops) :
              /\ ops[k] \in {"vec-", "chunks-", "quads-"}
              /\ ops[k] = "quads-" => k > 1 /\ ops[k - 1] = "chunks-"
              /\ Vectors /\ ops[k] = "chunks-" => k > 1 /\ ops[k - 1] = "vec-"
        /\ \A k, l \in 1..Len(ops) : ops[k] = "chunks-" /\ ops[l] = "chunks-" => k = l
    <2>1. Vectors \/ ~Vectors
      BY OptionAssumption
    <2>2. CASE Vectors /\ ops = SweepOps
      <3>1. Len(ops) = 2 /\ ops[1] = "vec-" /\ ops[2] = "chunks-"
        BY <2>2, SweepOpsAre
      <3> QED
        BY <3>1
    <2>3. CASE ~Vectors /\ ops = SweepOps
      BY <2>3, SweepOpsAre
    <2>4. CASE Vectors /\ ops = Append(SweepOps, "quads-")
      BY <2>4, DeletionOpsAre
    <2>5. CASE ~Vectors /\ ops = Append(SweepOps, "quads-")
      BY <2>5, DeletionOpsAre
    <2> QED
      BY <2>1, <2>2, <2>3, <2>4, <2>5
  <1> HIDE DEF n
  <1>3. S \in Seq(Statement)
    BY <1>1, <1>2, PerSliceIsSeq
  <1>4. Grouped(S, Q, n, ops)
    BY <1>1, <1>2, PerSliceShape
  <1>5. ASSUME NEW i \in DOMAIN S
        PROVE  S[i].op \in {"vec-", "chunks-", "quads-"} /\ S[i].of \subseteq Q
    <2>1. PICK s \in Nat, k \in Nat : Stands(S, i, Q, n, ops, s, k)
      BY <1>4 DEF Grouped
    <2>2. Slice(Q, n, s) \subseteq Q
      BY <1>1, SliceFacts
    <2> QED
      BY <1>2, <2>1, <2>2 DEF Stands, About
  <1>6. ASSUME NEW i \in DOMAIN S, NEW q \in Q, NEW op, NEW before,
               Has(S, i, op, q),
               \A k \in 1..Len(ops) : ops[k] = op => k > 1 /\ ops[k - 1] = before
        PROVE  i > 1 /\ Has(S, i - 1, before, q)
    <2>1. PICK s \in Nat, k \in Nat : Stands(S, i, Q, n, ops, s, k)
      BY <1>4 DEF Grouped
    <2>2. k \in 1..Len(ops) /\ ops[k] = op /\ q \in Slice(Q, n, s)
      BY <1>6, <2>1 DEF Stands, About, Has
    <2>3. k > 1 /\ ops[k - 1] = before
      BY <1>6, <2>2
    <2>4. i > 1 /\ i - 1 \in DOMAIN S /\ S[i - 1] = About(Q, n, ops, s, k - 1)
      BY <1>1, <1>2, <2>1, <2>3, StandsBefore
    <2> QED
      BY <2>2, <2>3, <2>4 DEF Has, About
  <1>7. ASSUME NEW i \in DOMAIN S, NEW j \in DOMAIN S, NEW q \in Q,
               Has(S, i, "chunks-", q), Has(S, j, "chunks-", q)
        PROVE  i = j
    <2>1. PICK s \in Nat, k \in Nat : Stands(S, i, Q, n, ops, s, k)
      BY <1>4 DEF Grouped
    <2>2. PICK r \in Nat, l \in Nat : Stands(S, j, Q, n, ops, r, l)
      BY <1>4 DEF Grouped
    <2>3. /\ q \in Slice(Q, n, s) /\ ops[k] = "chunks-" /\ k \in 1..Len(ops)
          /\ q \in Slice(Q, n, r) /\ ops[l] = "chunks-" /\ l \in 1..Len(ops)
      BY <1>7, <2>1, <2>2 DEF Stands, About, Has
    <2>4. s = r
      <3>1. Slice(Q, n, s) \cap Slice(Q, n, r) # {}
        BY <2>3
      <3> QED
        BY <3>1, <1>1, SliceFacts
    <2>5. k = l
      BY <2>3, <1>2
    <2> QED
      BY <2>1, <2>2, <2>4, <2>5 DEF Stands
  <1> HIDE DEF S
  <1>8. \A i \in DOMAIN S, q \in Q :
           Has(S, i, "quads-", q) => i > 1 /\ Has(S, i - 1, "chunks-", q)
    BY <1>2, <1>6
  <1>9. Vectors => \A i \in DOMAIN S, q \in Q :
           Has(S, i, "chunks-", q) => i > 1 /\ Has(S, i - 1, "vec-", q)
    BY <1>2, <1>6
  <1> QED
    BY <1>3, <1>5, <1>7, <1>8, <1>9 DEF Sweeping, S, n

LEMMA DeletionsSweep ==
    ASSUME NEW Q \in SUBSET Quad
    PROVE  /\ Sweeping(Deletions(Q), Q)
           /\ Sweeping(ChunkDeletions(Q), Q)
           /\ \A i \in DOMAIN ChunkDeletions(Q) : ChunkDeletions(Q)[i].op # "quads-"
  <1>1. Sweeping(Deletions(Q), Q) /\ Sweeping(ChunkDeletions(Q), Q)
    BY PerSliceSweeps DEF Deletions, ChunkDeletions
  <1>2. \A i \in DOMAIN ChunkDeletions(Q) : ChunkDeletions(Q)[i].op # "quads-"
    <2> DEFINE S == ChunkDeletions(Q)
    <2> SUFFICES ASSUME NEW i \in DOMAIN S PROVE S[i].op # "quads-"
      OBVIOUS
    <2>1. /\ Len(SweepOps) \in {1, 2, 3}
          /\ \A k \in 1..Len(SweepOps) : SweepOps[k] # "quads-"
      <3>1. CASE Vectors
        <4>1. Len(SweepOps) = 2 /\ SweepOps[1] = "vec-" /\ SweepOps[2] = "chunks-"
          BY <3>1, SweepOpsAre
        <4> QED
          BY <4>1
      <3>2. CASE ~Vectors
        BY <3>2, SweepOpsAre
      <3> QED
        BY <3>1, <3>2, OptionAssumption
    <2>2. Grouped(S, Q, LookupSize, SweepOps)
      BY <2>1, PerSliceShape, SizeAssumption DEF ChunkDeletions
    <2>3. PICK s \in Nat, k \in Nat : Stands(S, i, Q, LookupSize, SweepOps, s, k)
      BY <2>2 DEF Grouped
    <2> QED
      BY <2>1, <2>3 DEF Stands, About
  <1> QED
    BY <1>1, <1>2

\* The rows of new quads, after their deletions.
NewRows(Q) == PerSlice(Q, InsertSize, <<"quads+">>)

LEMMA NewRowsAre ==
    ASSUME NEW Q \in SUBSET Quad
    PROVE  /\ NewRows(Q) \in Seq(Statement)
           /\ \A i \in DOMAIN NewRows(Q) :
                 NewRows(Q)[i].op = "quads+" /\ NewRows(Q)[i].of \subseteq Q
           /\ \A q \in Q : \E i \in DOMAIN NewRows(Q) : Has(NewRows(Q), i, "quads+", q)
  <1> DEFINE n == InsertSize
             ops == <<"quads+">>
             S == NewRows(Q)
  <1>1. n \in Nat /\ n > 0
    BY SizeAssumption
  <1>2. Len(ops) = 1 /\ ops[1] = "quads+"
    OBVIOUS
  <1> HIDE DEF n, ops
  <1>3. S = PerSlice(Q, n, ops)
    BY DEF NewRows, n, ops
  <1> HIDE DEF S
  <1>4. S \in Seq(Statement)
    BY <1>1, <1>2, <1>3, PerSliceIsSeq
  <1>5. Grouped(S, Q, n, ops)
    BY <1>1, <1>2, <1>3, PerSliceShape
  <1>6. ASSUME NEW i \in DOMAIN S PROVE S[i].op = "quads+" /\ S[i].of \subseteq Q
    <2>1. PICK s \in Nat, k \in Nat : Stands(S, i, Q, n, ops, s, k)
      BY <1>5 DEF Grouped
    <2>2. Slice(Q, n, s) \subseteq Q
      BY <1>1, SliceFacts
    <2>3. k = 1
      BY <1>2, <2>1 DEF Stands
    <2> QED
      BY <1>2, <2>1, <2>2, <2>3 DEF Stands, About
  <1>7. ASSUME NEW q \in Q PROVE \E i \in DOMAIN S : Has(S, i, "quads+", q)
    <2>1. PICK s \in 1..SliceCount(Q, n) : q \in Slice(Q, n, s)
      BY <1>1, SliceFacts
    <2>2. /\ Position(Len(ops), s, 1) \in DOMAIN S
          /\ S[Position(Len(ops), s, 1)] = About(Q, n, ops, s, 1)
      <3>1. 1 \in 1..Len(ops) /\ Len(ops) \in {1, 2, 3}
        BY <1>2
      <3> QED
        BY <1>1, <1>3, <3>1, PerSliceShape
    <2>3. Has(S, Position(Len(ops), s, 1), "quads+", q)
      BY <1>2, <2>1, <2>2 DEF Has, About
    <2> QED
      BY <2>2, <2>3
  <1> QED
    BY <1>4, <1>6, <1>7 DEF S

-----------------------------------------------------------------------------
\* Types.

\* The rowid a new chunk gets is one nothing refers to.
LEMMA FreshIdIsFresh ==
    ASSUME IsFiniteSet(UsedIds)
    PROVE  FreshId \in Nat /\ FreshId \notin UsedIds
  <1> DEFINE n == Cardinality(UsedIds)
             Free == 1..(n + 1) \ UsedIds
  <1>1. n \in Nat
    BY FS_CardinalityType
  <1>2. Free # {}
    <2> SUFFICES ASSUME 1..(n + 1) \subseteq UsedIds PROVE FALSE
      OBVIOUS
    <2>1. Cardinality(1..(n + 1)) <= n
      BY FS_Subset
    <2>2. Cardinality(1..(n + 1)) = n + 1
      <3> HIDE DEF n
      <3> QED BY <1>1, FS_Interval
    <2> QED
      BY <1>1, <2>1, <2>2
  <1>3. Free \in SUBSET Nat
    OBVIOUS
  <1>4. \E k \in Free : \A j \in Free : k <= j
    <2> HIDE DEF Free
    <2> QED BY <1>2, <1>3, LeastExists
  <1>5. FreshId = CHOOSE k \in Free : \A j \in Free : k <= j
    BY DEF FreshId, Min
  <1>6. FreshId \in Free
    <2> HIDE DEF Free
    <2> QED BY <1>4, <1>5
  <1> QED
    BY <1>6

\* What statements name.
LEMMA NamedTypes ==
    ASSUME NEW S \in Seq(Statement)
    PROVE  /\ Named(S, "quads+") \subseteq Quad
           /\ Named(S, "vec+") \subseteq Nat
  <1>1. \A i \in DOMAIN S : S[i] \in Statement
    BY LenProperties, ElementOfSeq
  <1>2. \A i \in DOMAIN S : /\ S[i].op = "quads+" => S[i].of \subseteq Quad
                            /\ S[i].op = "vec+" => S[i].of \subseteq Nat
    BY <1>1 DEF Statement
  <1> QED
    BY <1>2 DEF Named

LEMMA LandTypes ==
    ASSUME TypeOK, NEW S \in Seq(Statement), Land(S)
    PROVE  /\ quads' \subseteq Quad
           /\ chunks' \subseteq [id : Nat, quad : Quad, part : Nat]
           /\ vec' \subseteq Nat
           /\ chunks' \subseteq chunks
           /\ vec' \subseteq vec \cup Named(S, "vec+")
  BY NamedTypes DEF TypeOK, Land

LEMMA RestLength ==
    ASSUME NEW a \in Nat, NEW b \in Nat, a >= b
    PROVE  (IF b + 1 <= a THEN a - (b + 1) + 1 ELSE 0) = a - b
  OBVIOUS

\* A batch executor's parts are sequences of statements.
LEMMA Parting ==
    ASSUME NEW S \in Seq(Statement), Len(S) >= Threshold
    PROVE  /\ SubSeq(S, 1, Threshold) \in Seq(Statement)
           /\ SubSeq(S, Threshold + 1, Len(S)) \in Seq(Statement)
           /\ DOMAIN SubSeq(S, 1, Threshold) = 1..Threshold
           /\ DOMAIN SubSeq(S, Threshold + 1, Len(S)) = 1..(Len(S) - Threshold)
           /\ \A i \in 1..Threshold : SubSeq(S, 1, Threshold)[i] = S[i]
           /\ \A i \in 1..(Len(S) - Threshold) :
                 SubSeq(S, Threshold + 1, Len(S))[i] = S[Threshold + i]
           /\ DOMAIN S = 1..Len(S) /\ Len(S) \in Nat /\ Threshold \in Nat
  <1>1. Threshold \in Nat /\ Len(S) \in Nat /\ DOMAIN S = 1..Len(S)
    BY SizeAssumption, LenProperties
  <1>2. \A i \in 1..Len(S) : S[i] \in Statement
    BY ElementOfSeq
  <1> DEFINE P == SubSeq(S, 1, Threshold)
             R == SubSeq(S, Threshold + 1, Len(S))
  <1>3. /\ P \in Seq(Statement)
        /\ Len(P) = Threshold
        /\ \A i \in 1..Threshold : P[i] = S[i]
    <2>1. \A i \in 1..Threshold : S[i] \in Statement
      BY <1>1, <1>2
    <2>2. /\ P \in Seq(Statement)
          /\ Len(P) = IF 1 <= Threshold THEN Threshold - 1 + 1 ELSE 0
          /\ \A i \in 1..(Threshold - 1 + 1) : P[i] = S[1 + i - 1]
      BY <1>1, <2>1, SubSeqProperties
    <2> QED
      BY <1>1, <2>2
  <1>4. /\ R \in Seq(Statement)
        /\ Len(R) = Len(S) - Threshold
        /\ \A i \in 1..(Len(S) - Threshold) : R[i] = S[Threshold + i]
    <2>1. \A i \in (Threshold + 1)..Len(S) : S[i] \in Statement
      BY <1>1, <1>2
    <2>2. /\ R \in Seq(Statement)
          /\ Len(R) = IF Threshold + 1 <= Len(S) THEN Len(S) - (Threshold + 1) + 1 ELSE 0
          /\ \A i \in 1..(Len(S) - (Threshold + 1) + 1) : R[i] = S[(Threshold + 1) + i - 1]
      BY <1>1, <2>1, SubSeqProperties
    <2> HIDE DEF R
    <2>3. Len(R) = Len(S) - Threshold
      BY <1>1, <2>2, RestLength
    <2>4. ASSUME NEW i \in 1..(Len(S) - Threshold) PROVE R[i] = S[Threshold + i]
      <3>1. i \in 1..(Len(S) - (Threshold + 1) + 1) /\ (Threshold + 1) + i - 1 = Threshold + i
        BY <1>1
      <3> QED
        BY <2>2, <3>1
    <2> QED
      BY <2>2, <2>3, <2>4
  <1> HIDE DEF P, R
  <1>5. DOMAIN P = 1..Len(P) /\ DOMAIN R = 1..Len(R)
    BY <1>3, <1>4, LenProperties
  <1> QED
    BY <1>1, <1>3, <1>4, <1>5 DEF P, R

LEMMA EmptyIsSeq == <<>> \in Seq(Statement) /\ DOMAIN <<>> = {} /\ Len(<<>>) = 0
  BY EmptySeq

LEMMA InsertionsAre ==
    ASSUME NEW Q \in SUBSET Quad
    PROVE  /\ Insertions(Q) = Deletions(Q) \o NewRows(Q)
           /\ Insertions(Q) \in Seq(Statement)
           /\ \A i \in DOMAIN Insertions(Q) : Insertions(Q)[i].op # "vec+"
  <1> DEFINE D == Deletions(Q)
             I == NewRows(Q)
  <1>1. Insertions(Q) = D \o I
    BY DEF Insertions, NewRows
  <1>2. D \in Seq(Statement) /\ \A i \in DOMAIN D : D[i].op # "vec+"
    BY DeletionsSweep DEF Sweeping
  <1>3. I \in Seq(Statement) /\ \A i \in DOMAIN I : I[i].op # "vec+"
    BY NewRowsAre
  <1> HIDE DEF D, I
  <1>4. /\ D \o I \in Seq(Statement)
        /\ Len(D \o I) = Len(D) + Len(I)
        /\ \A i \in 1..(Len(D) + Len(I)) : (D \o I)[i] = IF i <= Len(D) THEN D[i] ELSE I[i - Len(D)]
    BY <1>2, <1>3, ConcatProperties
  <1>5. DOMAIN D = 1..Len(D) /\ DOMAIN I = 1..Len(I) /\ Len(D) \in Nat /\ Len(I) \in Nat
    BY <1>2, <1>3, LenProperties
  <1>6. DOMAIN (D \o I) = 1..(Len(D) + Len(I))
    BY <1>4, LenProperties
  <1>7. ASSUME NEW i \in 1..(Len(D) + Len(I)) PROVE (D \o I)[i].op # "vec+"
    <2>1. CASE i <= Len(D)
      BY <1>2, <1>4, <1>5, <2>1
    <2>2. CASE ~(i <= Len(D))
      <3>1. i - Len(D) \in 1..Len(I)
        BY <1>5, <2>2
      <3> QED
        BY <1>3, <1>4, <1>5, <2>2, <3>1
    <2> QED
      BY <2>1, <2>2
  <1> QED
    BY <1>1, <1>4, <1>6, <1>7 DEF D, I

\* What task t stages, and what it puts into the tables, refers to no rowid but
\* those referred to before and the fresh one.
Modest ==
    /\ Ids(chunks)' \subseteq Ids(chunks) \cup {FreshId}
    /\ vec' \subseteq UsedIds
    /\ held' \subseteq UsedIds
    /\ \A t \in Task : Named(staged'[t], "vec+") \subseteq UsedIds \cup {FreshId}

LEMMA ModestStep ==
    ASSUME IsFiniteSet(UsedIds), Modest
    PROVE  IsFiniteSet(UsedIds)'
  <1>1. UsedIds' \subseteq UsedIds \cup {FreshId}
    <2>1. UsedIds' = Ids(chunks)' \cup vec' \cup held'
                     \cup UNION {Named(staged'[t], "vec+") : t \in Task}
      BY DEF UsedIds
    <2>2. Ids(chunks) \subseteq UsedIds
      BY DEF UsedIds
    <2> QED
      BY <2>1, <2>2 DEF Modest
  <1>2. IsFiniteSet(UsedIds \cup {FreshId})
    BY FS_AddElement
  <1> QED
    BY <1>1, <1>2, FS_Subset

\* What was referred to still may be, after a step that adds no chunk, no vector
\* and no "vec+".
LEMMA StagedIsUsed ==
    ASSUME NEW t \in Task
    PROVE  Named(staged[t], "vec+") \subseteq UsedIds
  BY DEF UsedIds

LEMMA NoneNamed ==
    ASSUME NEW S, NEW op, \A i \in DOMAIN S : S[i].op # op
    PROVE  Named(S, op) = {}
  BY DEF Named

TypeInv == TypeOK /\ IsFiniteSet(UsedIds)

\* All but the tables and what is staged.
LocalTypes ==
    /\ mode \in Mode
    /\ pc \in [Task -> Place]
    /\ patch \in [Task -> PatchType]
    /\ look \in [Task -> SUBSET Quad] /\ known \in [Task -> SUBSET Quad]
    /\ batch \in [Task -> SUBSET Quad] /\ start \in [Task -> SUBSET Quad]
    /\ todo \in [Task -> SUBSET (Quad \X Nat)]
    /\ \A t \in Task : \A c \in todo[t] : c[2] \in 1..Parts[c[1]]
    /\ scan \in [Task -> [on : BOOLEAN, anchor : Nat, last : BOOLEAN]]
    /\ landed \in [Task -> BOOLEAN] /\ index \in IndexState

LEMMA EndTypes ==
    ASSUME TypeOK, NEW t \in Task, End(t), UNCHANGED mode, index' \in IndexState
    PROVE  LocalTypes'
  <1>1. NoPatch \in PatchType /\ NoScan \in [on : BOOLEAN, anchor : Nat, last : BOOLEAN]
    BY DEF NoPatch, PatchType, NoScan
  <1>2. pc' \in [Task -> Place] /\ patch' \in [Task -> PatchType]
    BY <1>1 DEF TypeOK, End, Place
  <1>3. /\ look' \in [Task -> SUBSET Quad] /\ known' \in [Task -> SUBSET Quad]
        /\ batch' \in [Task -> SUBSET Quad] /\ start' \in [Task -> SUBSET Quad]
    BY DEF TypeOK, End
  <1>4. todo' \in [Task -> SUBSET (Quad \X Nat)]
    BY DEF TypeOK, End
  <1>5. \A u \in Task : \A c \in todo'[u] : c[2] \in 1..Parts[c[1]]
    <2> SUFFICES ASSUME NEW u \in Task, NEW c \in todo'[u] PROVE c[2] \in 1..Parts[c[1]]
      OBVIOUS
    <2>1. c \in todo[u]
      BY DEF TypeOK, End
    <2> QED
      BY <2>1 DEF TypeOK
  <1>6. /\ scan' \in [Task -> [on : BOOLEAN, anchor : Nat, last : BOOLEAN]]
        /\ landed' \in [Task -> BOOLEAN]
    BY <1>1 DEF TypeOK, End
  <1> QED
    BY <1>2, <1>3, <1>4, <1>5, <1>6 DEF TypeOK, LocalTypes

\* The tables and what is staged.
TableTypes ==
    /\ quads \subseteq Quad
    /\ chunks \subseteq [id : Nat, quad : Quad, part : Nat]
    /\ vec \subseteq Nat
    /\ staged \in [Task -> Seq(Statement)]

LEMMA TypeOKParts == TypeOK <=> TableTypes /\ LocalTypes /\ held \subseteq Nat /\ apart \in BOOLEAN
  BY DEF TypeOK, TableTypes, LocalTypes

\* What an action that stages S for t, and lands or keeps, has to show.
LEMMA Restages ==
    ASSUME TypeOK, NEW t \in Task, NEW S \in Seq(Statement),
           staged' = [staged EXCEPT ![t] = S],
           Named(S, "vec+") \subseteq UsedIds \cup {FreshId}
    PROVE  /\ staged' \in [Task -> Seq(Statement)]
           /\ \A u \in Task : Named(staged'[u], "vec+") \subseteq UsedIds \cup {FreshId}
  <1>1. staged' \in [Task -> Seq(Statement)]
    BY DEF TypeOK
  <1>2. ASSUME NEW u \in Task
        PROVE  Named(staged'[u], "vec+") \subseteq UsedIds \cup {FreshId}
    <2>1. CASE u = t
      BY <2>1 DEF TypeOK
    <2>2. CASE u # t
      <3>1. staged'[u] = staged[u]
        BY <2>2 DEF TypeOK
      <3> QED
        BY <3>1, StagedIsUsed
    <2> QED
      BY <2>1, <2>2
  <1> QED
    BY <1>1, <1>2

LEMMA LandIsModest ==
    ASSUME TypeOK, NEW S \in Seq(Statement), Land(S), Named(S, "vec+") \subseteq UsedIds
    PROVE  /\ quads' \subseteq Quad
           /\ chunks' \subseteq [id : Nat, quad : Quad, part : Nat]
           /\ vec' \subseteq Nat
           /\ Ids(chunks)' \subseteq Ids(chunks) \cup {FreshId}
           /\ vec' \subseteq UsedIds
  <1>1. chunks' \subseteq chunks /\ vec' \subseteq vec \cup Named(S, "vec+")
    BY LandTypes
  <1>2. Ids(chunks)' \subseteq Ids(chunks)
    BY <1>1 DEF Ids
  <1>3. vec \subseteq UsedIds
    BY DEF UsedIds
  <1> QED
    BY <1>1, <1>2, <1>3, LandTypes

LEMMA KeepingIsModest ==
    ASSUME TypeOK, UNCHANGED database
    PROVE  /\ quads' \subseteq Quad
           /\ chunks' \subseteq [id : Nat, quad : Quad, part : Nat]
           /\ vec' \subseteq Nat
           /\ Ids(chunks)' \subseteq Ids(chunks) \cup {FreshId}
           /\ vec' \subseteq UsedIds
  BY DEF TypeOK, database, Ids, UsedIds

\* What an action makes of the types.
Typed == LocalTypes' /\ TableTypes' /\ (held' \subseteq UsedIds => Modest)

LEMMA TypedByParts ==
    ASSUME LocalTypes',
           quads' \subseteq Quad,
           chunks' \subseteq [id : Nat, quad : Quad, part : Nat],
           vec' \subseteq Nat,
           Ids(chunks)' \subseteq Ids(chunks) \cup {FreshId},
           vec' \subseteq UsedIds,
           staged' \in [Task -> Seq(Statement)],
           \A u \in Task : Named(staged'[u], "vec+") \subseteq UsedIds \cup {FreshId}
    PROVE  Typed
  BY DEF Typed, TableTypes, Modest

\* A call that ends has nothing staged any more.
LEMMA EndStages ==
    ASSUME TypeOK, NEW t \in Task, End(t)
    PROVE  /\ staged' \in [Task -> Seq(Statement)]
           /\ \A u \in Task : Named(staged'[u], "vec+") \subseteq UsedIds \cup {FreshId}
  <1>1. Named(<<>>, "vec+") = {}
    BY EmptyIsSeq, NoneNamed
  <1>2. staged' = [staged EXCEPT ![t] = <<>>]
    BY DEF End
  <1> QED
    BY <1>1, <1>2, EmptyIsSeq, Restages

LEMMA DeletionsStaged ==
    ASSUME NEW Q \in SUBSET Quad
    PROVE  /\ Deletions(Q) \in Seq(Statement) /\ Named(Deletions(Q), "vec+") = {}
           /\ ChunkDeletions(Q) \in Seq(Statement) /\ Named(ChunkDeletions(Q), "vec+") = {}
  <1>1. Sweeping(Deletions(Q), Q) /\ Sweeping(ChunkDeletions(Q), Q)
    BY DeletionsSweep
  <1> QED
    BY <1>1, NoneNamed DEF Sweeping

\* What the actions that leave the tables alone and end no call leave typed.
LEMMA CallTyped ==
    ASSUME TypeOK, NEW t \in Task,
           (\E p \in Patch[t] : CallCommit(t, p)) \/ (t \in Reindexer /\ CallReindex(t))
    PROVE  Typed
  <1>1. ASSUME NEW p \in Patch[t], CallCommit(t, p) PROVE Typed
    <2> DEFINE q == [p EXCEPT !.ins = @ \cap Scope, !.del = @ \cap Scope]
    <2>1. p \in PatchType /\ q \in PatchType
      <3>1. Patch[t] \in SUBSET PatchType
        BY PatchAssumption
      <3>2. p \in PatchType
        BY <3>1
      <3>3. p.ins \cap Scope \in SUBSET Quad /\ p.del \cap Scope \in SUBSET Quad
        BY ScopeAssumption
      <3> QED
        BY <3>2, <3>3 DEF PatchType
    <2>2. q.ins \in SUBSET Quad /\ q.del \in SUBSET Quad
      BY <2>1 DEF PatchType
    <2> HIDE DEF q
    <2>3. /\ pc' = [pc EXCEPT ![t] = IF p.replace THEN "wipe" ELSE "lookup"]
          /\ patch' = [patch EXCEPT ![t] = q]
          /\ look' = [look EXCEPT ![t] = q.ins]
          /\ staged' = [staged EXCEPT ![t] = IF p.replace THEN <<>> ELSE Deletions(q.del)]
          /\ start' = [start EXCEPT ![t] = quads]
          /\ index' = [is |-> IF index.is = "doubtful" THEN "doubtful" ELSE "kept",
                       alone |-> {}]
          /\ UNCHANGED <<database, mode, known, batch, todo, scan, landed>>
      BY <1>1 DEF CallCommit, Go, q
    <2>4. LocalTypes'
      BY <2>1, <2>2, <2>3 DEF TypeOK, LocalTypes, Place, IndexState
    <2>5. /\ staged' \in [Task -> Seq(Statement)]
          /\ \A u \in Task : Named(staged'[u], "vec+") \subseteq UsedIds \cup {FreshId}
      <3> DEFINE S == IF p.replace THEN <<>> ELSE Deletions(q.del)
      <3>1. S \in Seq(Statement) /\ Named(S, "vec+") = {}
        BY <2>2, DeletionsStaged, EmptyIsSeq, NoneNamed
      <3>2. staged' = [staged EXCEPT ![t] = S]
        BY <2>3
      <3> HIDE DEF S
      <3> QED
        BY <3>1, <3>2, Restages
    <2>6. UNCHANGED database
      BY <2>3
    <2> QED
      BY <2>4, <2>5, <2>6, KeepingIsModest, TypedByParts
  <1>2. ASSUME CallReindex(t) PROVE Typed
    <2>1. /\ pc' = [pc EXCEPT ![t] = "page"]
          /\ scan' = [scan EXCEPT ![t] = [NoScan EXCEPT !.on = TRUE]]
          /\ index' = [index EXCEPT !.alone = IF \A u \in Task : pc[u] = "idle" THEN {t} ELSE {}]
          /\ UNCHANGED <<mode, patch, look, known, batch, todo, staged, start, landed>>
          /\ UNCHANGED database
      BY <1>2 DEF CallReindex, Go
    <2>2. [NoScan EXCEPT !.on = TRUE] \in [on : BOOLEAN, anchor : Nat, last : BOOLEAN]
      BY DEF NoScan
    <2>3. LocalTypes'
      BY <2>1, <2>2 DEF TypeOK, LocalTypes, Place, IndexState
    <2>4. /\ staged' \in [Task -> Seq(Statement)]
          /\ \A u \in Task : Named(staged'[u], "vec+") \subseteq UsedIds \cup {FreshId}
      BY <2>1, StagedIsUsed DEF TypeOK
    <2> QED
      BY <2>1, <2>3, <2>4, KeepingIsModest, TypedByParts
  <1> QED
    BY <1>1, <1>2

\* Actions that end the call.
LEMMA EndTyped ==
    ASSUME TypeOK, NEW t \in Task, End(t), UNCHANGED mode, index' \in IndexState,
           UNCHANGED database \/ Land(staged[t])
    PROVE  Typed
  <1>1. LocalTypes'
    BY EndTypes
  <1>2. staged[t] \in Seq(Statement) /\ Named(staged[t], "vec+") \subseteq UsedIds
    BY StagedIsUsed DEF TypeOK
  <1>3. CASE UNCHANGED database
    BY <1>1, <1>3, KeepingIsModest, EndStages, TypedByParts
  <1>4. CASE Land(staged[t])
    BY <1>1, <1>2, <1>4, LandIsModest, EndStages, TypedByParts
  <1> QED
    BY <1>3, <1>4

LEMMA IndexTypes ==
    ASSUME TypeOK, NEW t \in Task
    PROVE  /\ Doubt => index' \in IndexState
           /\ UNCHANGED index => index' \in IndexState
           /\ RebuildEnds(t) => index' \in IndexState /\ End(t)
  <1>1. index \in IndexState
    BY DEF TypeOK
  <1>2. Doubt => index' \in IndexState
    BY <1>1 DEF IndexState, Doubt
  <1>3. [is |-> "rebuilt", alone |-> {}] \in IndexState
    BY DEF IndexState
  <1>4. RebuildEnds(t) => index' \in IndexState /\ End(t)
    BY <1>1, <1>3, Zenon DEF RebuildEnds
  <1> QED
    BY <1>1, <1>2, <1>4

LEMMA FailureTyped ==
    ASSUME TypeOK, NEW t \in Task,
           CommitFails(t) \/ CleanupFails(t) \/ RebuildFails(t) \/ Cleanup(t)
    PROVE  Typed
  <1>1. CASE CommitFails(t)
    <2>1. End(t) /\ UNCHANGED mode /\ UNCHANGED database /\ index' \in IndexState
      BY <1>1, IndexTypes DEF CommitFails
    <2> QED
      BY <2>1, EndTyped
  <1>2. CASE CleanupFails(t)
    <2>1. End(t) /\ UNCHANGED mode /\ UNCHANGED database /\ index' \in IndexState
      BY <1>2, IndexTypes DEF CleanupFails
    <2> QED
      BY <2>1, EndTyped
  <1>3. CASE RebuildFails(t)
    <2>1. End(t) /\ UNCHANGED mode /\ UNCHANGED database /\ index' \in IndexState
      BY <1>3, IndexTypes DEF RebuildFails
    <2> QED
      BY <2>1, EndTyped
  <1>4. CASE Cleanup(t)
    <2>1. End(t) /\ UNCHANGED mode /\ Land(staged[t]) /\ index' \in IndexState
      BY <1>4, IndexTypes DEF Cleanup, FlushRest
    <2> QED
      BY <2>1, EndTyped
  <1> QED
    BY <1>1, <1>2, <1>3, <1>4

\* Actions after which the call goes on with S staged.
LEMMA GoesOnTyped ==
    ASSUME TypeOK, NEW t \in Task, LocalTypes', NEW S \in Seq(Statement),
           staged' = [staged EXCEPT ![t] = S],
           Named(S, "vec+") \subseteq UsedIds,
           \/ UNCHANGED database
           \/ \E T \in Seq(Statement) : Land(T) /\ Named(T, "vec+") \subseteq UsedIds
    PROVE  Typed
  <1>1. /\ staged' \in [Task -> Seq(Statement)]
        /\ \A u \in Task : Named(staged'[u], "vec+") \subseteq UsedIds \cup {FreshId}
    BY Restages
  <1>2. CASE UNCHANGED database
    BY <1>1, <1>2, KeepingIsModest, TypedByParts
  <1>3. ASSUME NEW T \in Seq(Statement), Land(T), Named(T, "vec+") \subseteq UsedIds
        PROVE  Typed
    BY <1>1, <1>3, LandIsModest, TypedByParts
  <1> QED
    BY <1>2, <1>3

LEMMA NothingNamed == Named(<<>>, "vec+") = {}
  BY EmptyIsSeq, NoneNamed

LEMMA WipeTyped ==
    ASSUME TypeOK, NEW t \in Task, Wipe(t)
    PROVE  Typed
  <1>1. patch[t].del \in SUBSET Quad
    BY DEF TypeOK, PatchType
  <1>2. /\ staged' = [staged EXCEPT ![t] = Deletions(patch[t].del)]
        /\ quads' = {} /\ chunks' = {} /\ vec' = {}
    BY DEF Wipe
  <1>3. LocalTypes'
    BY DEF TypeOK, LocalTypes, Wipe, Go, Place, history
  <1>4. /\ staged' \in [Task -> Seq(Statement)]
        /\ \A u \in Task : Named(staged'[u], "vec+") \subseteq UsedIds \cup {FreshId}
    BY <1>1, <1>2, DeletionsStaged, Restages
  <1>5. Ids(chunks)' = {}
    BY <1>2 DEF Ids
  <1> QED
    BY <1>2, <1>3, <1>4, <1>5, TypedByParts

LEMMA LookupTyped ==
    ASSUME TypeOK, NEW t \in Task, Lookup(t)
    PROVE  Typed
  <1>1. LocalTypes'
    BY DEF TypeOK, LocalTypes, Lookup, history
  <1>2. /\ staged' \in [Task -> Seq(Statement)]
        /\ \A u \in Task : Named(staged'[u], "vec+") \subseteq UsedIds \cup {FreshId}
    BY StagedIsUsed DEF TypeOK, Lookup
  <1>3. UNCHANGED database
    BY DEF Lookup
  <1> QED
    BY <1>1, <1>2, <1>3, KeepingIsModest, TypedByParts

LEMMA StageTyped ==
    ASSUME TypeOK, NEW t \in Task, Stage(t)
    PROVE  Typed
  <1>1. Novel(t) \in SUBSET Quad
    BY DEF Novel, TypeOK, PatchType
  <1>2. LocalTypes'
    BY <1>1 DEF TypeOK, LocalTypes, Stage, Go, Place, history
  <1> DEFINE S == staged[t]
             I == Insertions(Novel(t))
  <1>3. staged' = [staged EXCEPT ![t] = S \o I] /\ UNCHANGED database
    BY DEF Stage
  <1>4. S \in Seq(Statement) /\ Named(S, "vec+") \subseteq UsedIds
    BY StagedIsUsed DEF TypeOK
  <1>5. I \in Seq(Statement) /\ \A i \in DOMAIN I : I[i].op # "vec+"
    BY <1>1, InsertionsAre
  <1> HIDE DEF S, I
  <1>6. /\ S \o I \in Seq(Statement)
        /\ Len(S \o I) = Len(S) + Len(I)
        /\ \A i \in 1..(Len(S) + Len(I)) : (S \o I)[i] = IF i <= Len(S) THEN S[i] ELSE I[i - Len(S)]
    BY <1>4, <1>5, ConcatProperties
  <1>7. DOMAIN S = 1..Len(S) /\ DOMAIN I = 1..Len(I) /\ Len(S) \in Nat /\ Len(I) \in Nat
    BY <1>4, <1>5, LenProperties
  <1>8. DOMAIN (S \o I) = 1..(Len(S) + Len(I))
    BY <1>6, LenProperties
  <1>9. Named(S \o I, "vec+") \subseteq Named(S, "vec+")
    <2> SUFFICES ASSUME NEW i \in DOMAIN (S \o I), (S \o I)[i].op = "vec+"
                 PROVE  (S \o I)[i].of \subseteq Named(S, "vec+")
      BY DEF Named
    <2>1. i <= Len(S)
      <3> SUFFICES ASSUME ~(i <= Len(S)) PROVE FALSE
        OBVIOUS
      <3>1. i - Len(S) \in 1..Len(I) /\ (S \o I)[i] = I[i - Len(S)]
        BY <1>6, <1>7, <1>8
      <3> QED
        BY <1>5, <1>7, <3>1
    <2>2. i \in DOMAIN S /\ (S \o I)[i] = S[i]
      BY <1>6, <1>7, <1>8, <2>1
    <2> QED
      BY <2>2 DEF Named
  <1>10. Named(S \o I, "vec+") \subseteq UsedIds
    BY <1>4, <1>9
  <1> QED
    BY <1>2, <1>3, <1>6, <1>10, GoesOnTyped

LEMMA EmbedTyped ==
    ASSUME TypeOK, NEW t \in Task, Embed(t)
    PROVE  Typed
  <1> DEFINE all == UNION {{q} \X (1..Parts[q]) : q \in batch[t]}
  <1>1. all \in SUBSET (Quad \X Nat) /\ \A c \in all : c[2] \in 1..Parts[c[1]]
    BY DEF TypeOK
  <1>2. todo' = [todo EXCEPT ![t] = all] /\ pc' = [pc EXCEPT ![t] = "insert"]
    BY DEF Embed, Go
  <1>3. UNCHANGED <<database, mode, patch, look, known, batch, staged, scan, start, landed, index>>
    BY DEF Embed, history
  <1> HIDE DEF all
  <1>4. LocalTypes'
    BY <1>1, <1>2, <1>3 DEF TypeOK, LocalTypes, Place
  <1>5. /\ staged' \in [Task -> Seq(Statement)]
        /\ \A u \in Task : Named(staged'[u], "vec+") \subseteq UsedIds \cup {FreshId}
    BY <1>3, StagedIsUsed DEF TypeOK
  <1>6. UNCHANGED database
    BY <1>3
  <1> QED
    BY <1>4, <1>5, <1>6, KeepingIsModest, TypedByParts

\* One statement more.
LEMMA Appended ==
    ASSUME NEW S \in Seq(Statement), NEW e \in Statement
    PROVE  /\ Append(S, e) \in Seq(Statement)
           /\ DOMAIN Append(S, e) = 1..(Len(S) + 1) /\ DOMAIN S = 1..Len(S) /\ Len(S) \in Nat
           /\ \A i \in 1..Len(S) : Append(S, e)[i] = S[i]
           /\ Append(S, e)[Len(S) + 1] = e
  <1>1. /\ Append(S, e) \in Seq(Statement)
        /\ Len(Append(S, e)) = Len(S) + 1
        /\ \A i \in 1..Len(S) : Append(S, e)[i] = S[i]
    BY AppendProperties
  <1>2. Append(S, e)[Len(S) + 1] = e
    OBVIOUS
  <1>3. DOMAIN Append(S, e) = 1..Len(Append(S, e)) /\ DOMAIN S = 1..Len(S) /\ Len(S) \in Nat
    BY <1>1, LenProperties
  <1> QED
    BY <1>1, <1>2, <1>3

NewVector == [op |-> "vec+", of |-> {FreshId}]

LEMMA InsertChunkTyped ==
    ASSUME TypeInv, NEW t \in Task, InsertChunk(t)
    PROVE  Typed
  <1>0. FreshId \in Nat /\ TypeOK
    BY FreshIdIsFresh DEF TypeInv
  <1>1. PICK c \in todo[t] :
           /\ chunks' = chunks \cup {[id |-> FreshId, quad |-> c[1], part |-> c[2]]}
           /\ todo' = [todo EXCEPT ![t] = @ \ {c}]
    BY DEF InsertChunk
  <1>2. /\ staged' = [staged EXCEPT ![t] = IF Vectors THEN Append(staged[t], NewVector) ELSE staged[t]]
        /\ UNCHANGED <<quads, vec, mode, pc, patch, look, known, batch, scan, start, landed, index>>
    BY DEF InsertChunk, history, NewVector
  <1>3. c[1] \in Quad /\ c[2] \in Nat
    BY <1>0, <1>1 DEF TypeOK
  <1>4. chunks' \subseteq [id : Nat, quad : Quad, part : Nat]
    BY <1>0, <1>1, <1>3 DEF TypeOK
  <1>5. Ids(chunks)' \subseteq Ids(chunks) \cup {FreshId}
    BY <1>1 DEF Ids
  <1>6. LocalTypes'
    <2>1. todo' \in [Task -> SUBSET (Quad \X Nat)]
      BY <1>0, <1>1 DEF TypeOK
    <2>2. ASSUME NEW u \in Task, NEW d \in todo'[u] PROVE d[2] \in 1..Parts[d[1]]
      <3>1. d \in todo[u]
        BY <1>0, <1>1, <2>2 DEF TypeOK
      <3> QED
        BY <1>0, <3>1 DEF TypeOK
    <2> QED
      BY <1>0, <1>2, <2>1, <2>2 DEF TypeOK, LocalTypes
  <1> DEFINE S == staged[t]
  <1>7. S \in Seq(Statement) /\ Named(S, "vec+") \subseteq UsedIds
    BY <1>0, StagedIsUsed DEF TypeOK
  <1>8. NewVector \in Statement
    BY <1>0 DEF NewVector, Statement
  <1> HIDE DEF S
  <1>9. /\ Append(S, NewVector) \in Seq(Statement)
        /\ DOMAIN Append(S, NewVector) = 1..(Len(S) + 1) /\ DOMAIN S = 1..Len(S) /\ Len(S) \in Nat
        /\ \A i \in 1..Len(S) : Append(S, NewVector)[i] = S[i]
        /\ Append(S, NewVector)[Len(S) + 1] = NewVector
    BY <1>7, <1>8, Appended
  <1>10. Named(Append(S, NewVector), "vec+") \subseteq Named(S, "vec+") \cup {FreshId}
    <2> SUFFICES ASSUME NEW i \in 1..(Len(S) + 1), Append(S, NewVector)[i].op = "vec+"
                 PROVE  Append(S, NewVector)[i].of \subseteq Named(S, "vec+") \cup {FreshId}
      BY <1>9 DEF Named
    <2>1. CASE i \in 1..Len(S)
      BY <1>9, <2>1 DEF Named
    <2>2. CASE i = Len(S) + 1
      BY <1>9, <2>2 DEF NewVector
    <2> QED
      BY <1>9, <2>1, <2>2
  <1> DEFINE T == IF Vectors THEN Append(S, NewVector) ELSE S
  <1>11. /\ T \in Seq(Statement) /\ Named(T, "vec+") \subseteq UsedIds \cup {FreshId}
         /\ staged' = [staged EXCEPT ![t] = T]
    BY <1>2, <1>7, <1>9, <1>10 DEF S
  <1> HIDE DEF T
  <1>12. /\ staged' \in [Task -> Seq(Statement)]
         /\ \A u \in Task : Named(staged'[u], "vec+") \subseteq UsedIds \cup {FreshId}
    BY <1>0, <1>11, Restages
  <1>13. quads' \subseteq Quad /\ vec' \subseteq Nat /\ vec' \subseteq UsedIds
    BY <1>0, <1>2 DEF TypeOK, UsedIds
  <1> QED
    BY <1>4, <1>5, <1>6, <1>12, <1>13, TypedByParts

LEMMA FlushTyped ==
    ASSUME TypeOK, NEW t \in Task, Flush(t)
    PROVE  Typed
  <1>1. Land(staged[t]) /\ AfterFlush(t) /\ UNCHANGED mode
    BY DEF Flush, FlushRest
  <1>2. staged[t] \in Seq(Statement) /\ Named(staged[t], "vec+") \subseteq UsedIds
    BY StagedIsUsed DEF TypeOK
  <1>3. CASE Projects(t)
    <2>1. /\ pc' = [pc EXCEPT ![t] = "embed"]
          /\ staged' = [staged EXCEPT ![t] = <<>>]
          /\ UNCHANGED <<patch, look, known, batch, todo, scan, start, landed, index>>
      BY <1>1, <1>3 DEF AfterFlush
    <2>2. LocalTypes'
      BY <1>1, <2>1 DEF TypeOK, LocalTypes, Place
    <2> QED
      BY <1>1, <1>2, <2>1, <2>2, EmptyIsSeq, NothingNamed, GoesOnTyped
  <1>4. CASE ~Projects(t) /\ Deferred(t)
    <2>1. /\ pc' = [pc EXCEPT ![t] = "page"]
          /\ staged' = [staged EXCEPT ![t] = <<>>]
          /\ scan' = [scan EXCEPT ![t] = [NoScan EXCEPT !.on = TRUE]]
          /\ UNCHANGED <<patch, look, known, batch, todo, start, landed, index>>
      BY <1>1, <1>4 DEF AfterFlush
    <2>2. [NoScan EXCEPT !.on = TRUE] \in [on : BOOLEAN, anchor : Nat, last : BOOLEAN]
      BY DEF NoScan
    <2>3. LocalTypes'
      BY <1>1, <2>1, <2>2 DEF TypeOK, LocalTypes, Place
    <2> QED
      BY <1>1, <1>2, <2>1, <2>3, EmptyIsSeq, NothingNamed, GoesOnTyped
  <1>5. CASE ~Projects(t) /\ ~Deferred(t)
    <2>1. End(t) /\ index' \in IndexState
      BY <1>1, <1>5, IndexTypes DEF AfterFlush
    <2> QED
      BY <1>1, <2>1, EndTyped
  <1> QED
    BY <1>3, <1>4, <1>5

LEMMA FlushVecTyped ==
    ASSUME TypeOK, NEW t \in Task, FlushVec(t)
    PROVE  Typed
  <1>1. Land(staged[t]) /\ UNCHANGED mode
    BY DEF FlushVec, FlushRest
  <1>2. staged[t] \in Seq(Statement) /\ Named(staged[t], "vec+") \subseteq UsedIds
    BY StagedIsUsed DEF TypeOK
  <1>3. CASE End(t) /\ UNCHANGED index
    BY <1>1, <1>3, IndexTypes, EndTyped
  <1>4. CASE RebuildEnds(t)
    BY <1>1, <1>4, IndexTypes, EndTyped
  <1>5. CASE /\ pc' = [pc EXCEPT ![t] = "page"]
             /\ batch' = [batch EXCEPT ![t] = {}]
             /\ staged' = [staged EXCEPT ![t] = <<>>]
             /\ UNCHANGED <<patch, look, known, todo, scan, start, landed, index>>
    <2>1. LocalTypes'
      BY <1>1, <1>5 DEF TypeOK, LocalTypes, Place
    <2> QED
      BY <1>1, <1>2, <1>5, <2>1, EmptyIsSeq, NothingNamed, GoesOnTyped
  <1> QED
    BY <1>3, <1>4, <1>5 DEF FlushVec

LEMMA ProjectionFailsTyped ==
    ASSUME TypeOK, NEW t \in Task, ProjectionFails(t)
    PROVE  Typed
  <1>1. UNCHANGED database /\ UNCHANGED mode
    BY DEF ProjectionFails
  <1>2. CASE /\ pc' = [pc EXCEPT ![t] = "cleanup"]
             /\ todo' = [todo EXCEPT ![t] = {}]
             /\ staged' = [staged EXCEPT ![t] = Deletions(batch[t])]
             /\ UNCHANGED <<patch, look, known, batch, scan, start, landed, index>>
    <2>1. LocalTypes'
      BY <1>1, <1>2 DEF TypeOK, LocalTypes, Place
    <2>2. /\ Deletions(batch[t]) \in Seq(Statement)
          /\ Named(Deletions(batch[t]), "vec+") = {}
      BY DeletionsStaged DEF TypeOK
    <2> QED
      BY <1>1, <1>2, <2>1, <2>2, GoesOnTyped
  <1>3. CASE End(t) /\ Doubt
    BY <1>1, <1>3, IndexTypes, EndTyped
  <1> QED
    BY <1>2, <1>3 DEF ProjectionFails

\* The anchor of a page is a key.
LEMMA AnchorTypes ==
    ASSUME TypeOK, NEW a \in Nat
    PROVE  LET rows == PageAfter(quads, a, PageSize)
           IN  rows \in SUBSET Quad /\ AnchorAfter(rows, a) \in Nat
  <1> DEFINE rows == PageAfter(quads, a, PageSize)
  <1>1. quads \in SUBSET Nat /\ IsFiniteSet(quads) /\ quads \subseteq Quad
    BY QuadAssumption, FS_Subset DEF TypeOK
  <1>2. rows \subseteq quads /\ IsFiniteSet(rows)
    BY <1>1, PageWithin
  <1>3. rows \in SUBSET Quad /\ rows \in SUBSET Nat
    BY <1>1, <1>2
  <1> HIDE DEF rows
  <1>4. AnchorAfter(rows, a) \in Nat
    BY <1>2, <1>3, GreatestExists DEF AnchorAfter
  <1> QED
    BY <1>3, <1>4 DEF rows

LEMMA PageTyped ==
    ASSUME TypeOK, NEW t \in Task, Page(t)
    PROVE  Typed
  <1> DEFINE a == scan[t].anchor
             rows == PageAfter(quads, a, PageSize)
             last == Cardinality(rows) < PageSize
             fresh == rows \cap Scope
             next == AnchorAfter(rows, a)
  <1>1. UNCHANGED database /\ UNCHANGED mode
    BY DEF Page
  <1>2. a \in Nat
    BY DEF TypeOK
  <1>3. rows \in SUBSET Quad /\ fresh \in SUBSET Quad /\ next \in Nat
    BY <1>2, AnchorTypes
  <1>4. CASE fresh # {}
    <2>1. /\ pc' = [pc EXCEPT ![t] = "sweep"]
          /\ batch' = [batch EXCEPT ![t] = fresh]
          /\ staged' = [staged EXCEPT ![t] = ChunkDeletions(fresh)]
          /\ scan' = [scan EXCEPT ![t] = [on |-> TRUE, anchor |-> next, last |-> last]]
          /\ UNCHANGED <<patch, look, known, todo, start, landed, index>>
      BY <1>4 DEF Page
    <2> HIDE DEF fresh, next, last
    <2>2. last \in BOOLEAN
      BY DEF last
    <2>3. [on |-> TRUE, anchor |-> next, last |-> last]
              \in [on : BOOLEAN, anchor : Nat, last : BOOLEAN]
      BY <1>3, <2>2
    <2>4. LocalTypes'
      BY <1>1, <1>3, <2>1, <2>3 DEF TypeOK, LocalTypes, Place
    <2>5. ChunkDeletions(fresh) \in Seq(Statement) /\ Named(ChunkDeletions(fresh), "vec+") = {}
      BY <1>3, DeletionsStaged
    <2> QED
      BY <1>1, <2>1, <2>4, <2>5, GoesOnTyped
  <1>5. CASE ~(fresh # {}) /\ last
    <2>1. RebuildEnds(t)
      BY <1>5 DEF Page
    <2> QED
      BY <1>1, <2>1, IndexTypes, EndTyped
  <1>6. CASE ~(fresh # {}) /\ ~last
    <2>1. /\ scan' = [scan EXCEPT ![t].anchor = next]
          /\ UNCHANGED <<pc, patch, look, known, batch, todo, staged, start, landed, index>>
      BY <1>6 DEF Page
    <2> HIDE DEF next
    <2>2. scan' \in [Task -> [on : BOOLEAN, anchor : Nat, last : BOOLEAN]]
      BY <1>3, <2>1 DEF TypeOK
    <2>3. LocalTypes'
      BY <1>1, <2>1, <2>2 DEF TypeOK, LocalTypes
    <2>4. /\ staged' \in [Task -> Seq(Statement)]
          /\ \A u \in Task : Named(staged'[u], "vec+") \subseteq UsedIds \cup {FreshId}
      BY <2>1, StagedIsUsed DEF TypeOK
    <2> QED
      BY <1>1, <2>3, <2>4, KeepingIsModest, TypedByParts
  <1> QED
    BY <1>4, <1>5, <1>6

LEMMA SweepTyped ==
    ASSUME TypeOK, NEW t \in Task, Sweep(t)
    PROVE  Typed
  <1>1. /\ Land(staged[t])
        /\ pc' = [pc EXCEPT ![t] = "embed"]
        /\ staged' = [staged EXCEPT ![t] = <<>>]
        /\ UNCHANGED <<patch, look, known, batch, todo, scan, mode, start, landed, index>>
    BY DEF Sweep, FlushRest, Go, history
  <1>2. staged[t] \in Seq(Statement) /\ Named(staged[t], "vec+") \subseteq UsedIds
    BY StagedIsUsed DEF TypeOK
  <1>3. LocalTypes'
    BY <1>1 DEF TypeOK, LocalTypes, Place
  <1> QED
    BY <1>1, <1>2, <1>3, EmptyIsSeq, NothingNamed, GoesOnTyped

LEMMA FlushEarlyTyped ==
    ASSUME TypeOK, NEW t \in Task, FlushEarly(t)
    PROVE  Typed
  <1> DEFINE S == staged[t]
             P == SubSeq(S, 1, Threshold)
             R == SubSeq(S, Threshold + 1, Len(S))
  <1>1. S \in Seq(Statement) /\ Len(S) >= Threshold /\ Named(S, "vec+") \subseteq UsedIds
    BY StagedIsUsed DEF TypeOK, FlushEarly
  <1>2. /\ Land(P)
        /\ staged' = [staged EXCEPT ![t] = R]
        /\ landed' = [landed EXCEPT ![t] = TRUE]
        /\ UNCHANGED <<mode, pc, patch, look, known, batch, todo, scan, start, index>>
    BY DEF FlushEarly
  <1> HIDE DEF S
  <1>3. /\ P \in Seq(Statement) /\ R \in Seq(Statement)
        /\ DOMAIN P = 1..Threshold /\ DOMAIN R = 1..(Len(S) - Threshold)
        /\ \A i \in 1..Threshold : P[i] = S[i]
        /\ \A i \in 1..(Len(S) - Threshold) : R[i] = S[Threshold + i]
        /\ DOMAIN S = 1..Len(S) /\ Len(S) \in Nat /\ Threshold \in Nat
    BY <1>1, Parting
  <1> HIDE DEF P, R
  <1>4. \A i \in DOMAIN P : i \in DOMAIN S /\ P[i] = S[i]
    BY <1>1, <1>3
  <1>5. \A i \in DOMAIN R : Threshold + i \in DOMAIN S /\ R[i] = S[Threshold + i]
    BY <1>1, <1>3
  <1>6. Named(P, "vec+") \subseteq UsedIds /\ Named(R, "vec+") \subseteq UsedIds
    BY <1>1, <1>4, <1>5 DEF Named
  <1>7. LocalTypes'
    BY <1>2 DEF TypeOK, LocalTypes
  <1> QED
    BY <1>2, <1>3, <1>6, <1>7, GoesOnTyped

LEMMA CrashTyped ==
    ASSUME TypeOK, Crash
    PROVE  Typed
  <1>1. NoPatch \in PatchType /\ NoScan \in [on : BOOLEAN, anchor : Nat, last : BOOLEAN]
    BY DEF NoPatch, PatchType, NoScan
  <1>2. LocalTypes'
    BY <1>1 DEF TypeOK, LocalTypes, Crash, Place, IndexState
  <1>3. staged' = [t \in Task |-> <<>>] /\ UNCHANGED database
    BY DEF Crash
  <1>4. /\ staged' \in [Task -> Seq(Statement)]
        /\ \A u \in Task : Named(staged'[u], "vec+") \subseteq UsedIds \cup {FreshId}
    BY <1>3, EmptyIsSeq, NothingNamed
  <1> QED
    BY <1>2, <1>3, <1>4, KeepingIsModest, TypedByParts

LEMMA StepTyped ==
    ASSUME TypeInv, NEW t \in Task, Step(t)
    PROVE  Typed /\ UNCHANGED apart
  <1>1. TypeOK
    BY DEF TypeInv
  <1>2. CASE Wipe(t)
    BY <1>1, <1>2, WipeTyped DEF Wipe, history
  <1>3. CASE Lookup(t)
    BY <1>1, <1>3, LookupTyped DEF Lookup, history
  <1>4. CASE Stage(t)
    BY <1>1, <1>4, StageTyped DEF Stage, history
  <1>5. CASE Flush(t)
    BY <1>1, <1>5, FlushTyped DEF Flush
  <1>6. CASE CommitFails(t)
    BY <1>1, <1>6, FailureTyped DEF CommitFails
  <1>7. CASE Embed(t)
    BY <1>1, <1>7, EmbedTyped DEF Embed, history
  <1>8. CASE InsertChunk(t)
    BY <1>8, InsertChunkTyped DEF InsertChunk, history
  <1>9. CASE FlushVec(t)
    BY <1>1, <1>9, FlushVecTyped DEF FlushVec
  <1>10. CASE ProjectionFails(t)
    BY <1>1, <1>10, ProjectionFailsTyped DEF ProjectionFails
  <1>11. CASE Cleanup(t)
    BY <1>1, <1>11, FailureTyped DEF Cleanup
  <1>12. CASE CleanupFails(t)
    BY <1>1, <1>12, FailureTyped DEF CleanupFails
  <1>13. CASE Page(t)
    BY <1>1, <1>13, PageTyped DEF Page
  <1>14. CASE Sweep(t)
    BY <1>1, <1>14, SweepTyped DEF Sweep, history
  <1>15. CASE RebuildFails(t)
    BY <1>1, <1>15, FailureTyped DEF RebuildFails
  <1>16. CASE FlushEarly(t)
    BY <1>1, <1>16, FlushEarlyTyped DEF FlushEarly
  <1> QED
    BY <1>2, <1>3, <1>4, <1>5, <1>6, <1>7, <1>8, <1>9, <1>10, <1>11, <1>12, <1>13,
       <1>14, <1>15, <1>16 DEF Step

LEMMA InitTyped == Init => TypeInv
  <1> SUFFICES ASSUME Init PROVE TypeInv
    OBVIOUS
  <1>1. NoPatch \in PatchType /\ NoScan \in [on : BOOLEAN, anchor : Nat, last : BOOLEAN]
    BY DEF NoPatch, PatchType, NoScan
  <1>2. LocalTypes
    BY <1>1 DEF Init, LocalTypes, Place, IndexState
  <1>3. TableTypes /\ held \subseteq Nat /\ apart \in BOOLEAN
    BY EmptyIsSeq DEF Init, TableTypes
  <1>4. UsedIds = {}
    <2>1. Ids(chunks) = {} /\ vec = {} /\ held = {}
      BY DEF Init, Ids
    <2>2. \A t \in Task : Named(staged[t], "vec+") = {}
      BY NothingNamed DEF Init
    <2> QED
      BY <2>1, <2>2 DEF UsedIds
  <1> QED
    BY <1>2, <1>3, <1>4, TypeOKParts, FS_EmptySet DEF TypeInv

LEMMA WriteTyped ==
    ASSUME TypeInv, Write, UNCHANGED held
    PROVE  TypeInv'
  <1>1. TypeOK /\ held \subseteq UsedIds /\ held \subseteq Nat /\ apart \in BOOLEAN
    BY DEF TypeInv, TypeOK, UsedIds
  <1>2. Typed /\ apart' \in BOOLEAN
    <2>1. ASSUME NEW t \in Task, NEW p \in Patch[t], CallCommit(t, p)
          PROVE  Typed /\ apart' \in BOOLEAN
      BY <1>1, <2>1, CallTyped DEF CallCommit, CallBegins
    <2>2. ASSUME NEW t \in Reindexer, CallReindex(t)
          PROVE  Typed /\ apart' \in BOOLEAN
      <3>1. t \in Task
        BY PatchAssumption
      <3> QED
        BY <1>1, <2>2, <3>1, CallTyped DEF CallReindex, CallBegins
    <2>3. ASSUME NEW t \in Task, Step(t)
          PROVE  Typed /\ apart' \in BOOLEAN
      BY <1>1, <2>3, StepTyped
    <2>4. ASSUME Crash
          PROVE  Typed /\ apart' \in BOOLEAN
      BY <1>1, <2>4, CrashTyped DEF Crash
    <2> QED
      BY <2>1, <2>2, <2>3, <2>4 DEF Write
  <1>3. Modest
    BY <1>1, <1>2 DEF Typed
  <1>4. IsFiniteSet(UsedIds)'
    BY <1>3, ModestStep DEF TypeInv
  <1>5. TypeOK'
    BY <1>1, <1>2 DEF Typed, TypeOK, TableTypes, LocalTypes
  <1> QED
    BY <1>4, <1>5 DEF TypeInv

LEMMA StutterTyped == TypeInv /\ UNCHANGED vars => TypeInv'
  <1> SUFFICES ASSUME TypeInv, UNCHANGED vars PROVE TypeInv'
    OBVIOUS
  <1>1. TypeOK'
    BY DEF TypeInv, TypeOK, vars, database, local, history
  <1>2. UsedIds' = UsedIds
    BY DEF UsedIds, Ids, vars, database, local
  <1> QED
    BY <1>1, <1>2 DEF TypeInv

LEMMA AlwaysTyped == Spec => []TypeInv
  <1>1. TypeInv /\ [Next]_vars => TypeInv'
    BY WriteTyped, StutterTyped DEF Next
  <1> QED
    BY InitTyped, <1>1, PTL DEF Spec

\* The types of the L2 store hold whatever calls overlap, whatever fails and
\* wherever the executor's batches split; in particular a rebuild's anchor stays
\* a key, what a projection has to insert stays within the parts of the texts,
\* and a new chunk always finds a free rowid.
THEOREM QuadTypeCorrect == Spec => []TypeOK
  BY AlwaysTyped, PTL DEF TypeInv

-----------------------------------------------------------------------------
\* No orphans.  The tables are parameters here (Q, C, V for quads, chunks, vec),
\* so that a fact can be used for a state and for the next one.

\* No vector refers to a chunk of q; q has no chunk.
Unseen(q, C, V) == \A c \in C : c.quad = q => c.id \notin V
Unchunked(q, C) == \A c \in C : c.quad # q

\* A quad's chunks are deleted before it is.
ChunksFirst(S, C) ==
    \A i \in DOMAIN S, q \in Quad : Has(S, i, "quads-", q) =>
        Unchunked(q, C) \/ \E j \in DOMAIN S : j < i /\ Has(S, j, "chunks-", q)

\* A quad's vectors are deleted while its chunks are still there to find them.
VectorsFirst(S, C, V) ==
    \A i \in DOMAIN S, q \in Quad : Has(S, i, "chunks-", q) =>
        \/ Unseen(q, C, V)
        \/ \E j \in DOMAIN S : /\ j < i /\ Has(S, j, "vec-", q)
                               /\ \A k \in DOMAIN S : k < j => ~Has(S, k, "chunks-", q)

\* A quad is inserted after its deletion.
InsertsLast(S) ==
    \A i, j \in DOMAIN S, q \in Quad :
        Has(S, i, "quads-", q) /\ Has(S, j, "quads+", q) => i < j

\* Tables without orphans.
Sound(Q, C, V) ==
    /\ \A c \in C : c.quad \in Q
    /\ \A v \in V : \E c \in C : c.id = v
    /\ \A c, d \in C : c.id = d.id => c = d
    /\ ~Vectors => V = {}

\* A statement list in order, for tables C and V and quads K.
Ordered(S, K, C, V) ==
    /\ S \in Seq(Statement) /\ K \subseteq Quad
    /\ \A i \in DOMAIN S : S[i].op # "vec+" => S[i].of \subseteq K
    /\ ChunksFirst(S, C) /\ VectorsFirst(S, C, V) /\ InsertsLast(S)

\* A task in order: place p, staged S, batch B, chunks to insert D, concerns K.
InOrder(p, S, B, D, K, Q, C, V) ==
    /\ B \subseteq K
    /\ Ordered(S, K, C, V)
    /\ \A i \in DOMAIN S : S[i].op = "vec+" =>
          p = "insert" /\ Vectors /\ \A v \in S[i].of : \E c \in C : c.id = v /\ c.quad \in B
    /\ p = "insert" => \A i \in DOMAIN S : S[i].op = "vec+"
    /\ p = "embed" => DOMAIN S = {}
    /\ p = "lookup" => \A i \in DOMAIN S : S[i].op # "quads+"
    /\ p = "sweep" => \A i \in DOMAIN S : S[i].op # "quads-"
    /\ p \in {"embed", "insert", "sweep"} => B \subseteq Q
    /\ p = "flush" => \A q \in B :
          \/ \E i \in DOMAIN S : Has(S, i, "quads+", q)
          \/ q \in Q /\ \A i \in DOMAIN S : ~Has(S, i, "quads-", q)
    /\ D # {} => p = "insert"
    /\ \A c \in D : c[1] \in B

\* What landing S makes of the tables.
Landed(S, Q, C, V, Q2, C2, V2) ==
    /\ \A q : q \in Q2 <=> \/ q \in Q /\ \A i \in DOMAIN S : ~Has(S, i, "quads-", q)
                           \/ \E i \in DOMAIN S : Has(S, i, "quads+", q)
    /\ \A c : c \in C2 <=> c \in C /\ \A i \in DOMAIN S : ~Has(S, i, "chunks-", c.quad)
    /\ \A v \in V2 : v \in V \/ \E i \in DOMAIN S : Has(S, i, "vec+", v)
    /\ \A c \in C, i \in DOMAIN S :
          /\ Has(S, i, "vec-", c.quad)
          /\ \A k \in DOMAIN S : k < i => ~Has(S, k, "chunks-", c.quad)
          => c.id \notin V2 \/ \E j \in DOMAIN S : Has(S, j, "vec+", c.id)

LEMMA LandMeans ==
    ASSUME NEW S \in Seq(Statement), Land(S)
    PROVE  Landed(S, quads, chunks, vec, quads', chunks', vec')
  <1>0. DOMAIN S = 1..Len(S) /\ Len(S) \in Nat
    BY LenProperties
  <1>1. \A q : q \in quads' <=> \/ q \in quads /\ \A i \in DOMAIN S : ~Has(S, i, "quads-", q)
                                \/ \E i \in DOMAIN S : Has(S, i, "quads+", q)
    BY NamedMeans DEF Land
  <1>2. \A c : c \in chunks' <=>
           c \in chunks /\ \A i \in DOMAIN S : ~Has(S, i, "chunks-", c.quad)
    BY NamedMeans DEF Land, RowsOf
  <1>3. \A v \in vec' : v \in vec \/ \E i \in DOMAIN S : Has(S, i, "vec+", v)
    BY NamedMeans DEF Land
  <1>4. ASSUME NEW c \in chunks, NEW i \in DOMAIN S, Has(S, i, "vec-", c.quad),
               \A k \in DOMAIN S : k < i => ~Has(S, k, "chunks-", c.quad)
        PROVE  c.id \notin vec' \/ \E j \in DOMAIN S : Has(S, j, "vec+", c.id)
    <2>1. \A k \in 1..(i - 1) : ~(S[k].op = "chunks-" /\ c.quad \in S[k].of)
      <3> SUFFICES ASSUME NEW k \in 1..(i - 1)
                   PROVE  ~(S[k].op = "chunks-" /\ c.quad \in S[k].of)
        OBVIOUS
      <3>1. k \in DOMAIN S /\ k < i
        BY <1>0
      <3> QED
        BY <1>4, <3>1 DEF Has
    <2>2. c.id \in VectorsSwept(S)
      BY <1>4, <2>1 DEF VectorsSwept, Has
    <2> QED
      BY <2>2, NamedMeans DEF Land
  <1> QED
    BY <1>1, <1>2, <1>3, <1>4 DEF Landed

\* A batch in order leaves no orphans behind.
LEMMA LandSound ==
    ASSUME NEW S, NEW K, NEW Q, NEW C, NEW V, NEW Q2, NEW C2, NEW V2,
           Landed(S, Q, C, V, Q2, C2, V2), Sound(Q, C, V),
           \A c \in C : c.quad \in Quad,
           ChunksFirst(S, C), VectorsFirst(S, C, V),
           \A i \in DOMAIN S : S[i].op = "vec+" =>
              /\ Vectors
              /\ \A v \in S[i].of : \E c \in C : c.id = v
              /\ \A j \in DOMAIN S : S[j].op = "vec+"
    PROVE  Sound(Q2, C2, V2)
  <1>0. ASSUME NEW i, NEW q, NEW j, NEW v, NEW op, i \in DOMAIN S, j \in DOMAIN S,
               Has(S, i, op, q), Has(S, j, "vec+", v)
        PROVE  op = "vec+"
    BY <1>0 DEF Has
  <1>1. ASSUME NEW c \in C2 PROVE c.quad \in Q2
    <2>1. c \in C /\ c.quad \in Q /\ c.quad \in Quad /\ \A i \in DOMAIN S : ~Has(S, i, "chunks-", c.quad)
      BY DEF Landed, Sound
    <2>2. ASSUME NEW i \in DOMAIN S, Has(S, i, "quads-", c.quad) PROVE FALSE
      BY <2>1, <2>2 DEF ChunksFirst, Unchunked
    <2> QED
      BY <2>1, <2>2 DEF Landed
  <1>2. ASSUME NEW v \in V2 PROVE \E c \in C2 : c.id = v
    <2>1. CASE v \in V
      <3>1. PICK c \in C : c.id = v
        BY <2>1 DEF Sound
      <3>2. c \in C2
        <4> SUFFICES ASSUME NEW i \in DOMAIN S, Has(S, i, "chunks-", c.quad)
                     PROVE  FALSE
          BY DEF Landed
        <4>1. ~Unseen(c.quad, C, V)
          BY <2>1, <3>1 DEF Unseen
        <4>2. PICK j \in DOMAIN S :
                 /\ Has(S, j, "vec-", c.quad)
                 /\ \A k \in DOMAIN S : k < j => ~Has(S, k, "chunks-", c.quad)
          BY <4>1 DEF VectorsFirst
        <4>3. PICK k \in DOMAIN S : Has(S, k, "vec+", c.id)
          BY <3>1, <4>2 DEF Landed
        <4> QED
          BY <4>3, <1>0
      <3> QED
        BY <3>1, <3>2
    <2>2. ASSUME NEW i \in DOMAIN S, Has(S, i, "vec+", v) PROVE \E c \in C2 : c.id = v
      <3>1. PICK c \in C : c.id = v
        BY <2>2 DEF Has
      <3>2. c \in C2
        <4> SUFFICES ASSUME NEW k \in DOMAIN S, Has(S, k, "chunks-", c.quad)
                     PROVE  FALSE
          BY DEF Landed
        <4> QED
          BY <1>0, <2>2
      <3> QED
        BY <3>1, <3>2
    <2> QED
      BY <2>1, <2>2 DEF Landed
  <1>3. \A c, d \in C2 : c.id = d.id => c = d
    BY DEF Landed, Sound
  <1>4. ~Vectors => V2 = {}
    BY DEF Landed, Sound, Has
  <1> QED
    BY <1>1, <1>2, <1>3, <1>4 DEF Sound

\* The tables hold the same of the quads in K, and no vector of theirs is new.
Aside(K, Q, C, V, Q2, C2, V2) ==
    /\ \A q \in K : q \in Q <=> q \in Q2
    /\ \A c : c.quad \in K => (c \in C <=> c \in C2)
    /\ \A c \in C : c.quad \in K /\ c.id \in V2 => c.id \in V

\* A task in order stays so while the tables change only for other quads.
LEMMA AsideKeeps ==
    ASSUME NEW p, NEW S, NEW B, NEW D, NEW K,
           NEW Q, NEW C, NEW V, NEW Q2, NEW C2, NEW V2,
           InOrder(p, S, B, D, K, Q, C, V), Aside(K, Q, C, V, Q2, C2, V2)
    PROVE  InOrder(p, S, B, D, K, Q2, C2, V2)
  <1>1. ASSUME NEW i \in DOMAIN S, NEW q, NEW op, Has(S, i, op, q), op # "vec+"
        PROVE  q \in K
    BY <1>1 DEF InOrder, Ordered, Has
  <1>2. ChunksFirst(S, C2)
    <2> SUFFICES ASSUME NEW i \in DOMAIN S, NEW q \in Quad, Has(S, i, "quads-", q)
                 PROVE  Unchunked(q, C2) \/ \E j \in DOMAIN S : j < i /\ Has(S, j, "chunks-", q)
      BY DEF ChunksFirst
    <2>1. q \in K
      BY <1>1
    <2>2. Unchunked(q, C) => Unchunked(q, C2)
      BY <2>1 DEF Unchunked, Aside
    <2> QED
      BY <2>2 DEF InOrder, Ordered, ChunksFirst
  <1>3. VectorsFirst(S, C2, V2)
    <2> SUFFICES ASSUME NEW i \in DOMAIN S, NEW q \in Quad, Has(S, i, "chunks-", q)
                 PROVE  \/ Unseen(q, C2, V2)
                        \/ \E j \in DOMAIN S :
                              /\ j < i /\ Has(S, j, "vec-", q)
                              /\ \A k \in DOMAIN S : k < j => ~Has(S, k, "chunks-", q)
      BY DEF VectorsFirst
    <2>1. q \in K
      BY <1>1
    <2>2. Unseen(q, C, V) => Unseen(q, C2, V2)
      BY <2>1 DEF Unseen, Aside
    <2> QED
      BY <2>2 DEF InOrder, Ordered, VectorsFirst
  <1>4. Ordered(S, K, C2, V2)
    BY <1>2, <1>3 DEF InOrder, Ordered
  <1>5. \A i \in DOMAIN S : S[i].op = "vec+" =>
           p = "insert" /\ Vectors /\ \A v \in S[i].of : \E c \in C2 : c.id = v /\ c.quad \in B
    BY DEF InOrder, Aside
  <1>6. p \in {"embed", "insert", "sweep"} => B \subseteq Q2
    BY DEF InOrder, Aside
  <1>7. p = "flush" => \A q \in B :
           \/ \E i \in DOMAIN S : Has(S, i, "quads+", q)
           \/ q \in Q2 /\ \A i \in DOMAIN S : ~Has(S, i, "quads-", q)
    BY DEF InOrder, Aside
  <1> QED
    BY <1>4, <1>5, <1>6, <1>7 DEF InOrder

\* Landing what is about the quads in J leaves the others aside.
LEMMA LandAside ==
    ASSUME NEW S, NEW J, NEW K, NEW Q, NEW C, NEW V, NEW Q2, NEW C2, NEW V2,
           Landed(S, Q, C, V, Q2, C2, V2), Sound(Q, C, V),
           J \cap K = {},
           \A i \in DOMAIN S : S[i].op # "vec+" => S[i].of \subseteq J,
           \A i \in DOMAIN S : S[i].op = "vec+" =>
              \A v \in S[i].of : \E c \in C : c.id = v /\ c.quad \in J
    PROVE  Aside(K, Q, C, V, Q2, C2, V2)
  <1>1. ASSUME NEW i \in DOMAIN S, NEW q \in K, NEW op, Has(S, i, op, q), op # "vec+"
        PROVE  FALSE
    BY <1>1 DEF Has
  <1>2. \A q \in K : q \in Q <=> q \in Q2
    BY <1>1 DEF Landed
  <1>3. \A c : c.quad \in K => (c \in C <=> c \in C2)
    BY <1>1 DEF Landed
  <1>4. ASSUME NEW c \in C, c.quad \in K, c.id \in V2 PROVE c.id \in V
    <2>1. ASSUME NEW i \in DOMAIN S, Has(S, i, "vec+", c.id) PROVE FALSE
      <3>1. PICK d \in C : d.id = c.id /\ d.quad \in J
        BY <2>1 DEF Has
      <3> QED
        BY <1>4, <3>1 DEF Sound
    <2> QED
      BY <1>4, <2>1 DEF Landed
  <1> QED
    BY <1>2, <1>3, <1>4 DEF Aside

\* What deletes chunks, or chunks and quads, is in order whatever the tables hold.
LEMMA SweepingOrdered ==
    ASSUME NEW S, NEW K \in SUBSET Quad, NEW B \in SUBSET K, Sweeping(S, B), NEW C, NEW V,
           ~Vectors => V = {}
    PROVE  /\ Ordered(S, K, C, V)
           /\ \A i \in DOMAIN S : S[i].op # "vec+" /\ S[i].op # "quads+"
  <1>0. DOMAIN S = 1..Len(S) /\ Len(S) \in Nat
    BY LenProperties DEF Sweeping
  <1>1. \A i \in DOMAIN S : S[i].op # "vec+" /\ S[i].op # "quads+" /\ S[i].of \subseteq K
    BY DEF Sweeping
  <1>2. \A i \in DOMAIN S : \A q, op : Has(S, i, op, q) => q \in B
    BY DEF Sweeping, Has
  <1>3. ChunksFirst(S, C)
    <2> SUFFICES ASSUME NEW i \in DOMAIN S, NEW q \in Quad, Has(S, i, "quads-", q)
                 PROVE  \E j \in DOMAIN S : j < i /\ Has(S, j, "chunks-", q)
      BY DEF ChunksFirst
    <2>1. Has(S, i - 1, "chunks-", q)
      BY <1>2 DEF Sweeping
    <2>2. i - 1 \in DOMAIN S /\ i - 1 < i
      BY <1>0, <2>1 DEF Has
    <2> QED
      BY <2>1, <2>2
  <1>4. VectorsFirst(S, C, V)
    <2> SUFFICES ASSUME NEW i \in DOMAIN S, NEW q \in Quad, Has(S, i, "chunks-", q)
                 PROVE  \/ Unseen(q, C, V)
                        \/ \E j \in DOMAIN S :
                              /\ j < i /\ Has(S, j, "vec-", q)
                              /\ \A k \in DOMAIN S : k < j => ~Has(S, k, "chunks-", q)
      BY DEF VectorsFirst
    <2>1. CASE ~Vectors
      BY <2>1 DEF Unseen
    <2>2. CASE Vectors
      <3>1. q \in B /\ Has(S, i - 1, "vec-", q)
        BY <1>2, <2>2 DEF Sweeping
      <3>2. i - 1 \in DOMAIN S /\ i - 1 < i
        BY <1>0, <3>1 DEF Has
      <3>3. ASSUME NEW k \in DOMAIN S, k < i - 1, Has(S, k, "chunks-", q) PROVE FALSE
        <4>1. k = i
          BY <3>1, <3>3 DEF Sweeping
        <4> QED
          BY <1>0, <3>3, <4>1
      <3> QED
        BY <3>1, <3>2, <3>3
    <2> QED
      BY <2>1, <2>2
  <1>5. InsertsLast(S)
    BY <1>1 DEF InsertsLast, Has
  <1> QED
    BY <1>1, <1>3, <1>4, <1>5 DEF Ordered, Sweeping

-----------------------------------------------------------------------------
\* A batch of its own: P is what lands early of S, R the rest.
Split(S, T, P, R) ==
    /\ T \in Nat /\ Len(S) \in Nat /\ T <= Len(S) /\ DOMAIN S = 1..Len(S)
    /\ P \in Seq(Statement) /\ R \in Seq(Statement)
    /\ DOMAIN P = 1..T /\ DOMAIN R = 1..(Len(S) - T)
    /\ \A i \in 1..T : P[i] = S[i]
    /\ \A i \in 1..(Len(S) - T) : R[i] = S[T + i]

LEMMA SplitHas ==
    ASSUME NEW S, NEW T, NEW P, NEW R, Split(S, T, P, R)
    PROVE  /\ \A i \in DOMAIN P : i \in DOMAIN S /\ P[i] = S[i]
           /\ \A i \in DOMAIN R : T + i \in DOMAIN S /\ R[i] = S[T + i]
           /\ \A i \in DOMAIN P : \A op, q : Has(P, i, op, q) <=> Has(S, i, op, q)
           /\ \A i \in DOMAIN R : \A op, q : Has(R, i, op, q) <=> Has(S, T + i, op, q)
           /\ \A i \in DOMAIN S : i \in DOMAIN P \/ i - T \in DOMAIN R
           /\ \A i \in DOMAIN P, j \in DOMAIN S : j < i => j \in DOMAIN P
  <1>1. \A i \in DOMAIN P : i \in DOMAIN S /\ P[i] = S[i]
    BY DEF Split
  <1>2. \A i \in DOMAIN R : T + i \in DOMAIN S /\ R[i] = S[T + i]
    BY DEF Split
  <1>3. \A i \in DOMAIN S : i \in DOMAIN P \/ i - T \in DOMAIN R
    BY DEF Split
  <1>4. \A i \in DOMAIN P, j \in DOMAIN S : j < i => j \in DOMAIN P
    BY DEF Split
  <1> QED
    BY <1>1, <1>2, <1>3, <1>4 DEF Has

\* The first batch is in order by itself.
LEMMA FirstPartOrdered ==
    ASSUME NEW S, NEW T, NEW P, NEW R, Split(S, T, P, R), NEW C, NEW V,
           ChunksFirst(S, C), VectorsFirst(S, C, V)
    PROVE  ChunksFirst(P, C) /\ VectorsFirst(P, C, V)
  <1>1. ChunksFirst(P, C)
    <2> SUFFICES ASSUME NEW i \in DOMAIN P, NEW q \in Quad, Has(P, i, "quads-", q),
                        ~Unchunked(q, C)
                 PROVE  \E j \in DOMAIN P : j < i /\ Has(P, j, "chunks-", q)
      BY DEF ChunksFirst
    <2>1. i \in DOMAIN S /\ Has(S, i, "quads-", q)
      BY SplitHas
    <2>2. PICK j \in DOMAIN S : j < i /\ Has(S, j, "chunks-", q)
      BY <2>1 DEF ChunksFirst
    <2>3. j \in DOMAIN P
      BY <2>2, SplitHas
    <2> QED
      BY <2>2, <2>3, SplitHas
  <1>2. VectorsFirst(P, C, V)
    <2> SUFFICES ASSUME NEW i \in DOMAIN P, NEW q \in Quad, Has(P, i, "chunks-", q),
                        ~Unseen(q, C, V)
                 PROVE  \E j \in DOMAIN P :
                           /\ j < i /\ Has(P, j, "vec-", q)
                           /\ \A k \in DOMAIN P : k < j => ~Has(P, k, "chunks-", q)
      BY DEF VectorsFirst
    <2>1. i \in DOMAIN S /\ Has(S, i, "chunks-", q)
      BY SplitHas
    <2>2. PICK j \in DOMAIN S : /\ j < i /\ Has(S, j, "vec-", q)
                                /\ \A k \in DOMAIN S : k < j => ~Has(S, k, "chunks-", q)
      BY <2>1 DEF VectorsFirst
    <2>3. j \in DOMAIN P
      BY <2>2, SplitHas
    <2>4. \A k \in DOMAIN P : k < j => ~Has(P, k, "chunks-", q)
      BY <2>2, SplitHas
    <2> QED
      BY <2>2, <2>3, <2>4, SplitHas
  <1> QED
    BY <1>1, <1>2

\* After the first batch the rest is still in order: what its deletions rely on
\* is either in the rest or has landed.
LEMMA RestOrdered ==
    ASSUME NEW S, NEW T, NEW P, NEW R, Split(S, T, P, R), NEW K,
           NEW Q, NEW C, NEW V, NEW Q2, NEW C2, NEW V2,
           Landed(P, Q, C, V, Q2, C2, V2), Ordered(S, K, C, V),
           (\E i \in DOMAIN S : S[i].op = "vec+") => \A i \in DOMAIN S : S[i].op = "vec+"
    PROVE  Ordered(R, K, C2, V2)
  <1>0. \A i \in DOMAIN R : i \in Nat /\ T \in Nat
    BY DEF Split
  <1>1. ChunksFirst(R, C2)
    <2> SUFFICES ASSUME NEW i \in DOMAIN R, NEW q \in Quad, Has(R, i, "quads-", q),
                        ~Unchunked(q, C2)
                 PROVE  \E j \in DOMAIN R : j < i /\ Has(R, j, "chunks-", q)
      BY DEF ChunksFirst
    <2>1. T + i \in DOMAIN S /\ Has(S, T + i, "quads-", q)
      BY SplitHas
    <2>2. ~Unchunked(q, C)
      BY DEF Unchunked, Landed
    <2>3. PICK j \in DOMAIN S : j < T + i /\ Has(S, j, "chunks-", q)
      BY <2>1, <2>2 DEF Ordered, ChunksFirst
    <2>4. j \notin DOMAIN P
      <3> SUFFICES ASSUME j \in DOMAIN P PROVE FALSE
        OBVIOUS
      <3>1. Has(P, j, "chunks-", q)
        BY <2>3, SplitHas
      <3> QED
        BY <3>1 DEF Unchunked, Landed
    <2>5. j - T \in DOMAIN R /\ j - T < i /\ T + (j - T) = j
      <3>1. j - T \in DOMAIN R
        BY <2>4, SplitHas
      <3>2. j \in Nat
        BY DEF Split
      <3> QED
        BY <1>0, <2>3, <3>1, <3>2
    <2> QED
      BY <2>3, <2>5, SplitHas
  <1>2. VectorsFirst(R, C2, V2)
    <2> SUFFICES ASSUME NEW i \in DOMAIN R, NEW q \in Quad, Has(R, i, "chunks-", q),
                        ~Unseen(q, C2, V2)
                 PROVE  \E j \in DOMAIN R :
                           /\ j < i /\ Has(R, j, "vec-", q)
                           /\ \A k \in DOMAIN R : k < j => ~Has(R, k, "chunks-", q)
      BY DEF VectorsFirst
    <2>1. T + i \in DOMAIN S /\ Has(S, T + i, "chunks-", q)
      BY SplitHas
    <2>2. \A k \in DOMAIN S : S[k].op # "vec+"
      BY <2>1 DEF Has
    <2>3. \A k \in DOMAIN P : \A v : ~Has(P, k, "vec+", v)
      BY <2>2, SplitHas DEF Has
    <2>4. ~Unseen(q, C, V)
      BY <2>3 DEF Unseen, Landed
    <2>5. PICK j \in DOMAIN S : /\ j < T + i /\ Has(S, j, "vec-", q)
                                /\ \A k \in DOMAIN S : k < j => ~Has(S, k, "chunks-", q)
      BY <2>1, <2>4 DEF Ordered, VectorsFirst
    <2>6. j \notin DOMAIN P
      <3> SUFFICES ASSUME j \in DOMAIN P PROVE FALSE
        OBVIOUS
      <3>1. Has(P, j, "vec-", q) /\ \A k \in DOMAIN P : k < j => ~Has(P, k, "chunks-", q)
        BY <2>5, SplitHas
      <3>2. \A c \in C2 : c.quad = q => c \in C /\ c.id \notin V2
        BY <2>3, <3>1 DEF Landed
      <3> QED
        BY <3>2 DEF Unseen
    <2>7. j - T \in DOMAIN R /\ j - T < i /\ T + (j - T) = j
      <3>1. j - T \in DOMAIN R
        BY <2>6, SplitHas
      <3>2. j \in Nat
        BY DEF Split
      <3> QED
        BY <1>0, <2>5, <3>1, <3>2
    <2>8. ASSUME NEW k \in DOMAIN R, k < j - T PROVE ~Has(R, k, "chunks-", q)
      <3>1. T + k \in DOMAIN S
        BY SplitHas
      <3>2. T + k < j
        BY <1>0, <2>7, <2>8
      <3> QED
        BY <2>5, <3>1, <3>2, SplitHas
    <2> QED
      BY <2>5, <2>7, <2>8, SplitHas
  <1>3. InsertsLast(R)
    <2> SUFFICES ASSUME NEW i \in DOMAIN R, NEW j \in DOMAIN R, NEW q \in Quad,
                        Has(R, i, "quads-", q), Has(R, j, "quads+", q)
                 PROVE  i < j
      BY DEF InsertsLast
    <2>1. /\ T + i \in DOMAIN S /\ T + j \in DOMAIN S
          /\ Has(S, T + i, "quads-", q) /\ Has(S, T + j, "quads+", q)
      BY SplitHas
    <2>2. T + i < T + j
      BY <2>1 DEF Ordered, InsertsLast
    <2> QED
      BY <1>0, <2>2
  <1>4. \A i \in DOMAIN R : R[i].op # "vec+" => R[i].of \subseteq K
    BY SplitHas DEF Ordered
  <1> QED
    BY <1>1, <1>2, <1>3, <1>4 DEF Ordered, Split

LEMMA RestInOrder ==
    ASSUME NEW S, NEW T, NEW P, NEW R, Split(S, T, P, R),
           NEW p, NEW B, NEW D, NEW K,
           NEW Q, NEW C, NEW V, NEW Q2, NEW C2, NEW V2,
           Landed(P, Q, C, V, Q2, C2, V2), InOrder(p, S, B, D, K, Q, C, V)
    PROVE  InOrder(p, R, B, D, K, Q2, C2, V2)
  <1>0. \A i \in DOMAIN S : S[i].op = "vec+" => p = "insert" /\ \A j \in DOMAIN S : S[j].op = "vec+"
    BY DEF InOrder
  <1>1. Ordered(R, K, C2, V2)
    BY <1>0, RestOrdered DEF InOrder
  <1>2. ASSUME NEW i \in DOMAIN R, R[i].op = "vec+"
        PROVE  p = "insert" /\ Vectors /\ \A v \in R[i].of : \E c \in C2 : c.id = v /\ c.quad \in B
    <2>1. T + i \in DOMAIN S /\ R[i] = S[T + i]
      BY SplitHas
    <2>2. p = "insert" /\ Vectors /\ \A v \in R[i].of : \E c \in C : c.id = v /\ c.quad \in B
      BY <1>2, <2>1 DEF InOrder
    <2>3. \A j \in DOMAIN P : P[j].op = "vec+"
      BY <1>0, <1>2, <2>1, SplitHas
    <2>4. C \subseteq C2
      BY <2>3 DEF Landed, Has
    <2> QED
      BY <2>2, <2>4
  <1>3. p = "insert" => \A i \in DOMAIN R : R[i].op = "vec+"
    BY SplitHas DEF InOrder
  <1>4. p = "embed" => DOMAIN R = {}
    BY SplitHas DEF InOrder
  <1>5. p = "lookup" => \A i \in DOMAIN R : R[i].op # "quads+"
    BY SplitHas DEF InOrder
  <1>6. p = "sweep" => \A i \in DOMAIN R : R[i].op # "quads-"
    BY SplitHas DEF InOrder
  <1>7. ASSUME p \in {"embed", "insert", "sweep"} PROVE B \subseteq Q2
    <2>1. \A i \in DOMAIN P : \A q : ~Has(P, i, "quads-", q)
      BY <1>7, SplitHas DEF InOrder, Has
    <2> QED
      BY <1>7, <2>1 DEF InOrder, Landed
  <1>8. ASSUME p = "flush", NEW q \in B
        PROVE  \/ \E i \in DOMAIN R : Has(R, i, "quads+", q)
               \/ q \in Q2 /\ \A i \in DOMAIN R : ~Has(R, i, "quads-", q)
    <2>0. q \in Quad
      BY DEF InOrder, Ordered
    <2>1. ASSUME NEW i \in DOMAIN S, Has(S, i, "quads+", q), i \notin DOMAIN P
          PROVE  \E j \in DOMAIN R : Has(R, j, "quads+", q)
      <3>1. i - T \in DOMAIN R
        BY <2>1, SplitHas
      <3>2. T + (i - T) = i
        BY DEF Split
      <3> QED
        BY <2>1, <3>1, <3>2, SplitHas
    <2>2. ASSUME NEW i \in DOMAIN P, Has(S, i, "quads+", q)
          PROVE  q \in Q2 /\ \A j \in DOMAIN R : ~Has(R, j, "quads-", q)
      <3>1. q \in Q2
        BY <2>2, SplitHas DEF Landed
      <3>2. ASSUME NEW j \in DOMAIN R, Has(R, j, "quads-", q) PROVE FALSE
        <4>1. T + j \in DOMAIN S /\ Has(S, T + j, "quads-", q) /\ i \in DOMAIN S
          BY <3>2, SplitHas
        <4>2. T + j < i
          BY <2>0, <2>2, <4>1 DEF InOrder, Ordered, InsertsLast
        <4> QED
          BY <4>2 DEF Split
      <3> QED
        BY <3>1, <3>2
    <2>3. ASSUME q \in Q, \A i \in DOMAIN S : ~Has(S, i, "quads-", q)
          PROVE  q \in Q2 /\ \A j \in DOMAIN R : ~Has(R, j, "quads-", q)
      BY <2>3, SplitHas DEF Landed
    <2> QED
      BY <1>8, <2>1, <2>2, <2>3, SplitHas DEF InOrder
  <1> QED
    BY <1>1, <1>2, <1>3, <1>4, <1>5, <1>6, <1>7, <1>8 DEF InOrder

-----------------------------------------------------------------------------
\* What is staged behind S: the deletions of B, then its rows.
LEMMA ConcatHas ==
    ASSUME NEW S \in Seq(Statement), NEW T \in Seq(Statement)
    PROVE  /\ S \o T \in Seq(Statement)
           /\ Len(S) \in Nat
           /\ \A i \in DOMAIN S : i \in DOMAIN (S \o T) /\ (S \o T)[i] = S[i] /\ i \in Nat /\ i <= Len(S)
           /\ \A i \in DOMAIN T : /\ Len(S) + i \in DOMAIN (S \o T) /\ (S \o T)[Len(S) + i] = T[i]
                                  /\ i \in Nat /\ i > 0
           /\ \A i \in DOMAIN (S \o T) : i \in DOMAIN S \/ \E j \in DOMAIN T : i = Len(S) + j
  <1>1. /\ S \o T \in Seq(Statement)
        /\ Len(S \o T) = Len(S) + Len(T)
        /\ \A i \in 1..(Len(S) + Len(T)) : (S \o T)[i] = IF i <= Len(S) THEN S[i] ELSE T[i - Len(S)]
    BY ConcatProperties
  <1>2. /\ DOMAIN S = 1..Len(S) /\ DOMAIN T = 1..Len(T) /\ Len(S) \in Nat /\ Len(T) \in Nat
        /\ DOMAIN (S \o T) = 1..(Len(S) + Len(T))
    BY <1>1, LenProperties
  <1>3. ASSUME NEW i \in DOMAIN S
        PROVE  i \in DOMAIN (S \o T) /\ (S \o T)[i] = S[i] /\ i \in Nat /\ i <= Len(S)
    BY <1>1, <1>2
  <1>4. ASSUME NEW i \in DOMAIN T
        PROVE  /\ Len(S) + i \in DOMAIN (S \o T) /\ (S \o T)[Len(S) + i] = T[i]
               /\ i \in Nat /\ i > 0
    <2>1. Len(S) + i \in 1..(Len(S) + Len(T)) /\ ~(Len(S) + i <= Len(S)) /\ Len(S) + i - Len(S) = i
      BY <1>2
    <2> QED
      BY <1>1, <1>2, <2>1
  <1>5. ASSUME NEW i \in DOMAIN (S \o T), i \notin DOMAIN S
        PROVE  \E j \in DOMAIN T : i = Len(S) + j
    <2>1. i - Len(S) \in DOMAIN T /\ i = Len(S) + (i - Len(S))
      BY <1>2, <1>5
    <2> QED
      BY <2>1
  <1> QED
    BY <1>1, <1>2, <1>3, <1>4, <1>5

LEMMA DeletionsBehind ==
    ASSUME NEW K, NEW C, NEW V, NEW S, Ordered(S, K, C, V),
           \A i \in DOMAIN S : S[i].op # "vec+" /\ S[i].op # "quads+",
           NEW B \in SUBSET K, NEW T, Sweeping(T, B), ~Vectors => V = {}
    PROVE  /\ Ordered(S \o T, K, C, V)
           /\ \A i \in DOMAIN (S \o T) : (S \o T)[i].op # "vec+" /\ (S \o T)[i].op # "quads+"
  <1> DEFINE U == S \o T
             n == Len(S)
  <1>0. S \in Seq(Statement) /\ T \in Seq(Statement) /\ B \subseteq Quad
    BY DEF Ordered, Sweeping
  <1>1. /\ U \in Seq(Statement)
        /\ n \in Nat
        /\ \A i \in DOMAIN S : i \in DOMAIN U /\ U[i] = S[i] /\ i \in Nat /\ i <= n
        /\ \A i \in DOMAIN T : n + i \in DOMAIN U /\ U[n + i] = T[i] /\ i \in Nat /\ i > 0
        /\ \A i \in DOMAIN U : i \in DOMAIN S \/ \E j \in DOMAIN T : i = n + j
    BY <1>0, ConcatHas
  <1> HIDE DEF U, n
  <1>2. \A i \in DOMAIN U : U[i].op # "vec+" /\ U[i].op # "quads+" /\ U[i].of \subseteq K
    <2> SUFFICES ASSUME NEW i \in DOMAIN U
                 PROVE  U[i].op # "vec+" /\ U[i].op # "quads+" /\ U[i].of \subseteq K
      OBVIOUS
    <2>1. CASE i \in DOMAIN S
      BY <1>1, <2>1 DEF Ordered
    <2>2. ASSUME NEW j \in DOMAIN T, i = n + j
          PROVE  U[i].op # "vec+" /\ U[i].op # "quads+" /\ U[i].of \subseteq K
      BY <1>1, <2>2 DEF Sweeping
    <2> QED
      BY <1>1, <2>1, <2>2
  <1>3. /\ \A i \in DOMAIN S : \A op, q : Has(U, i, op, q) <=> Has(S, i, op, q)
        /\ \A i \in DOMAIN T : \A op, q : Has(U, n + i, op, q) <=> Has(T, i, op, q)
    BY <1>1 DEF Has
  <1>4. \A i \in DOMAIN T : \A q, op : Has(T, i, op, q) => q \in B
    BY DEF Sweeping, Has
  <1>5. ChunksFirst(U, C)
    <2> SUFFICES ASSUME NEW i \in DOMAIN U, NEW q \in Quad, Has(U, i, "quads-", q),
                        ~Unchunked(q, C)
                 PROVE  \E j \in DOMAIN U : j < i /\ Has(U, j, "chunks-", q)
      BY DEF ChunksFirst
    <2>1. CASE i \in DOMAIN S
      <3>1. PICK j \in DOMAIN S : j < i /\ Has(S, j, "chunks-", q)
        BY <1>3, <2>1 DEF Ordered, ChunksFirst
      <3> QED
        BY <1>1, <1>3, <3>1
    <2>2. ASSUME NEW j \in DOMAIN T, i = n + j
          PROVE  \E k \in DOMAIN U : k < i /\ Has(U, k, "chunks-", q)
      <3>1. Has(T, j - 1, "chunks-", q) /\ j - 1 \in DOMAIN T
        BY <1>3, <1>4, <2>2 DEF Sweeping, Has
      <3>2. n + (j - 1) \in DOMAIN U /\ n + (j - 1) < i
        BY <1>1, <2>2, <3>1
      <3> QED
        BY <1>3, <3>1, <3>2
    <2> QED
      BY <1>1, <2>1, <2>2
  <1>6. VectorsFirst(U, C, V)
    <2> SUFFICES ASSUME NEW i \in DOMAIN U, NEW q \in Quad, Has(U, i, "chunks-", q),
                        ~Unseen(q, C, V)
                 PROVE  \E j \in DOMAIN U :
                           /\ j < i /\ Has(U, j, "vec-", q)
                           /\ \A k \in DOMAIN U : k < j => ~Has(U, k, "chunks-", q)
      BY DEF VectorsFirst
    <2>0. Vectors
      BY DEF Unseen
    <2>1. ASSUME NEW m \in DOMAIN S, Has(S, m, "chunks-", q), m <= i
          PROVE  \E j \in DOMAIN U :
                     /\ j < i /\ Has(U, j, "vec-", q)
                     /\ \A k \in DOMAIN U : k < j => ~Has(U, k, "chunks-", q)
      <3>1. PICK j \in DOMAIN S :
               /\ j < m /\ Has(S, j, "vec-", q)
               /\ \A k \in DOMAIN S : k < j => ~Has(S, k, "chunks-", q)
        BY <2>1 DEF Ordered, VectorsFirst
      <3>2. j \in DOMAIN U /\ Has(U, j, "vec-", q) /\ j < i
        <4>1. m \in Nat /\ j \in Nat /\ i \in Nat
          BY <1>1
        <4> QED
          BY <1>1, <1>3, <2>1, <3>1, <4>1
      <3>3. ASSUME NEW k \in DOMAIN U, k < j PROVE ~Has(U, k, "chunks-", q)
        <4>1. k \in DOMAIN S
          <5>1. ASSUME NEW l \in DOMAIN T, k = n + l PROVE FALSE
            BY <1>1, <3>1, <3>3, <5>1
          <5> QED
            BY <1>1, <5>1
        <4> QED
          BY <1>3, <3>1, <3>3, <4>1
      <3> QED
        BY <3>2, <3>3
    <2>2. CASE i \in DOMAIN S
      <3>1. i <= i
        BY <1>1, <2>2
      <3> QED
        BY <1>3, <2>1, <2>2, <3>1
    <2>3. ASSUME NEW j \in DOMAIN T, i = n + j
          PROVE  \E l \in DOMAIN U :
                     /\ l < i /\ Has(U, l, "vec-", q)
                     /\ \A k \in DOMAIN U : k < l => ~Has(U, k, "chunks-", q)
      <3>1. CASE \E m \in DOMAIN S : Has(S, m, "chunks-", q)
        <4>1. PICK m \in DOMAIN S : Has(S, m, "chunks-", q)
          BY <3>1
        <4>2. m <= i
          BY <1>1, <2>3
        <4> QED
          BY <2>1, <4>1, <4>2
      <3>2. CASE \A m \in DOMAIN S : ~Has(S, m, "chunks-", q)
        <4>1. Has(T, j, "chunks-", q) /\ q \in B
          BY <1>3, <1>4, <2>3
        <4>2. Has(T, j - 1, "vec-", q) /\ j - 1 \in DOMAIN T
          BY <2>0, <4>1 DEF Sweeping, Has
        <4>3. n + (j - 1) \in DOMAIN U /\ n + (j - 1) < i /\ Has(U, n + (j - 1), "vec-", q)
          BY <1>1, <1>3, <2>3, <4>2
        <4>4. ASSUME NEW k \in DOMAIN U, k < n + (j - 1), Has(U, k, "chunks-", q) PROVE FALSE
          <5>1. CASE k \in DOMAIN S
            BY <1>3, <3>2, <4>4, <5>1
          <5>2. ASSUME NEW l \in DOMAIN T, k = n + l PROVE FALSE
            <6>1. Has(T, l, "chunks-", q)
              BY <1>3, <4>4, <5>2
            <6>2. l = j
              BY <4>1, <6>1 DEF Sweeping
            <6> QED
              BY <1>1, <4>4, <5>2, <6>2
          <5> QED
            BY <1>1, <5>1, <5>2
        <4> QED
          BY <4>3, <4>4
      <3> QED
        BY <3>1, <3>2
    <2> QED
      BY <1>1, <2>2, <2>3
  <1>7. InsertsLast(U)
    BY <1>2 DEF InsertsLast, Has
  <1> QED
    BY <1>1, <1>2, <1>5, <1>6, <1>7 DEF Ordered, U

LEMMA RowsBehind ==
    ASSUME NEW K, NEW C, NEW V, NEW S, Ordered(S, K, C, V),
           \A i \in DOMAIN S : S[i].op # "vec+" /\ S[i].op # "quads+",
           NEW T \in Seq(Statement),
           \A i \in DOMAIN T : T[i].op = "quads+" /\ T[i].of \subseteq K
    PROVE  /\ Ordered(S \o T, K, C, V)
           /\ \A i \in DOMAIN (S \o T) : (S \o T)[i].op # "vec+"
  <1> DEFINE U == S \o T
             n == Len(S)
  <1>0. S \in Seq(Statement)
    BY DEF Ordered
  <1>1. /\ U \in Seq(Statement)
        /\ n \in Nat
        /\ \A i \in DOMAIN S : i \in DOMAIN U /\ U[i] = S[i] /\ i \in Nat /\ i <= n
        /\ \A i \in DOMAIN T : n + i \in DOMAIN U /\ U[n + i] = T[i] /\ i \in Nat /\ i > 0
        /\ \A i \in DOMAIN U : i \in DOMAIN S \/ \E j \in DOMAIN T : i = n + j
    BY <1>0, ConcatHas
  <1> HIDE DEF U, n
  <1>2. \A i \in DOMAIN U : U[i].op # "vec+" /\ U[i].of \subseteq K
    <2> SUFFICES ASSUME NEW i \in DOMAIN U
                 PROVE  U[i].op # "vec+" /\ U[i].of \subseteq K
      OBVIOUS
    <2>1. CASE i \in DOMAIN S
      BY <1>1, <2>1 DEF Ordered
    <2>2. ASSUME NEW j \in DOMAIN T, i = n + j
          PROVE  U[i].op # "vec+" /\ U[i].of \subseteq K
      BY <1>1, <2>2
    <2> QED
      BY <1>1, <2>1, <2>2
  <1>3. \A i \in DOMAIN S : \A op, q : Has(U, i, op, q) <=> Has(S, i, op, q)
    BY <1>1 DEF Has
  <1>4. \A i \in DOMAIN U : \A op, q : Has(U, i, op, q) /\ op # "quads+" => i \in DOMAIN S
    BY <1>1 DEF Has
  <1>5. ChunksFirst(U, C)
    <2> SUFFICES ASSUME NEW i \in DOMAIN U, NEW q \in Quad, Has(U, i, "quads-", q),
                        ~Unchunked(q, C)
                 PROVE  \E j \in DOMAIN U : j < i /\ Has(U, j, "chunks-", q)
      BY DEF ChunksFirst
    <2>1. i \in DOMAIN S
      BY <1>4
    <2>2. PICK j \in DOMAIN S : j < i /\ Has(S, j, "chunks-", q)
      BY <1>3, <2>1 DEF Ordered, ChunksFirst
    <2> QED
      BY <1>1, <1>3, <2>2
  <1>6. VectorsFirst(U, C, V)
    <2> SUFFICES ASSUME NEW i \in DOMAIN U, NEW q \in Quad, Has(U, i, "chunks-", q),
                        ~Unseen(q, C, V)
                 PROVE  \E j \in DOMAIN U :
                           /\ j < i /\ Has(U, j, "vec-", q)
                           /\ \A k \in DOMAIN U : k < j => ~Has(U, k, "chunks-", q)
      BY DEF VectorsFirst
    <2>1. i \in DOMAIN S
      BY <1>4
    <2>2. PICK j \in DOMAIN S : /\ j < i /\ Has(S, j, "vec-", q)
                                /\ \A k \in DOMAIN S : k < j => ~Has(S, k, "chunks-", q)
      BY <1>3, <2>1 DEF Ordered, VectorsFirst
    <2>3. \A k \in DOMAIN U : k < j => ~Has(U, k, "chunks-", q)
      BY <1>3, <1>4, <2>2
    <2> QED
      BY <1>1, <1>3, <2>2, <2>3
  <1>7. InsertsLast(U)
    <2> SUFFICES ASSUME NEW i \in DOMAIN U, NEW j \in DOMAIN U, NEW q \in Quad,
                        Has(U, i, "quads-", q), Has(U, j, "quads+", q)
                 PROVE  i < j
      BY DEF InsertsLast
    <2>1. i \in DOMAIN S /\ i \in Nat /\ i <= n
      BY <1>1, <1>4
    <2>2. j \notin DOMAIN S
      BY <1>3 DEF Has
    <2>3. PICK k \in DOMAIN T : j = n + k
      BY <1>1, <2>2
    <2> QED
      BY <1>1, <2>1, <2>3
  <1> QED
    BY <1>1, <1>2, <1>5, <1>6, <1>7 DEF Ordered, U

\* What a commit stages when its lookups are over.
LEMMA StagedInOrder ==
    ASSUME NEW K, NEW C, NEW V, NEW S, Ordered(S, K, C, V),
           \A i \in DOMAIN S : S[i].op # "vec+" /\ S[i].op # "quads+",
           NEW B \in SUBSET K, ~Vectors => V = {}
    PROVE  LET U == S \o Insertions(B)
           IN  /\ Ordered(U, K, C, V)
               /\ \A i \in DOMAIN U : U[i].op # "vec+"
               /\ \A q \in B : \E i \in DOMAIN U : Has(U, i, "quads+", q)
  <1> DEFINE D == Deletions(B)
             I == NewRows(B)
  <1>0. B \in SUBSET Quad /\ S \in Seq(Statement)
    BY DEF Ordered
  <1>1. Sweeping(D, B) /\ D \in Seq(Statement)
    BY <1>0, DeletionsSweep DEF Sweeping
  <1>2. /\ I \in Seq(Statement)
        /\ \A i \in DOMAIN I : I[i].op = "quads+" /\ I[i].of \subseteq K
        /\ \A q \in B : \E i \in DOMAIN I : Has(I, i, "quads+", q)
    BY <1>0, NewRowsAre
  <1>3. S \o Insertions(B) = (S \o D) \o I
    <2>1. Insertions(B) = D \o I
      BY <1>0, InsertionsAre
    <2> HIDE DEF D, I
    <2>2. (S \o D) \o I = S \o (D \o I)
      BY <1>0, <1>1, <1>2, ConcatAssociative
    <2> QED
      BY <2>1, <2>2
  <1> HIDE DEF D, I
  <1>4. /\ Ordered(S \o D, K, C, V)
        /\ \A i \in DOMAIN (S \o D) : (S \o D)[i].op # "vec+" /\ (S \o D)[i].op # "quads+"
    BY <1>1, DeletionsBehind
  <1> DEFINE W == S \o D
  <1>5. Ordered(W, K, C, V) /\ \A i \in DOMAIN W : W[i].op # "vec+" /\ W[i].op # "quads+"
    BY <1>4
  <1> HIDE DEF W
  <1>6. /\ Ordered(W \o I, K, C, V)
        /\ \A i \in DOMAIN (W \o I) : (W \o I)[i].op # "vec+"
    BY <1>2, <1>5, RowsBehind
  <1>7. ASSUME NEW q \in B PROVE \E i \in DOMAIN (W \o I) : Has(W \o I, i, "quads+", q)
    <2>1. PICK i \in DOMAIN I : Has(I, i, "quads+", q)
      BY <1>2
    <2>2. W \in Seq(Statement)
      BY <1>5 DEF Ordered
    <2>3. Len(W) + i \in DOMAIN (W \o I) /\ (W \o I)[Len(W) + i] = I[i]
      BY <1>2, <2>2, ConcatHas
    <2> QED
      BY <2>1, <2>3 DEF Has
  <1> QED
    BY <1>3, <1>6, <1>7 DEF W

-----------------------------------------------------------------------------
\* The invariant.

\* Task t is in order, in the state.
TaskOrder(t) ==
    /\ InOrder(pc[t], staged[t], batch[t], todo[t], Concerns(t), quads, chunks, vec)
    /\ pc[t] = "wipe" => patch[t].replace
    /\ pc[t] \in {"page", "sweep"} => scan[t].on
    /\ pc[t] = "idle" => ~scan[t].on

\* The calls under way are about different quads.
Apart == \A t, u \in Task : t # u => Concerns(t) \cap Concerns(u) = {}

OrphanInv ==
    apart => Sound(quads, chunks, vec) /\ (\A t \in Task : TaskOrder(t)) /\ Apart

\* What a step of t leaves of the other tasks.
Others(t) ==
    /\ mode' = mode
    /\ \A u \in Task \ {t} :
          /\ pc'[u] = pc[u] /\ patch'[u] = patch[u] /\ scan'[u] = scan[u]
          /\ batch'[u] = batch[u] /\ todo'[u] = todo[u] /\ staged'[u] = staged[u]

\* What a step of t leaves of the tables.
Asides(t) ==
    \A K \in SUBSET Quad : K \cap Concerns(t) = {} =>
        Aside(K, quads, chunks, vec, quads', chunks', vec')

LEMMA OthersKeep ==
    ASSUME NEW t \in Task, Others(t), Asides(t), Apart, NEW u \in Task \ {t}, TaskOrder(u)
    PROVE  TaskOrder(u)' /\ Concerns(u)' = Concerns(u)
  <1>1. Concerns(u)' = Concerns(u)
    BY DEF Others, Concerns, Deferred
  <1>2. Concerns(u) \in SUBSET Quad
    BY DEF TaskOrder, InOrder, Ordered
  <1>3. Concerns(u) \cap Concerns(t) = {}
    BY DEF Apart
  <1>4. Aside(Concerns(u), quads, chunks, vec, quads', chunks', vec')
    BY <1>2, <1>3 DEF Asides
  <1>5. InOrder(pc[u], staged[u], batch[u], todo[u], Concerns(u), quads', chunks', vec')
    BY <1>4, AsideKeeps DEF TaskOrder
  <1> QED
    BY <1>1, <1>5 DEF TaskOrder, Others

\* What a step of t has to show.
Keeps(t) ==
    /\ Sound(quads', chunks', vec') /\ TaskOrder(t)' /\ Asides(t)
    /\ Concerns(t)' \subseteq Concerns(t)

LEMMA KeepsAll ==
    ASSUME apart, OrphanInv, NEW t \in Task, Others(t), Keeps(t)
    PROVE  OrphanInv'
  <1>1. \A u \in Task : TaskOrder(u)'
    BY OthersKeep DEF OrphanInv, Keeps
  <1>2. \A u \in Task \ {t} : Concerns(u)' = Concerns(u)
    BY OthersKeep DEF OrphanInv, Keeps
  <1>3. Apart'
    <2> SUFFICES ASSUME NEW u \in Task, NEW v \in Task, u # v
                 PROVE  Concerns(u)' \cap Concerns(v)' = {}
      BY DEF Apart
    <2>1. Concerns(u)' \subseteq Concerns(u) /\ Concerns(v)' \subseteq Concerns(v)
      BY <1>2 DEF Keeps
    <2>2. Concerns(u) \cap Concerns(v) = {}
      BY DEF OrphanInv, Apart
    <2> QED
      BY <2>1, <2>2
  <1> QED
    BY <1>1, <1>3 DEF OrphanInv, Keeps

\* Steps that leave the tables alone.
LEMMA KeepingAside ==
    ASSUME NEW t \in Task, UNCHANGED database
    PROVE  Asides(t) /\ (Sound(quads, chunks, vec) => Sound(quads', chunks', vec'))
  BY DEF Asides, Aside, database

\* A task that does nothing is in order.
LEMMA NothingOrdered ==
    ASSUME NEW K \in SUBSET Quad, NEW C, NEW V
    PROVE  Ordered(<<>>, K, C, V)
  BY EmptyIsSeq DEF Ordered, ChunksFirst, VectorsFirst, InsertsLast

LEMMA IdleInOrder ==
    ASSUME NEW Q, NEW C, NEW V
    PROVE  InOrder("idle", <<>>, {}, {}, {}, Q, C, V)
  <1>1. Ordered(<<>>, {}, C, V)
    BY NothingOrdered
  <1> QED
    BY <1>1, EmptyIsSeq DEF InOrder

LEMMA EndKeeps ==
    ASSUME TypeOK, NEW t \in Task, End(t)
    PROVE  TaskOrder(t)' /\ Concerns(t)' = {}
  <1>1. /\ pc'[t] = "idle" /\ staged'[t] = <<>> /\ batch'[t] = {} /\ todo'[t] = {}
        /\ ~scan'[t].on
    BY DEF TypeOK, End, NoScan
  <1>2. Concerns(t)' = {}
    BY <1>1 DEF Concerns
  <1>3. InOrder("idle", <<>>, {}, {}, {}, quads', chunks', vec')
    BY IdleInOrder
  <1> QED
    BY <1>1, <1>2, <1>3 DEF TaskOrder

\* The batch of a task in order lands.
LEMMA LandKeeps ==
    ASSUME TypeOK, NEW t \in Task, Sound(quads, chunks, vec), TaskOrder(t), Land(staged[t])
    PROVE  /\ Sound(quads', chunks', vec') /\ Asides(t)
           /\ Landed(staged[t], quads, chunks, vec, quads', chunks', vec')
  <1> DEFINE S == staged[t]
  <1>1. S \in Seq(Statement)
    BY DEF TypeOK
  <1>2. Landed(S, quads, chunks, vec, quads', chunks', vec')
    BY <1>1, LandMeans
  <1>3. InOrder(pc[t], S, batch[t], todo[t], Concerns(t), quads, chunks, vec)
    BY DEF TaskOrder
  <1>4. \A c \in chunks : c.quad \in Quad
    BY DEF TypeOK
  <1> HIDE DEF S
  <1>5. \A i \in DOMAIN S : S[i].op = "vec+" =>
           /\ Vectors
           /\ \A v \in S[i].of : \E c \in chunks : c.id = v
           /\ \A j \in DOMAIN S : S[j].op = "vec+"
    BY <1>3 DEF InOrder
  <1>6. Sound(quads', chunks', vec')
    BY <1>2, <1>3, <1>4, <1>5, LandSound DEF InOrder, Ordered
  <1>7. ASSUME NEW K \in SUBSET Quad, K \cap Concerns(t) = {}
        PROVE  Aside(K, quads, chunks, vec, quads', chunks', vec')
    <2> DEFINE J == Concerns(t)
    <2>1. \A i \in DOMAIN S : S[i].op # "vec+" => S[i].of \subseteq J
      BY <1>3 DEF InOrder, Ordered
    <2>2. \A i \in DOMAIN S : S[i].op = "vec+" =>
             \A v \in S[i].of : \E c \in chunks : c.id = v /\ c.quad \in J
      BY <1>3 DEF InOrder
    <2>3. J \cap K = {}
      BY <1>7
    <2> HIDE DEF J
    <2> QED
      BY <1>2, <2>1, <2>2, <2>3, LandAside
  <1> QED
    BY <1>2, <1>6, <1>7 DEF Asides, S

-----------------------------------------------------------------------------
\* The actions.

LEMMA EndOthers ==
    ASSUME TypeOK, NEW t \in Task, End(t), UNCHANGED mode
    PROVE  Others(t)
  BY DEF TypeOK, End, Others

LEMMA OthersSame ==
    ASSUME TypeOK, NEW t \in Task,
           \/ Step(t) \/ CallReindex(t) \/ \E p \in Patch[t] : CallCommit(t, p)
    PROVE  Others(t)
  <1>1. CASE Wipe(t)
    BY <1>1 DEF TypeOK, Others, Wipe, Go
  <1>2. CASE Lookup(t)
    BY <1>2 DEF TypeOK, Others, Lookup
  <1>3. CASE Stage(t)
    BY <1>3 DEF TypeOK, Others, Stage, Go
  <1>4. CASE Flush(t)
    <2>1. UNCHANGED mode /\ AfterFlush(t)
      BY <1>4 DEF Flush
    <2>2. CASE End(t)
      BY <2>1, <2>2, EndOthers
    <2>3. CASE /\ pc' = [pc EXCEPT ![t] = "embed"]
               /\ staged' = [staged EXCEPT ![t] = <<>>]
               /\ UNCHANGED <<patch, look, known, batch, todo, scan, start, landed, index>>
      BY <2>1, <2>3 DEF TypeOK, Others
    <2>4. CASE /\ pc' = [pc EXCEPT ![t] = "page"]
               /\ staged' = [staged EXCEPT ![t] = <<>>]
               /\ scan' = [scan EXCEPT ![t] = [NoScan EXCEPT !.on = TRUE]]
               /\ UNCHANGED <<patch, look, known, batch, todo, start, landed, index>>
      BY <2>1, <2>4 DEF TypeOK, Others
    <2> QED
      BY <2>1, <2>2, <2>3, <2>4 DEF AfterFlush
  <1>5. CASE CommitFails(t)
    BY <1>5, EndOthers DEF CommitFails
  <1>6. CASE Embed(t)
    BY <1>6 DEF TypeOK, Others, Embed, Go
  <1>7. CASE InsertChunk(t)
    <2>1. PICK c \in todo[t] : todo' = [todo EXCEPT ![t] = @ \ {c}]
      BY <1>7 DEF InsertChunk
    <2>2. /\ staged' = [staged EXCEPT ![t] = staged'[t]]
          /\ UNCHANGED <<mode, pc, patch, batch, scan>>
      BY <1>7 DEF TypeOK, InsertChunk
    <2> QED
      BY <2>1, <2>2 DEF TypeOK, Others
  <1>8. CASE FlushVec(t)
    <2>1. UNCHANGED mode
      BY <1>8 DEF FlushVec
    <2>2. CASE End(t)
      BY <2>1, <2>2, EndOthers
    <2>3. CASE /\ pc' = [pc EXCEPT ![t] = "page"]
               /\ batch' = [batch EXCEPT ![t] = {}]
               /\ staged' = [staged EXCEPT ![t] = <<>>]
               /\ UNCHANGED <<patch, look, known, todo, scan, start, landed, index>>
      BY <2>1, <2>3 DEF TypeOK, Others
    <2> QED
      BY <1>8, <2>2, <2>3 DEF FlushVec, RebuildEnds
  <1>9. CASE ProjectionFails(t)
    <2>1. UNCHANGED mode
      BY <1>9 DEF ProjectionFails
    <2>2. CASE End(t)
      BY <2>1, <2>2, EndOthers
    <2>3. CASE /\ pc' = [pc EXCEPT ![t] = "cleanup"]
               /\ todo' = [todo EXCEPT ![t] = {}]
               /\ staged' = [staged EXCEPT ![t] = Deletions(batch[t])]
               /\ UNCHANGED <<patch, look, known, batch, scan, start, landed, index>>
      BY <2>1, <2>3 DEF TypeOK, Others
    <2> QED
      BY <1>9, <2>2, <2>3 DEF ProjectionFails
  <1>10. CASE Cleanup(t) \/ CleanupFails(t) \/ RebuildFails(t)
    BY <1>10, EndOthers DEF Cleanup, CleanupFails, RebuildFails
  <1>11. CASE Page(t)
    <2>1. UNCHANGED mode
      BY <1>11 DEF Page
    <2>2. CASE End(t)
      BY <2>1, <2>2, EndOthers
    <2>3. CASE \E P, R, A \in {batch'[t], staged'[t], scan'[t]} :
                  /\ pc' = [pc EXCEPT ![t] = "sweep"]
                  /\ batch' = [batch EXCEPT ![t] = P]
                  /\ staged' = [staged EXCEPT ![t] = R]
                  /\ scan' = [scan EXCEPT ![t] = A]
                  /\ UNCHANGED <<patch, todo>>
      BY <2>1, <2>3 DEF TypeOK, Others
    <2>4. CASE \E a : /\ scan' = [scan EXCEPT ![t].anchor = a]
                      /\ UNCHANGED <<pc, patch, batch, todo, staged>>
      BY <2>1, <2>4 DEF TypeOK, Others
    <2> QED
      BY <1>11, <2>2, <2>3, <2>4 DEF Page, RebuildEnds, TypeOK
  <1>12. CASE Sweep(t)
    BY <1>12 DEF TypeOK, Others, Sweep, Go
  <1>13. CASE FlushEarly(t)
    <2>1. /\ staged' = [staged EXCEPT ![t] = staged'[t]]
          /\ UNCHANGED <<mode, pc, patch, batch, scan, todo>>
      BY <1>13 DEF TypeOK, FlushEarly
    <2> QED
      BY <2>1 DEF TypeOK, Others
  <1>14. CASE CallReindex(t)
    BY <1>14 DEF TypeOK, Others, CallReindex, Go
  <1>15. ASSUME NEW p \in Patch[t], CallCommit(t, p) PROVE Others(t)
    <2> DEFINE q == [p EXCEPT !.ins = @ \cap Scope, !.del = @ \cap Scope]
               first == IF p.replace THEN "wipe" ELSE "lookup"
               S == IF p.replace THEN <<>> ELSE Deletions(q.del)
    <2>1. /\ pc' = [pc EXCEPT ![t] = first]
          /\ patch' = [patch EXCEPT ![t] = q]
          /\ staged' = [staged EXCEPT ![t] = S]
          /\ UNCHANGED <<mode, batch, todo, scan>>
      BY <1>15 DEF CallCommit, Go
    <2> HIDE DEF q, first, S
    <2> QED
      BY <2>1 DEF TypeOK, Others
  <1> QED
    BY <1>1, <1>2, <1>3, <1>4, <1>5, <1>6, <1>7, <1>8, <1>9, <1>10, <1>11, <1>12, <1>13,
       <1>14, <1>15 DEF Step

LEMMA ConcernsSame ==
    ASSUME NEW t \in Task, pc[t] # "idle", pc'[t] # "idle", UNCHANGED mode,
           patch'[t] = patch[t], scan'[t].on = scan[t].on
    PROVE  Concerns(t)' = Concerns(t)
  BY DEF Concerns, Deferred

\* Calls that end, with their tables kept or their batch landed.
LEMMA EndingKeeps ==
    ASSUME TypeOK, NEW t \in Task, Sound(quads, chunks, vec), TaskOrder(t), End(t),
           UNCHANGED database \/ Land(staged[t])
    PROVE  Keeps(t)
  <1>1. TaskOrder(t)' /\ Concerns(t)' = {}
    BY EndKeeps
  <1>2. Sound(quads', chunks', vec') /\ Asides(t)
    BY KeepingAside, LandKeeps
  <1> QED
    BY <1>1, <1>2 DEF Keeps

LEMMA WipeKeeps ==
    ASSUME TypeOK, NEW t \in Task, TaskOrder(t), Wipe(t)
    PROVE  Keeps(t)
  <1> DEFINE S == Deletions(patch[t].del)
             K == Concerns(t)
  <1>1. /\ pc[t] = "wipe" /\ pc'[t] = "lookup"
        /\ staged'[t] = S /\ batch'[t] = batch[t] /\ todo'[t] = todo[t]
        /\ patch'[t] = patch[t] /\ scan'[t] = scan[t] /\ UNCHANGED mode
        /\ quads' = {} /\ chunks' = {} /\ vec' = {}
    BY DEF Wipe, Go, TypeOK
  <1>2. K = Quad
    BY <1>1 DEF TaskOrder, Concerns
  <1>3. Concerns(t)' = K
    BY <1>1, ConcernsSame
  <1>4. patch[t].del \in SUBSET K
    BY <1>2 DEF TypeOK, PatchType
  <1>5. Sweeping(S, patch[t].del) /\ K \in SUBSET Quad
    BY <1>2, <1>4, DeletionsSweep
  <1> HIDE DEF S, K
  <1>6. /\ Ordered(S, K, {}, {})
        /\ \A i \in DOMAIN S : S[i].op # "vec+" /\ S[i].op # "quads+"
    BY <1>4, <1>5, SweepingOrdered
  <1>7. InOrder(pc[t], staged[t], batch[t], todo[t], K, quads, chunks, vec)
    BY DEF TaskOrder, K
  <1>8. InOrder("lookup", S, batch[t], todo[t], K, {}, {}, {})
    BY <1>1, <1>6, <1>7 DEF InOrder
  <1>9. TaskOrder(t)'
    BY <1>1, <1>3, <1>8 DEF TaskOrder
  <1>10. Sound(quads', chunks', vec')
    BY <1>1 DEF Sound
  <1>11. Asides(t)
    <2> SUFFICES ASSUME NEW J \in SUBSET Quad, J \cap Concerns(t) = {}
                 PROVE  Aside(J, quads, chunks, vec, quads', chunks', vec')
      BY DEF Asides
    <2>1. J = {}
      BY <1>2 DEF K
    <2> QED
      BY <2>1 DEF Aside
  <1> QED
    BY <1>3, <1>9, <1>10, <1>11 DEF Keeps, K

LEMMA LookupKeeps ==
    ASSUME TypeOK, NEW t \in Task, Sound(quads, chunks, vec), TaskOrder(t), Lookup(t)
    PROVE  Keeps(t)
  <1>1. UNCHANGED <<quads, chunks, vec, mode, pc, patch, batch, todo, staged, scan>>
    BY DEF Lookup, database
  <1>2. Concerns(t)' = Concerns(t)
    BY <1>1 DEF Concerns, Deferred
  <1>3. TaskOrder(t)'
    BY <1>1, <1>2 DEF TaskOrder
  <1> QED
    BY <1>1, <1>2, <1>3, KeepingAside DEF Keeps, database

LEMMA StageKeeps ==
    ASSUME TypeOK, NEW t \in Task, Sound(quads, chunks, vec), TaskOrder(t), Stage(t)
    PROVE  Keeps(t)
  <1> DEFINE S == staged[t]
             B == Novel(t)
             K == Concerns(t)
             U == S \o Insertions(B)
  <1>1. /\ pc[t] = "lookup" /\ pc'[t] = "flush"
        /\ staged'[t] = U /\ batch'[t] = B /\ todo'[t] = todo[t]
        /\ patch'[t] = patch[t] /\ scan'[t] = scan[t]
        /\ UNCHANGED <<quads, chunks, vec, mode>>
    BY DEF Stage, Go, TypeOK, database
  <1>2. Concerns(t)' = K
    BY <1>1, ConcernsSame
  <1>3. B \in SUBSET K
    <2>1. patch[t].ins \subseteq Quad
      BY DEF TypeOK, PatchType
    <2> QED
      BY <1>1, <2>1 DEF Novel, Concerns
  <1>4. InOrder("lookup", S, batch[t], todo[t], K, quads, chunks, vec)
    BY <1>1 DEF TaskOrder
  <1> HIDE DEF S, B, K, U
  <1>5. /\ Ordered(S, K, chunks, vec)
        /\ \A i \in DOMAIN S : S[i].op # "vec+" /\ S[i].op # "quads+"
        /\ todo[t] = {}
    BY <1>4 DEF InOrder
  <1>6. ~Vectors => vec = {}
    BY DEF Sound
  <1>7. /\ Ordered(U, K, chunks, vec)
        /\ \A i \in DOMAIN U : U[i].op # "vec+"
        /\ \A q \in B : \E i \in DOMAIN U : Has(U, i, "quads+", q)
    BY <1>3, <1>5, <1>6, StagedInOrder DEF U
  <1>8. InOrder("flush", U, B, todo[t], K, quads, chunks, vec)
    BY <1>3, <1>5, <1>7 DEF InOrder
  <1>9. TaskOrder(t)'
    BY <1>1, <1>2, <1>8 DEF TaskOrder
  <1>10. UNCHANGED database
    BY <1>1 DEF database
  <1> QED
    BY <1>2, <1>9, <1>10, KeepingAside DEF Keeps, K

LEMMA EmbedKeeps ==
    ASSUME TypeOK, NEW t \in Task, Sound(quads, chunks, vec), TaskOrder(t), Embed(t)
    PROVE  Keeps(t)
  <1> DEFINE all == UNION {{q} \X (1..Parts[q]) : q \in batch[t]}
             K == Concerns(t)
  <1>1. /\ pc[t] = "embed" /\ pc'[t] = "insert"
        /\ staged'[t] = staged[t] /\ batch'[t] = batch[t] /\ todo'[t] = all
        /\ patch'[t] = patch[t] /\ scan'[t] = scan[t]
        /\ UNCHANGED <<quads, chunks, vec, mode>>
    BY DEF Embed, Go, TypeOK, database
  <1>2. Concerns(t)' = K
    BY <1>1, ConcernsSame
  <1>3. \A c \in all : c[1] \in batch[t]
    OBVIOUS
  <1>4. InOrder("embed", staged[t], batch[t], todo[t], K, quads, chunks, vec)
    BY <1>1 DEF TaskOrder
  <1> HIDE DEF all, K
  <1>5. InOrder("insert", staged[t], batch[t], all, K, quads, chunks, vec)
    BY <1>3, <1>4 DEF InOrder
  <1>6. TaskOrder(t)'
    BY <1>1, <1>2, <1>5 DEF TaskOrder
  <1>7. UNCHANGED database
    BY <1>1 DEF database
  <1> QED
    BY <1>2, <1>6, <1>7, KeepingAside DEF Keeps, K

LEMMA InsertChunkKeeps ==
    ASSUME TypeInv, NEW t \in Task, Sound(quads, chunks, vec), TaskOrder(t), InsertChunk(t)
    PROVE  Keeps(t)
  <1> DEFINE S == staged[t]
             B == batch[t]
             K == Concerns(t)
             T == IF Vectors THEN Append(S, NewVector) ELSE S
  <1>0. TypeOK /\ FreshId \in Nat /\ FreshId \notin Ids(chunks)
    BY FreshIdIsFresh DEF TypeInv, UsedIds
  <1>1. PICK c \in todo[t] :
           /\ chunks' = chunks \cup {[id |-> FreshId, quad |-> c[1], part |-> c[2]]}
           /\ todo' = [todo EXCEPT ![t] = @ \ {c}]
    BY DEF InsertChunk
  <1>2. /\ staged'[t] = T /\ todo'[t] \subseteq todo[t]
        /\ pc[t] = "insert" /\ pc'[t] = "insert" /\ batch'[t] = B
        /\ patch'[t] = patch[t] /\ scan'[t] = scan[t]
        /\ UNCHANGED <<quads, vec, mode>>
    BY <1>0, <1>1 DEF InsertChunk, TypeOK, NewVector
  <1>3. Concerns(t)' = K
    BY <1>2, ConcernsSame
  <1>4. InOrder("insert", S, B, todo[t], K, quads, chunks, vec)
    BY <1>2 DEF TaskOrder
  <1> DEFINE n == [id |-> FreshId, quad |-> c[1], part |-> c[2]]
  <1>5. c[1] \in B /\ c[1] \in quads /\ B \subseteq K
    BY <1>4 DEF InOrder
  <1>6. n.id = FreshId /\ n.quad = c[1] /\ \A d \in chunks : d.id # FreshId
    BY <1>0 DEF Ids
  <1>7. chunks' = chunks \cup {n}
    BY <1>1
  <1> HIDE DEF n
  <1>8. Sound(quads', chunks', vec')
    <2>1. \A d \in chunks' : d.quad \in quads'
      BY <1>2, <1>5, <1>6, <1>7 DEF Sound
    <2>2. \A v \in vec' : \E d \in chunks' : d.id = v
      BY <1>2, <1>7 DEF Sound
    <2>3. \A d, e \in chunks' : d.id = e.id => d = e
      BY <1>6, <1>7 DEF Sound
    <2> QED
      BY <1>2, <2>1, <2>2, <2>3 DEF Sound
  <1>9. Asides(t)
    <2> SUFFICES ASSUME NEW J \in SUBSET Quad, J \cap Concerns(t) = {}
                 PROVE  Aside(J, quads, chunks, vec, quads', chunks', vec')
      BY DEF Asides
    <2>1. n.quad \notin J
      BY <1>5, <1>6
    <2> QED
      BY <1>2, <1>7, <2>1 DEF Aside
  <1>10. S \in Seq(Statement) /\ NewVector \in Statement
    BY <1>0 DEF TypeOK, NewVector, Statement
  <1> HIDE DEF S, B, K
  <1>11. /\ T \in Seq(Statement)
         /\ \A i \in DOMAIN T : \/ i \in DOMAIN S /\ T[i] = S[i]
                                \/ T[i] = NewVector /\ Vectors
    <2>1. CASE ~Vectors
      BY <1>10, <2>1
    <2>2. CASE Vectors
      <3>1. /\ Append(S, NewVector) \in Seq(Statement)
            /\ DOMAIN Append(S, NewVector) = 1..(Len(S) + 1) /\ DOMAIN S = 1..Len(S) /\ Len(S) \in Nat
            /\ \A i \in 1..Len(S) : Append(S, NewVector)[i] = S[i]
            /\ Append(S, NewVector)[Len(S) + 1] = NewVector
        BY <1>10, Appended
      <3>2. ASSUME NEW i \in 1..(Len(S) + 1)
            PROVE  i \in 1..Len(S) \/ i = Len(S) + 1
        BY <3>1
      <3> QED
        BY <2>2, <3>1, <3>2
    <2> QED
      BY <2>1, <2>2
  <1> HIDE DEF T
  <1>12. \A i \in DOMAIN T : /\ T[i].op = "vec+" /\ Vectors
                             /\ \A v \in T[i].of : \E d \in chunks' : d.id = v /\ d.quad \in B
    <2> SUFFICES ASSUME NEW i \in DOMAIN T
                 PROVE  /\ T[i].op = "vec+" /\ Vectors
                        /\ \A v \in T[i].of : \E d \in chunks' : d.id = v /\ d.quad \in B
      OBVIOUS
    <2>1. CASE i \in DOMAIN S /\ T[i] = S[i]
      BY <1>4, <1>7, <2>1 DEF InOrder
    <2>2. CASE T[i] = NewVector /\ Vectors
      <3>1. n \in chunks' /\ n.quad \in B /\ n.id = FreshId
        BY <1>5, <1>6, <1>7
      <3> QED
        BY <2>2, <3>1 DEF NewVector
    <2> QED
      BY <1>11, <2>1, <2>2
  <1>13. Ordered(T, K, chunks', vec')
    <2>1. K \subseteq Quad
      BY <1>4 DEF InOrder, Ordered
    <2>2. \A i \in DOMAIN T : \A op, q : Has(T, i, op, q) => op = "vec+"
      BY <1>12 DEF Has
    <2>3. ChunksFirst(T, chunks') /\ VectorsFirst(T, chunks', vec') /\ InsertsLast(T)
      BY <2>2 DEF ChunksFirst, VectorsFirst, InsertsLast
    <2> QED
      BY <1>11, <1>12, <2>1, <2>3 DEF Ordered
  <1>14. InOrder("insert", T, B, todo'[t], K, quads', chunks', vec')
    BY <1>2, <1>4, <1>12, <1>13 DEF InOrder
  <1>15. TaskOrder(t)'
    BY <1>2, <1>3, <1>14 DEF TaskOrder
  <1> QED
    BY <1>3, <1>8, <1>9, <1>15 DEF Keeps, K

LEMMA FlushVecKeeps ==
    ASSUME TypeOK, NEW t \in Task, Sound(quads, chunks, vec), TaskOrder(t), FlushVec(t)
    PROVE  Keeps(t)
  <1>1. Land(staged[t]) /\ UNCHANGED mode /\ pc[t] = "insert" /\ todo[t] = {}
    BY DEF FlushVec, FlushRest
  <1>2. CASE End(t)
    BY <1>1, <1>2, EndingKeeps
  <1>3. CASE /\ scan[t].on
             /\ pc' = [pc EXCEPT ![t] = "page"]
             /\ batch' = [batch EXCEPT ![t] = {}]
             /\ staged' = [staged EXCEPT ![t] = <<>>]
             /\ UNCHANGED <<patch, look, known, todo, scan, start, landed, index>>
    <2>1. /\ pc'[t] = "page" /\ batch'[t] = {} /\ staged'[t] = <<>> /\ todo'[t] = {}
          /\ patch'[t] = patch[t] /\ scan'[t] = scan[t] /\ scan'[t].on
      BY <1>1, <1>3 DEF TypeOK
    <2>2. Concerns(t)' = Concerns(t)
      BY <1>1, <2>1, ConcernsSame
    <2>3. Concerns(t) \in SUBSET Quad
      BY DEF TaskOrder, InOrder, Ordered
    <2>4. InOrder("page", <<>>, {}, {}, Concerns(t), quads', chunks', vec')
      BY <2>3, NothingOrdered, EmptyIsSeq DEF InOrder
    <2>5. TaskOrder(t)'
      BY <2>1, <2>2, <2>4 DEF TaskOrder
    <2> QED
      BY <1>1, <2>2, <2>5, LandKeeps DEF Keeps
  <1> QED
    BY <1>2, <1>3 DEF FlushVec, RebuildEnds

LEMMA FlushKeeps ==
    ASSUME TypeOK, NEW t \in Task, Sound(quads, chunks, vec), TaskOrder(t), Flush(t)
    PROVE  Keeps(t)
  <1>1. Land(staged[t]) /\ AfterFlush(t) /\ UNCHANGED mode /\ pc[t] = "flush"
    BY DEF Flush, FlushRest
  <1>2. /\ Sound(quads', chunks', vec') /\ Asides(t)
        /\ Landed(staged[t], quads, chunks, vec, quads', chunks', vec')
    BY <1>1, LandKeeps
  <1>3. InOrder("flush", staged[t], batch[t], todo[t], Concerns(t), quads, chunks, vec)
    BY <1>1 DEF TaskOrder
  <1>4. Concerns(t) \in SUBSET Quad /\ batch[t] \subseteq Concerns(t) /\ todo[t] = {}
    BY <1>3 DEF InOrder, Ordered
  <1>5. batch[t] \subseteq quads'
    BY <1>2, <1>3 DEF InOrder, Landed
  <1>6. CASE End(t)
    BY <1>1, <1>6, EndingKeeps
  <1>7. CASE /\ pc' = [pc EXCEPT ![t] = "embed"]
             /\ staged' = [staged EXCEPT ![t] = <<>>]
             /\ UNCHANGED <<patch, look, known, batch, todo, scan, start, landed, index>>
    <2>1. /\ pc'[t] = "embed" /\ batch'[t] = batch[t] /\ staged'[t] = <<>> /\ todo'[t] = {}
          /\ patch'[t] = patch[t] /\ scan'[t] = scan[t]
      BY <1>4, <1>7 DEF TypeOK
    <2>2. Concerns(t)' = Concerns(t)
      BY <1>1, <2>1, ConcernsSame
    <2>3. InOrder("embed", <<>>, batch[t], {}, Concerns(t), quads', chunks', vec')
      BY <1>4, <1>5, NothingOrdered, EmptyIsSeq DEF InOrder
    <2>4. TaskOrder(t)'
      BY <2>1, <2>2, <2>3 DEF TaskOrder
    <2> QED
      BY <1>2, <2>2, <2>4 DEF Keeps
  <1>8. CASE /\ Deferred(t)
             /\ pc' = [pc EXCEPT ![t] = "page"]
             /\ staged' = [staged EXCEPT ![t] = <<>>]
             /\ scan' = [scan EXCEPT ![t] = [NoScan EXCEPT !.on = TRUE]]
             /\ UNCHANGED <<patch, look, known, batch, todo, start, landed, index>>
    <2>1. /\ pc'[t] = "page" /\ batch'[t] = batch[t] /\ staged'[t] = <<>> /\ todo'[t] = {}
          /\ patch'[t] = patch[t] /\ scan'[t].on
      BY <1>4, <1>8 DEF TypeOK, NoScan
    <2>2. Concerns(t)' = Quad /\ Concerns(t) = Quad
      BY <1>1, <1>8, <2>1 DEF Concerns
    <2>3. InOrder("page", <<>>, batch[t], {}, Concerns(t), quads', chunks', vec')
      BY <1>4, NothingOrdered, EmptyIsSeq DEF InOrder
    <2>4. TaskOrder(t)'
      BY <2>1, <2>2, <2>3 DEF TaskOrder
    <2> QED
      BY <1>2, <2>2, <2>4 DEF Keeps
  <1> QED
    BY <1>1, <1>6, <1>7, <1>8 DEF AfterFlush

LEMMA ProjectionFailsKeeps ==
    ASSUME TypeOK, NEW t \in Task, Sound(quads, chunks, vec), TaskOrder(t), ProjectionFails(t)
    PROVE  Keeps(t)
  <1>1. UNCHANGED database /\ UNCHANGED mode /\ pc[t] # "idle"
    BY DEF ProjectionFails
  <1>2. CASE End(t)
    BY <1>1, <1>2, EndingKeeps
  <1>3. CASE /\ pc' = [pc EXCEPT ![t] = "cleanup"]
             /\ todo' = [todo EXCEPT ![t] = {}]
             /\ staged' = [staged EXCEPT ![t] = Deletions(batch[t])]
             /\ UNCHANGED <<patch, look, known, batch, scan, start, landed, index>>
    <2> DEFINE S == Deletions(batch[t])
               K == Concerns(t)
    <2>1. /\ pc'[t] = "cleanup" /\ batch'[t] = batch[t] /\ staged'[t] = S /\ todo'[t] = {}
          /\ patch'[t] = patch[t] /\ scan'[t] = scan[t]
      BY <1>3 DEF TypeOK
    <2>2. Concerns(t)' = Concerns(t)
      BY <1>1, <2>1, ConcernsSame
    <2>3. K \in SUBSET Quad /\ batch[t] \in SUBSET K /\ batch[t] \in SUBSET Quad
      BY DEF TaskOrder, InOrder, Ordered
    <2>4. Sweeping(S, batch[t])
      BY <2>3, DeletionsSweep
    <2>5. ~Vectors => vec = {}
      BY DEF Sound
    <2> HIDE DEF S, K
    <2>6. Ordered(S, K, chunks, vec) /\ \A i \in DOMAIN S : S[i].op # "vec+" /\ S[i].op # "quads+"
      BY <2>3, <2>4, <2>5, SweepingOrdered
    <2>7. InOrder("cleanup", S, batch[t], {}, K, quads, chunks, vec)
      BY <2>3, <2>6 DEF InOrder
    <2>8. TaskOrder(t)'
      BY <1>1, <2>1, <2>2, <2>7 DEF TaskOrder, K, database
    <2> QED
      BY <1>1, <2>2, <2>8, KeepingAside DEF Keeps
  <1> QED
    BY <1>2, <1>3 DEF ProjectionFails

LEMMA PageKeeps ==
    ASSUME TypeOK, NEW t \in Task, Sound(quads, chunks, vec), TaskOrder(t), Page(t)
    PROVE  Keeps(t)
  <1> DEFINE a == scan[t].anchor
             rows == PageAfter(quads, a, PageSize)
             last == Cardinality(rows) < PageSize
             fresh == rows \cap Scope
             next == AnchorAfter(rows, a)
             K == Concerns(t)
  <1>1. UNCHANGED database /\ UNCHANGED mode /\ pc[t] = "page"
    BY DEF Page
  <1>2. scan[t].on /\ K = Quad
    BY <1>1 DEF TaskOrder, Concerns
  <1>3. fresh \in SUBSET Quad /\ fresh \subseteq quads
    <2>1. a \in Nat
      BY DEF TypeOK
    <2>2. rows \in SUBSET Quad
      BY <2>1, AnchorTypes
    <2>3. rows \subseteq quads
      BY DEF PageAfter, FirstOf
    <2> QED
      BY <2>2, <2>3
  <1>4. InOrder("page", staged[t], batch[t], todo[t], K, quads, chunks, vec)
    BY <1>1 DEF TaskOrder
  <1>5. CASE fresh # {}
    <2> DEFINE S == ChunkDeletions(fresh)
               at == [on |-> TRUE, anchor |-> next, last |-> last]
    <2>1. /\ pc' = [pc EXCEPT ![t] = "sweep"]
          /\ batch' = [batch EXCEPT ![t] = fresh]
          /\ staged' = [staged EXCEPT ![t] = S]
          /\ scan' = [scan EXCEPT ![t] = at]
          /\ UNCHANGED <<patch, look, known, todo, start, landed, index>>
      BY <1>5 DEF Page
    <2>2. Sweeping(S, fresh) /\ \A i \in DOMAIN S : S[i].op # "quads-"
      BY <1>3, DeletionsSweep
    <2>3. at.on
      OBVIOUS
    <2>4. todo[t] = {}
      BY <1>4 DEF InOrder
    <2>5. ~Vectors => vec = {}
      BY DEF Sound
    <2> HIDE DEF S, at, fresh
    <2>6. /\ pc'[t] = "sweep" /\ batch'[t] = fresh /\ staged'[t] = S /\ todo'[t] = {}
          /\ patch'[t] = patch[t] /\ scan'[t] = at
      BY <2>1, <2>4 DEF TypeOK
    <2>7. Concerns(t)' = K
      BY <1>1, <1>2, <2>3, <2>6, ConcernsSame
    <2> HIDE DEF K
    <2>8. Ordered(S, K, chunks, vec) /\ \A i \in DOMAIN S : S[i].op # "vec+" /\ S[i].op # "quads+"
      BY <1>2, <1>3, <2>2, <2>5, SweepingOrdered
    <2>9. InOrder("sweep", S, fresh, {}, K, quads, chunks, vec)
      BY <1>2, <1>3, <2>2, <2>8 DEF InOrder
    <2>10. TaskOrder(t)'
      BY <1>1, <2>3, <2>6, <2>7, <2>9 DEF TaskOrder, database
    <2> QED
      BY <1>1, <2>7, <2>10, KeepingAside DEF Keeps, K
  <1>6. CASE ~(fresh # {}) /\ last
    <2>1. End(t)
      BY <1>6 DEF Page, RebuildEnds
    <2> QED
      BY <1>1, <2>1, EndingKeeps
  <1>7. CASE ~(fresh # {}) /\ ~last
    <2>1. /\ scan' = [scan EXCEPT ![t].anchor = next]
          /\ UNCHANGED <<pc, patch, look, known, batch, todo, staged, start, landed, index>>
      BY <1>7 DEF Page
    <2> HIDE DEF next, fresh, K
    <2>2. scan'[t].on = scan[t].on
      BY <2>1 DEF TypeOK
    <2>3. Concerns(t)' = K
      BY <1>1, <2>1, <2>2, ConcernsSame DEF K
    <2>4. TaskOrder(t)'
      BY <1>1, <1>2, <1>4, <2>1, <2>2, <2>3 DEF TaskOrder, database
    <2> QED
      BY <1>1, <2>3, <2>4, KeepingAside DEF Keeps, K
  <1> QED
    BY <1>5, <1>6, <1>7

LEMMA SweepKeeps ==
    ASSUME TypeOK, NEW t \in Task, Sound(quads, chunks, vec), TaskOrder(t), Sweep(t)
    PROVE  Keeps(t)
  <1>1. /\ Land(staged[t]) /\ pc[t] = "sweep" /\ UNCHANGED mode
        /\ pc'[t] = "embed" /\ staged'[t] = <<>> /\ batch'[t] = batch[t] /\ todo'[t] = todo[t]
        /\ patch'[t] = patch[t] /\ scan'[t] = scan[t]
    BY DEF Sweep, FlushRest, Go, TypeOK
  <1>2. /\ Sound(quads', chunks', vec') /\ Asides(t)
        /\ Landed(staged[t], quads, chunks, vec, quads', chunks', vec')
    BY <1>1, LandKeeps
  <1>3. InOrder("sweep", staged[t], batch[t], todo[t], Concerns(t), quads, chunks, vec)
    BY <1>1 DEF TaskOrder
  <1>4. Concerns(t) \in SUBSET Quad /\ batch[t] \subseteq Concerns(t) /\ todo[t] = {}
    BY <1>3 DEF InOrder, Ordered
  <1>5. batch[t] \subseteq quads'
    BY <1>2, <1>3 DEF InOrder, Landed, Has
  <1>6. Concerns(t)' = Concerns(t)
    BY <1>1, ConcernsSame
  <1>7. InOrder("embed", <<>>, batch[t], {}, Concerns(t), quads', chunks', vec')
    BY <1>4, <1>5, NothingOrdered, EmptyIsSeq DEF InOrder
  <1>8. TaskOrder(t)'
    BY <1>1, <1>4, <1>6, <1>7 DEF TaskOrder
  <1> QED
    BY <1>2, <1>6, <1>8 DEF Keeps

LEMMA FlushEarlyKeeps ==
    ASSUME TypeOK, NEW t \in Task, Sound(quads, chunks, vec), TaskOrder(t), FlushEarly(t)
    PROVE  Keeps(t)
  <1> DEFINE S == staged[t]
             P == SubSeq(S, 1, Threshold)
             R == SubSeq(S, Threshold + 1, Len(S))
             J == Concerns(t)
  <1>1. /\ Land(P) /\ Len(S) >= Threshold /\ UNCHANGED mode /\ pc[t] # "idle"
        /\ pc'[t] = pc[t] /\ staged'[t] = R /\ batch'[t] = batch[t] /\ todo'[t] = todo[t]
        /\ patch'[t] = patch[t] /\ scan'[t] = scan[t]
    BY DEF FlushEarly, TypeOK
  <1>2. Concerns(t)' = J
    BY <1>1, ConcernsSame
  <1>3. S \in Seq(Statement)
    BY DEF TypeOK
  <1>4. InOrder(pc[t], S, batch[t], todo[t], J, quads, chunks, vec)
    BY DEF TaskOrder
  <1> HIDE DEF S, J
  <1>5. Split(S, Threshold, P, R)
    <2>1. /\ P \in Seq(Statement) /\ R \in Seq(Statement)
          /\ DOMAIN P = 1..Threshold /\ DOMAIN R = 1..(Len(S) - Threshold)
          /\ \A i \in 1..Threshold : P[i] = S[i]
          /\ \A i \in 1..(Len(S) - Threshold) : R[i] = S[Threshold + i]
          /\ DOMAIN S = 1..Len(S) /\ Len(S) \in Nat /\ Threshold \in Nat
      BY <1>1, <1>3, Parting
    <2>2. Threshold <= Len(S)
      BY <1>1, <2>1
    <2> HIDE DEF P, R
    <2> QED
      BY <2>1, <2>2 DEF Split
  <1> HIDE DEF P, R
  <1>6. P \in Seq(Statement)
    BY <1>5 DEF Split
  <1>7. Landed(P, quads, chunks, vec, quads', chunks', vec')
    BY <1>1, <1>6, LandMeans
  <1>8. InOrder(pc[t], R, batch[t], todo[t], J, quads', chunks', vec')
    BY <1>4, <1>5, <1>7, RestInOrder
  <1>9. TaskOrder(t)'
    BY <1>1, <1>2, <1>8 DEF TaskOrder
  <1>10. \A i \in DOMAIN P : P[i].op = "vec+" =>
            /\ Vectors
            /\ \A v \in P[i].of : \E c \in chunks : c.id = v /\ c.quad \in J
            /\ \A j \in DOMAIN P : P[j].op = "vec+"
    BY <1>4, <1>5, SplitHas DEF InOrder
  <1>11. Sound(quads', chunks', vec')
    <2>1. ChunksFirst(P, chunks) /\ VectorsFirst(P, chunks, vec)
      BY <1>4, <1>5, FirstPartOrdered DEF InOrder, Ordered
    <2>2. \A c \in chunks : c.quad \in Quad
      BY DEF TypeOK
    <2> QED
      BY <1>7, <1>10, <2>1, <2>2, LandSound
  <1>12. ASSUME NEW K \in SUBSET Quad, K \cap Concerns(t) = {}
         PROVE  Aside(K, quads, chunks, vec, quads', chunks', vec')
    <2>1. \A i \in DOMAIN P : P[i].op # "vec+" => P[i].of \subseteq J
      BY <1>4, <1>5, SplitHas DEF InOrder, Ordered
    <2>2. J \cap K = {}
      BY <1>12 DEF J
    <2>3. \A i \in DOMAIN P : P[i].op = "vec+" =>
             \A v \in P[i].of : \E c \in chunks : c.id = v /\ c.quad \in J
      BY <1>10
    <2> QED
      BY <1>7, <2>1, <2>2, <2>3, LandAside
  <1> QED
    BY <1>2, <1>9, <1>11, <1>12 DEF Keeps, Asides, J

LEMMA StepKeeps ==
    ASSUME TypeInv, NEW t \in Task, Sound(quads, chunks, vec), TaskOrder(t), Step(t)
    PROVE  Keeps(t)
  <1>1. TypeOK
    BY DEF TypeInv
  <1>2. CASE Wipe(t)
    BY <1>1, <1>2, WipeKeeps
  <1>3. CASE Lookup(t)
    BY <1>1, <1>3, LookupKeeps
  <1>4. CASE Stage(t)
    BY <1>1, <1>4, StageKeeps
  <1>5. CASE Flush(t)
    BY <1>1, <1>5, FlushKeeps
  <1>6. CASE CommitFails(t)
    BY <1>1, <1>6, EndingKeeps DEF CommitFails
  <1>7. CASE Embed(t)
    BY <1>1, <1>7, EmbedKeeps
  <1>8. CASE InsertChunk(t)
    BY <1>8, InsertChunkKeeps
  <1>9. CASE FlushVec(t)
    BY <1>1, <1>9, FlushVecKeeps
  <1>10. CASE ProjectionFails(t)
    BY <1>1, <1>10, ProjectionFailsKeeps
  <1>11. CASE Cleanup(t)
    BY <1>1, <1>11, EndingKeeps DEF Cleanup, FlushRest
  <1>12. CASE CleanupFails(t)
    BY <1>1, <1>12, EndingKeeps DEF CleanupFails
  <1>13. CASE Page(t)
    BY <1>1, <1>13, PageKeeps
  <1>14. CASE Sweep(t)
    BY <1>1, <1>14, SweepKeeps
  <1>15. CASE RebuildFails(t)
    BY <1>1, <1>15, EndingKeeps DEF RebuildFails
  <1>16. CASE FlushEarly(t)
    BY <1>1, <1>16, FlushEarlyKeeps
  <1> QED
    BY <1>2, <1>3, <1>4, <1>5, <1>6, <1>7, <1>8, <1>9, <1>10, <1>11, <1>12, <1>13,
       <1>14, <1>15, <1>16 DEF Step

\* A call that begins about other quads than the calls under way.
LEMMA BeginsKeeps ==
    ASSUME apart, OrphanInv, NEW t \in Task, NEW about, Others(t), UNCHANGED database,
           CallBegins(t, about), apart', Concerns(t) = {}, Concerns(t)' \subseteq about,
           TaskOrder(t)'
    PROVE  OrphanInv'
  <1>1. Asides(t) /\ Sound(quads', chunks', vec')
    BY KeepingAside DEF OrphanInv
  <1>2. \A u \in Task \ {t} : TaskOrder(u)' /\ Concerns(u)' = Concerns(u)
    BY <1>1, OthersKeep DEF OrphanInv
  <1>3. \A u \in Task \ {t} : Concerns(u) \cap about = {}
    BY DEF CallBegins
  <1>4. Apart'
    <2> SUFFICES ASSUME NEW u \in Task, NEW v \in Task, u # v
                 PROVE  Concerns(u)' \cap Concerns(v)' = {}
      BY DEF Apart
    <2>1. CASE u = t
      BY <1>2, <1>3, <2>1
    <2>2. CASE v = t
      BY <1>2, <1>3, <2>2
    <2>3. CASE u # t /\ v # t
      BY <1>2, <2>3 DEF OrphanInv, Apart
    <2> QED
      BY <2>1, <2>2, <2>3
  <1> QED
    BY <1>1, <1>2, <1>4 DEF OrphanInv

LEMMA CallCommitKeeps ==
    ASSUME TypeOK, apart, OrphanInv, NEW t \in Task, NEW p \in Patch[t], CallCommit(t, p), apart'
    PROVE  OrphanInv'
  <1> DEFINE q == [p EXCEPT !.ins = @ \cap Scope, !.del = @ \cap Scope]
             first == IF p.replace THEN "wipe" ELSE "lookup"
             S == IF p.replace THEN <<>> ELSE Deletions(q.del)
             about == IF p.replace \/ (p.import /\ mode = "deferred") THEN Quad
                      ELSE q.ins \cup q.del
  <1>1. /\ pc[t] = "idle" /\ pc'[t] = first /\ patch'[t] = q /\ staged'[t] = S
        /\ batch'[t] = batch[t] /\ todo'[t] = todo[t] /\ scan'[t] = scan[t]
        /\ UNCHANGED mode /\ UNCHANGED database /\ CallBegins(t, about)
    BY DEF CallCommit, Go, TypeOK
  <1>2. p \in PatchType
    <2>1. Patch[t] \in SUBSET PatchType
      BY PatchAssumption
    <2> QED
      BY <2>1
  <1>3. /\ q.ins \in SUBSET Quad /\ q.del \in SUBSET Quad
        /\ q.import = p.import /\ q.replace = p.replace
    BY <1>2, ScopeAssumption DEF PatchType
  <1>4. Concerns(t) = {}
    BY <1>1 DEF Concerns
  <1>5. /\ InOrder("idle", staged[t], batch[t], todo[t], {}, quads, chunks, vec)
        /\ Sound(quads, chunks, vec)
    BY <1>1, <1>4 DEF OrphanInv, TaskOrder
  <1>6. batch[t] = {} /\ todo[t] = {}
    BY <1>5 DEF InOrder
  <1> DEFINE K == Concerns(t)'
  <1> HIDE DEF q
  <1>7. K = about
    <2>1. ~scan'[t].on
      BY <1>1 DEF OrphanInv, TaskOrder
    <2> QED
      BY <1>1, <1>3, <2>1 DEF Concerns, Deferred
  <1>8. K \in SUBSET Quad /\ q.del \in SUBSET Quad
    BY <1>3, <1>7
  <1>9. p.replace \/ q.del \in SUBSET K
    BY <1>3, <1>7
  <1> HIDE DEF K
  <1>11. /\ Ordered(S, K, chunks, vec)
         /\ \A i \in DOMAIN S : S[i].op # "vec+" /\ S[i].op # "quads+"
    <2>1. CASE p.replace
      BY <1>8, <2>1, NothingOrdered, EmptyIsSeq
    <2>2. CASE ~p.replace
      <3>1. Sweeping(Deletions(q.del), q.del) /\ q.del \in SUBSET K
        BY <1>8, <1>9, <2>2, DeletionsSweep
      <3>2. ~Vectors => vec = {}
        BY <1>5 DEF Sound
      <3> DEFINE T == Deletions(q.del)
      <3>3. S = T /\ Sweeping(T, q.del)
        BY <2>2, <3>1
      <3> HIDE DEF T, S
      <3> QED
        BY <1>8, <3>1, <3>2, <3>3, SweepingOrdered
    <2> QED
      BY <2>1, <2>2
  <1>12. InOrder(first, S, batch[t], todo[t], K, quads, chunks, vec)
    BY <1>6, <1>11 DEF InOrder
  <1>13. TaskOrder(t)'
    <2>1. ~scan'[t].on /\ UNCHANGED <<quads, chunks, vec>>
      BY <1>1 DEF OrphanInv, TaskOrder, database
    <2> QED
      BY <1>1, <1>3, <1>12, <2>1 DEF TaskOrder, K
  <1>14. Others(t)
    BY OthersSame
  <1> QED
    BY <1>1, <1>4, <1>7, <1>13, <1>14, BeginsKeeps DEF K

LEMMA CallReindexKeeps ==
    ASSUME TypeOK, apart, OrphanInv, NEW t \in Task, CallReindex(t), apart'
    PROVE  OrphanInv'
  <1>1. /\ pc[t] = "idle" /\ pc'[t] = "page" /\ scan'[t].on
        /\ batch'[t] = batch[t] /\ todo'[t] = todo[t] /\ staged'[t] = staged[t]
        /\ UNCHANGED mode /\ UNCHANGED database /\ CallBegins(t, Quad)
    BY DEF CallReindex, Go, TypeOK, NoScan
  <1>2. Concerns(t) = {} /\ Concerns(t)' = Quad
    BY <1>1 DEF Concerns
  <1>3. InOrder("idle", staged[t], batch[t], todo[t], {}, quads, chunks, vec)
    BY <1>1, <1>2 DEF OrphanInv, TaskOrder
  <1>4. Ordered(staged[t], Quad, chunks, vec)
    BY <1>3 DEF InOrder, Ordered
  <1>5. InOrder("page", staged[t], batch[t], todo[t], Quad, quads, chunks, vec)
    BY <1>3, <1>4 DEF InOrder
  <1>6. TaskOrder(t)'
    BY <1>1, <1>2, <1>5 DEF TaskOrder, database
  <1>7. Others(t)
    BY OthersSame
  <1> QED
    BY <1>1, <1>2, <1>6, <1>7, BeginsKeeps

LEMMA CrashKeeps ==
    ASSUME TypeOK, OrphanInv, Crash
    PROVE  OrphanInv'
  <1> SUFFICES ASSUME apart' PROVE OrphanInv'
    BY DEF OrphanInv
  <1>1. apart /\ UNCHANGED <<quads, chunks, vec>>
    BY DEF Crash, database
  <1>2. Sound(quads', chunks', vec')
    BY <1>1 DEF OrphanInv
  <1>3. ASSUME NEW t \in Task PROVE TaskOrder(t)' /\ Concerns(t)' = {}
    <2>1. /\ pc'[t] = "idle" /\ staged'[t] = <<>> /\ batch'[t] = {} /\ todo'[t] = {}
          /\ ~scan'[t].on
      BY DEF Crash, NoScan
    <2>2. Concerns(t)' = {}
      BY <2>1 DEF Concerns
    <2>3. InOrder("idle", <<>>, {}, {}, {}, quads', chunks', vec')
      BY IdleInOrder
    <2> QED
      BY <2>1, <2>2, <2>3 DEF TaskOrder
  <1>4. Apart'
    BY <1>3 DEF Apart
  <1> QED
    BY <1>2, <1>3, <1>4 DEF OrphanInv

LEMMA WriteKeeps ==
    ASSUME TypeInv, OrphanInv, Write
    PROVE  OrphanInv'
  <1>0. TypeOK
    BY DEF TypeInv
  <1>1. ASSUME NEW t \in Task, NEW p \in Patch[t], CallCommit(t, p) PROVE OrphanInv'
    <2>1. CASE apart'
      <3>1. apart
        BY <1>1, <2>1 DEF CallCommit, CallBegins
      <3> QED
        BY <1>0, <1>1, <2>1, <3>1, CallCommitKeeps
    <2>2. CASE ~apart'
      BY <2>2 DEF OrphanInv
    <2> QED
      BY <2>1, <2>2
  <1>2. ASSUME NEW t \in Reindexer, CallReindex(t) PROVE OrphanInv'
    <2>0. t \in Task
      BY PatchAssumption
    <2>1. CASE apart'
      <3>1. apart
        BY <1>2, <2>1 DEF CallReindex, CallBegins
      <3> QED
        BY <1>0, <1>2, <2>0, <2>1, <3>1, CallReindexKeeps
    <2>2. CASE ~apart'
      BY <2>2 DEF OrphanInv
    <2> QED
      BY <2>1, <2>2
  <1>3. ASSUME NEW t \in Task, Step(t) PROVE OrphanInv'
    <2>0. UNCHANGED apart /\ Others(t)
      BY <1>0, <1>3, StepTyped, OthersSame
    <2>1. CASE apart
      <3>1. Keeps(t)
        BY <1>3, <2>1, StepKeeps DEF OrphanInv
      <3> QED
        BY <2>0, <2>1, <3>1, KeepsAll
    <2>2. CASE ~apart
      BY <2>0, <2>2 DEF OrphanInv
    <2> QED
      BY <2>1, <2>2
  <1>4. ASSUME Crash PROVE OrphanInv'
    BY <1>0, <1>4, CrashKeeps
  <1> QED
    BY <1>1, <1>2, <1>3, <1>4 DEF Write

LEMMA OrphanInvStutters ==
    ASSUME OrphanInv, UNCHANGED <<database, local, mode, pc, apart>>
    PROVE  OrphanInv'
  <1>1. /\ UNCHANGED <<quads, chunks, vec, mode, pc, patch, batch, todo, staged, scan>>
        /\ apart' = apart
    BY DEF database, local
  <1>2. \A t \in Task : Concerns(t)' = Concerns(t)
    BY <1>1 DEF Concerns, Deferred
  <1>3. \A t \in Task : TaskOrder(t) => TaskOrder(t)'
    BY <1>1, <1>2 DEF TaskOrder
  <1> QED
    BY <1>1, <1>2, <1>3 DEF OrphanInv, Apart

LEMMA InitKeeps == Init => OrphanInv
  <1> SUFFICES ASSUME Init PROVE OrphanInv
    OBVIOUS
  <1>1. Sound(quads, chunks, vec)
    BY DEF Init, Sound
  <1>2. ASSUME NEW t \in Task PROVE TaskOrder(t) /\ Concerns(t) = {}
    <2>1. /\ pc[t] = "idle" /\ staged[t] = <<>> /\ batch[t] = {} /\ todo[t] = {}
          /\ ~scan[t].on
      BY DEF Init, NoScan
    <2>2. Concerns(t) = {}
      BY <2>1 DEF Concerns
    <2>3. InOrder("idle", <<>>, {}, {}, {}, quads, chunks, vec)
      BY IdleInOrder
    <2> QED
      BY <2>1, <2>2, <2>3 DEF TaskOrder
  <1> QED
    BY <1>1, <1>2 DEF OrphanInv, Apart

LEMMA AlwaysInOrder == Spec => []OrphanInv
  <1>1. TypeInv /\ OrphanInv /\ [Next]_vars => OrphanInv'
    <2> SUFFICES ASSUME TypeInv, OrphanInv, [Next]_vars PROVE OrphanInv'
      OBVIOUS
    <2> QED
      BY WriteKeeps, OrphanInvStutters DEF Next, vars, history
  <1> QED
    BY InitKeeps, <1>1, AlwaysTyped, PTL DEF Spec

LEMMA InOrderNoOrphans == OrphanInv => NoOrphans
  BY DEF OrphanInv, NoOrphans, Sound, Ids

\* Search never finds what the store does not hold, however many calls run, with
\* whatever patches and sizes, wherever a batch is split at the executor's
\* threshold, and wherever a statement fails or the process dies: as long as the
\* calls that overlap are about different quads, every chunk belongs to a stored
\* quad and every vector to a chunk.
THEOREM NoOrphansEver == Spec => []NoOrphans
  BY AlwaysInOrder, InOrderNoOrphans, PTL
=============================================================================
