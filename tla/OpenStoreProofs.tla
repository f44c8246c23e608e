-------------------------- MODULE OpenStoreProofs --------------------------
(***************************************************************************)
(* Proofs about OpenStore, for any processes and any layers they open.     *)
(***************************************************************************)
EXTENDS OpenStore, SequencesExt, SequenceTheorems, TLAPS

\* The first statement of a sequence and the rest make it up.
LEMMA HeadAndTail ==
    ASSUME NEW S, NEW s \in Seq(S), s # <<>>
    PROVE  /\ Head(s) \in S /\ Tail(s) \in Seq(S)
           /\ ToSet(s) = {Head(s)} \cup ToSet(Tail(s))
           /\ Len(s) = 1 <=> Tail(s) = <<>>
  <1>1. Len(s) \in Nat \ {0} /\ DOMAIN s = 1..Len(s) /\ Head(s) = s[1]
    BY EmptySeq, LenProperties
  <1>2. /\ Head(s) \in S /\ Tail(s) \in Seq(S) /\ Len(Tail(s)) = Len(s) - 1
        /\ \A i \in 1..Len(Tail(s)) : Tail(s)[i] = s[i + 1]
    BY HeadTailProperties
  <1>3. DOMAIN Tail(s) = 1..Len(Tail(s))
    BY <1>2, LenProperties
  <1>4. ToSet(s) \subseteq {Head(s)} \cup ToSet(Tail(s))
    <2> SUFFICES ASSUME NEW i \in 1..Len(s), i # 1
                 PROVE  \E j \in DOMAIN Tail(s) : s[i] = Tail(s)[j]
      BY <1>1 DEF ToSet
    <2>1. i - 1 \in 1..Len(Tail(s)) /\ Tail(s)[i - 1] = s[i]
      BY <1>1, <1>2
    <2> QED
      BY <1>3, <2>1
  <1>5. {Head(s)} \cup ToSet(Tail(s)) \subseteq ToSet(s)
    <2>1. \A i \in 1..Len(Tail(s)) : i + 1 \in DOMAIN s /\ Tail(s)[i] = s[i + 1]
      BY <1>1, <1>2
    <2> QED
      BY <1>1, <1>3, <2>1 DEF ToSet
  <1>6. Len(s) = 1 <=> Tail(s) = <<>>
    BY <1>1, <1>2, EmptySeq
  <1> QED
    BY <1>2, <1>4, <1>5, <1>6

\* What a concatenation is made of.
LEMMA ConcatMembers ==
    ASSUME NEW S, NEW s \in Seq(S), NEW t \in Seq(S)
    PROVE  s \o t \in Seq(S) /\ ToSet(s \o t) = ToSet(s) \cup ToSet(t)
  <1>1. /\ s \o t \in Seq(S) /\ Len(s \o t) = Len(s) + Len(t)
        /\ \A i \in 1..Len(s) + Len(t) :
              (s \o t)[i] = IF i <= Len(s) THEN s[i] ELSE t[i - Len(s)]
    BY ConcatProperties
  <1>2. /\ Len(s) \in Nat /\ Len(t) \in Nat
        /\ DOMAIN s = 1..Len(s) /\ DOMAIN t = 1..Len(t)
        /\ DOMAIN (s \o t) = 1..Len(s \o t)
    BY <1>1, LenProperties
  <1> DEFINE st == s \o t
  <1>3. /\ \A i \in DOMAIN s : i \in DOMAIN st /\ st[i] = s[i]
        /\ \A i \in DOMAIN t : i + Len(s) \in DOMAIN st /\ st[i + Len(s)] = t[i]
    BY <1>1, <1>2
  <1>4. \A i \in DOMAIN st : \/ i \in DOMAIN s /\ st[i] = s[i]
                             \/ i - Len(s) \in DOMAIN t /\ st[i] = t[i - Len(s)]
    BY <1>1, <1>2
  <1> HIDE DEF st
  <1>5. ToSet(st) = ToSet(s) \cup ToSet(t)
    BY <1>3, <1>4 DEF ToSet
  <1> QED
    BY <1>1, <1>5 DEF st

\* The statements of the constructor, of buildIndexes and of the full-text index.
LEMMA StoreOpeningMade ==
    /\ StoreOpening \in Seq(Object \cup Pragma) /\ StoreOpening # <<>>
    /\ ToSet(StoreOpening) =
         {"busy_timeout", "wal", "quads", "idx_quads_pkey", "idx_quads_okey", "idx_quads_gkey"}
  <1>1. StoreOpening \in Seq(Object \cup Pragma) /\ Len(StoreOpening) = 6
    BY DEF StoreOpening, Object, Pragma
  <1>2. /\ StoreOpening[1] = "busy_timeout"
        /\ StoreOpening[2] = "wal"
        /\ StoreOpening[3] = "quads"
        /\ StoreOpening[4] = "idx_quads_pkey"
        /\ StoreOpening[5] = "idx_quads_okey"
        /\ StoreOpening[6] = "idx_quads_gkey"
    BY DEF StoreOpening
  <1>3. DOMAIN StoreOpening = {1, 2, 3, 4, 5, 6}
    BY <1>1, LenProperties
  <1> QED
    BY <1>1, <1>2, <1>3, SMTT(60) DEF ToSet

LEMMA IndexesMade ==
    /\ Indexes \in Seq(Object \cup Pragma) /\ Indexes # <<>>
    /\ ToSet(Indexes) =
         {"idx_quads_pkey", "idx_quads_okey", "idx_quads_gkey", "idx_chunks_quad_id"}
  <1>1. Indexes \in Seq(Object \cup Pragma) /\ Len(Indexes) = 4
    BY DEF Indexes, Object, Pragma
  <1>2. /\ Indexes[1] = "idx_quads_pkey"
        /\ Indexes[2] = "idx_quads_okey"
        /\ Indexes[3] = "idx_quads_gkey"
        /\ Indexes[4] = "idx_chunks_quad_id"
    BY DEF Indexes
  <1>3. DOMAIN Indexes = {1, 2, 3, 4}
    BY <1>1, LenProperties
  <1> QED
    BY <1>1, <1>2, <1>3 DEF ToSet

LEMMA FullTextMade ==
    /\ FullText \in Seq(Object \cup Pragma) /\ FullText # <<>>
    /\ ToSet(FullText) =
         {"chunks_fts", "chunks_ai", "chunks_ad"}
  <1>1. FullText \in Seq(Object \cup Pragma) /\ Len(FullText) = 3
    BY DEF FullText, Object, Pragma
  <1>2. /\ FullText[1] = "chunks_fts"
        /\ FullText[2] = "chunks_ai"
        /\ FullText[3] = "chunks_ad"
    BY DEF FullText
  <1>3. DOMAIN FullText = {1, 2, 3}
    BY <1>1, LenProperties
  <1> QED
    BY <1>1, <1>2, <1>3 DEF ToSet

\* What p has to run when it begins to open.
Opening(p, vec) ==
    IF Layer[p] = "L2" THEN InitializeSchema(vec) \o StoreOpening ELSE StoreOpening

\* It creates whatever the layer needs.
LEMMA OpeningMade ==
    ASSUME NEW p \in Opener, NEW vec \in BOOLEAN
    PROVE  /\ Opening(p, vec) \in Seq(Object \cup Pragma) /\ Opening(p, vec) # <<>>
           /\ {"quads", "idx_quads_pkey", "idx_quads_okey", "idx_quads_gkey"}
                \subseteq ToSet(Opening(p, vec))
           /\ Layer[p] = "L2" =>
                /\ {"chunks", "idx_chunks_quad_id", "chunks_fts", "chunks_ai", "chunks_ad"}
                     \subseteq ToSet(Opening(p, vec))
                /\ vec => "chunks_vec" \in ToSet(Opening(p, vec))
  <1> DEFINE S == Object \cup Pragma
             base == <<"quads", "chunks">>
             vecTable == IF vec THEN <<"chunks_vec">> ELSE <<>>
  <1>1. base \in Seq(S) /\ ToSet(base) = {"quads", "chunks"}
    BY DEF Object, Pragma, ToSet
  <1>2. vecTable \in Seq(S) /\ (vec => "chunks_vec" \in ToSet(vecTable))
    <2>1. <<"chunks_vec">> \in Seq(S) /\ "chunks_vec" \in ToSet(<<"chunks_vec">>)
      BY DEF Object, Pragma, ToSet
    <2>2. <<>> \in Seq(S)
      BY EmptySeq
    <2> QED
      BY <2>1, <2>2
  <1>3. /\ Tables(vec) \in Seq(S)
        /\ ToSet(Tables(vec)) = {"quads", "chunks"} \cup ToSet(vecTable)
    <2>1. Tables(vec) = base \o vecTable
      BY DEF Tables
    <2> HIDE DEF S, base, vecTable
    <2> QED
      BY <1>1, <1>2, <2>1, ConcatMembers
  <1> HIDE DEF S, base, vecTable
  <1> DEFINE first == Tables(vec) \o Indexes
  <1>4. first \in Seq(S) /\ ToSet(first) = ToSet(Tables(vec)) \cup ToSet(Indexes)
    BY <1>3, IndexesMade, ConcatMembers DEF S
  <1> HIDE DEF first
  <1>5. /\ InitializeSchema(vec) \in Seq(S)
        /\ ToSet(InitializeSchema(vec)) =
             ToSet(Tables(vec)) \cup ToSet(Indexes) \cup ToSet(FullText)
    <2>1. InitializeSchema(vec) = first \o FullText
      BY DEF InitializeSchema, first
    <2>2. FullText \in Seq(S)
      BY FullTextMade DEF S
    <2> QED
      BY <1>4, <2>1, <2>2, ConcatMembers
  <1>6. /\ InitializeSchema(vec) \o StoreOpening \in Seq(S)
        /\ InitializeSchema(vec) \o StoreOpening # <<>>
        /\ ToSet(InitializeSchema(vec) \o StoreOpening) =
             ToSet(InitializeSchema(vec)) \cup ToSet(StoreOpening)
    BY <1>5, StoreOpeningMade, ConcatMembers, ConcatEqualIffEmpty DEF S
  <1> QED
    BY <1>2, <1>3, <1>5, <1>6, StoreOpeningMade, IndexesMade, FullTextMade DEF Opening, S

-----------------------------------------------------------------------------
\* What an opening has not created yet it still has to run.
NothingForgotten ==
    \A p \in Opener : pc[p] = "opening" => Needs(p) \subseteq schema \cup ToSet(todo[p])

\* Who has the lock is up, and if it is opening, has a statement that writes.
LockIsUsed ==
    \A p \in Opener : lock = p => \/ pc[p] = "open"
                                  \/ pc[p] = "opening" /\ Writes(p)

\* An L1 store does nothing before it has set its timeout.
TimeoutFirst ==
    \A p \in Opener : pc[p] = "opening" /\ Layer[p] = "L1" =>
        patient[p] \/ todo[p] = StoreOpening

\* The inductive invariant.
OpenInv ==
    /\ TypeOK /\ NothingForgotten /\ LockIsUsed /\ TimeoutFirst
    /\ OpenIsComplete /\ FtsFollowsChunks /\ StoreOpenWaits

\* It holds of closed processes and an empty file.
LEMMA InitOpen == Init => OpenInv
  <1> SUFFICES ASSUME Init PROVE OpenInv
    OBVIOUS
  <1>1. TypeOK
    <2>1. <<>> \in Seq(Object \cup Pragma)
      BY EmptySeq
    <2> QED
      BY <2>1 DEF Init, TypeOK
  <1>2. NothingForgotten /\ LockIsUsed /\ TimeoutFirst
    BY NoneAssumption DEF Init, NothingForgotten, LockIsUsed, TimeoutFirst
  <1>3. OpenIsComplete /\ FtsFollowsChunks /\ StoreOpenWaits
    BY DEF Init, OpenIsComplete, FtsFollowsChunks, StoreOpenWaits
  <1> QED
    BY <1>1, <1>2, <1>3 DEF OpenInv

\* A statement that has run leaves the rest.
LEMMA Advances ==
    ASSUME TypeOK, NEW p \in Opener, pc[p] = "opening", Advance(p)
    PROVE  /\ Statement(p) \in Object \cup Pragma
           /\ ToSet(todo[p]) = {Statement(p)} \cup ToSet(todo'[p])
           /\ todo' \in [Opener -> Seq(Object \cup Pragma)]
           /\ pc' \in [Opener -> {"closed", "opening", "open", "failed"}]
           /\ \A q \in Opener : pc'[q] = "opening" <=> todo'[q] # <<>>
           /\ pc'[p] = "opening" \/ (pc'[p] = "open" /\ todo'[p] = <<>>)
           /\ \A q \in Opener \ {p} : pc'[q] = pc[q] /\ todo'[q] = todo[q]
  <1>1. todo[p] \in Seq(Object \cup Pragma) /\ todo[p] # <<>>
    BY DEF TypeOK
  <1>2. /\ Head(todo[p]) \in Object \cup Pragma /\ Tail(todo[p]) \in Seq(Object \cup Pragma)
        /\ ToSet(todo[p]) = {Head(todo[p])} \cup ToSet(Tail(todo[p]))
        /\ Len(todo[p]) = 1 <=> Tail(todo[p]) = <<>>
    BY <1>1, HeadAndTail
  <1>3. /\ todo' = [todo EXCEPT ![p] = Tail(todo[p])]
        /\ pc' = [pc EXCEPT ![p] = IF Len(todo[p]) = 1 THEN "open" ELSE pc[p]]
    BY DEF Advance
  <1> QED
    BY <1>2, <1>3 DEF TypeOK, Statement

\* A step keeps what is said of the processes that open: each conjunct follows
\* from the process that moved, and from what the others rely on not changing.
LEMMA NextOpen == OpenInv /\ [Next]_vars => OpenInv'
  <1> SUFFICES ASSUME OpenInv, [Next]_vars PROVE OpenInv'
    OBVIOUS
  <1> USE DEF OpenInv
  <1>1. ASSUME NEW p \in Opener, CallOpen(p) PROVE OpenInv'
    <2>1. PICK vec \in BOOLEAN :
             /\ vectors' = [vectors EXCEPT ![p] = vec]
             /\ todo' = [todo EXCEPT ![p] = Opening(p, vec)]
             /\ Layer[p] # "L2" => ~vec
      BY <1>1 DEF CallOpen, Opening
    <2>2. /\ pc[p] \in {"closed", "failed"} /\ pc' = [pc EXCEPT ![p] = "opening"]
          /\ patient' = [patient EXCEPT ![p] = FALSE]
          /\ UNCHANGED <<schema, wal, chunks, fts, lock>>
      BY <1>1 DEF CallOpen, file
    <2> DEFINE s == Opening(p, vec)
    <2>3. /\ s \in Seq(Object \cup Pragma) /\ s # <<>>
          /\ Layer[p] \in {"L1", "L2"} /\ (Layer[p] = "L1" => s = StoreOpening)
      BY OpeningMade, LayerAssumption DEF Opening
    <2>4. /\ {"quads", "idx_quads_pkey", "idx_quads_okey", "idx_quads_gkey"} \subseteq ToSet(s)
          /\ Layer[p] = "L2" =>
                /\ {"chunks", "idx_chunks_quad_id", "chunks_fts", "chunks_ai", "chunks_ad"}
                     \subseteq ToSet(s)
                /\ vec => "chunks_vec" \in ToSet(s)
      BY OpeningMade
    <2> HIDE DEF s
    <2>5. /\ todo' = [todo EXCEPT ![p] = s] /\ vectors' = [vectors EXCEPT ![p] = vec]
      BY <2>1 DEF s
    <2>6. TypeOK'
      BY <2>2, <2>3, <2>5 DEF TypeOK
    <2>7. NothingForgotten'
      <3> SUFFICES ASSUME NEW q \in Opener, pc'[q] = "opening"
                   PROVE  Needs(q)' \subseteq schema' \cup ToSet(todo'[q])
        BY DEF NothingForgotten
      <3>1. CASE q = p
        <4>1. todo'[p] = s /\ vectors'[p] = vec
          BY <2>5 DEF TypeOK
        <4> QED
          BY <2>3, <2>4, <3>1, <4>1 DEF Needs
      <3>2. CASE q # p
        BY <2>2, <2>5, <3>2 DEF NothingForgotten, Needs, TypeOK
      <3> QED
        BY <3>1, <3>2
    <2>8. LockIsUsed'
      BY <2>2, <2>5 DEF LockIsUsed, TypeOK, Writes, Statement
    <2>9. TimeoutFirst'
      BY <2>2, <2>3, <2>5 DEF TimeoutFirst, TypeOK
    <2>10. OpenIsComplete' /\ FtsFollowsChunks' /\ StoreOpenWaits'
      BY <2>2, <2>5 DEF OpenIsComplete, FtsFollowsChunks, StoreOpenWaits, TypeOK, Needs
    <2> QED
      BY <2>6, <2>7, <2>8, <2>9, <2>10
  <1>2. ASSUME NEW p \in Opener, SetTimeout(p) \/ PassOver(p) \/ Create(p)
        PROVE  OpenInv'
    <2>1. pc[p] = "opening" /\ Advance(p) /\ UNCHANGED <<chunks, fts, vectors>>
      BY <1>2 DEF SetTimeout, PassOver, Create, file
    <2>2. /\ Statement(p) \in Object \cup Pragma
          /\ ToSet(todo[p]) = {Statement(p)} \cup ToSet(todo'[p])
          /\ todo' \in [Opener -> Seq(Object \cup Pragma)]
          /\ pc' \in [Opener -> {"closed", "opening", "open", "failed"}]
          /\ \A q \in Opener : pc'[q] = "opening" <=> todo'[q] # <<>>
          /\ pc'[p] = "opening" \/ (pc'[p] = "open" /\ todo'[p] = <<>>)
          /\ \A q \in Opener \ {p} : pc'[q] = pc[q] /\ todo'[q] = todo[q]
      BY <2>1, Advances
    <2>3. /\ schema' = schema \/ (schema' = schema \cup {Statement(p)})
          /\ Statement(p) \in Object => Statement(p) \in schema'
          /\ schema' \subseteq Object /\ wal' \in BOOLEAN
          /\ lock' = lock \/ (lock = p /\ lock' = None)
          /\ (wal' = wal /\ schema' = schema) \/ lock = p
      <3>1. Object \cap Pragma = {}
        BY DEF Object, Pragma
      <3>2. schema \subseteq Object /\ wal \in BOOLEAN
        BY DEF TypeOK
      <3>3. CASE SetTimeout(p)
        BY <3>1, <3>2, <3>3 DEF SetTimeout, file, Pragma
      <3>4. CASE PassOver(p)
        BY <3>1, <3>2, <3>4 DEF PassOver, file, Writes
      <3>5. CASE Create(p)
        <4>1. Writes(p) /\ lock = p
          BY <2>1, <3>5 DEF Create, LockIsUsed
        <4>2. Statement(p) = "wal" \/ Statement(p) \in Object
          BY <2>2, <4>1 DEF Writes
        <4>3. "wal" \notin Object
          BY <3>1 DEF Pragma
        <4> QED
          BY <3>2, <3>5, <4>1, <4>2, <4>3 DEF Create
      <3> QED
        BY <1>2, <3>3, <3>4, <3>5
    <2>4. /\ patient' \in [Opener -> BOOLEAN]
          /\ \A q \in Opener \ {p} : patient'[q] = patient[q]
          /\ patient'[p] \/ (patient'[p] = patient[p] /\ Statement(p) # "busy_timeout")
      BY <1>2, <2>2 DEF SetTimeout, PassOver, Create, TypeOK, LockIsUsed, Writes, Pragma,
                        Object
    <2>5. TypeOK'
      BY <2>1, <2>2, <2>3, <2>4 DEF TypeOK
    <2>6. Needs(p) \subseteq schema' \cup ToSet(todo'[p])
      <3>1. Needs(p) \subseteq Object
        BY DEF Needs, Object
      <3>2. Needs(p) \subseteq schema \cup {Statement(p)} \cup ToSet(todo'[p])
        BY <2>1, <2>2 DEF NothingForgotten
      <3> QED
        BY <2>3, <3>1, <3>2
    <2>7. \A q \in Opener : Needs(q)' = Needs(q)
      BY <2>1 DEF Needs
    <2>8. NothingForgotten'
      BY <2>2, <2>3, <2>6, <2>7 DEF NothingForgotten
    <2>9. OpenIsComplete'
      <3> SUFFICES ASSUME NEW q \in Opener, pc'[q] = "open"
                   PROVE  Needs(q) \subseteq schema'
        BY <2>7 DEF OpenIsComplete
      <3>1. CASE q = p
        <4>1. ToSet(<<>>) = {}
          BY DEF ToSet
        <4>2. pc'[p] # "opening" /\ todo'[p] = <<>>
          BY <2>2, <3>1
        <4> QED
          BY <2>6, <3>1, <4>1, <4>2
      <3>2. CASE q # p
        BY <2>2, <2>3, <3>2 DEF OpenIsComplete
      <3> QED
        BY <3>1, <3>2
    <2>10. LockIsUsed'
      <3> SUFFICES ASSUME NEW q \in Opener, lock' = q
                   PROVE  pc'[q] = "open" \/ (pc'[q] = "opening" /\ Writes(q)')
        BY DEF LockIsUsed
      <3>1. lock = q /\ lock' = lock
        BY <2>3, NoneAssumption
      <3>2. q # p
        BY <1>2, <2>1, <3>1, NoneAssumption
           DEF SetTimeout, PassOver, Create, LockIsUsed, Writes, Pragma
      <3>3. wal' = wal /\ schema' = schema
        BY <2>3, <3>1, <3>2
      <3> QED
        BY <2>2, <3>1, <3>2, <3>3 DEF LockIsUsed, Writes, Statement
    <2>11. TimeoutFirst'
      <3>1. pc'[p] = "opening" /\ Layer[p] = "L1" => patient'[p]
        <4> SUFFICES ASSUME Layer[p] = "L1", ~patient'[p] PROVE FALSE
          OBVIOUS
        <4>1. todo[p] = StoreOpening /\ Statement(p) # "busy_timeout"
          BY <2>1, <2>4 DEF TimeoutFirst
        <4>2. Head(StoreOpening) = "busy_timeout"
          BY DEF StoreOpening
        <4> QED
          BY <4>1, <4>2 DEF Statement
      <3> QED
        BY <2>2, <2>4, <3>1 DEF TimeoutFirst
    <2>12. FtsFollowsChunks' /\ StoreOpenWaits'
      BY <2>1, <2>2, <2>4 DEF FtsFollowsChunks, StoreOpenWaits
    <2> QED
      BY <2>5, <2>8, <2>9, <2>10, <2>11, <2>12
  <1>3. ASSUME NEW p \in Opener, TakeLock(p) \/ BeginBatch(p) PROVE OpenInv'
    <2>1. /\ lock' = p
          /\ pc[p] = "open" \/ (pc[p] = "opening" /\ Writes(p))
          /\ UNCHANGED <<schema, wal, chunks, fts, pc, todo, patient, vectors>>
      BY <1>3 DEF TakeLock, BeginBatch, file
    <2>2. LockIsUsed' /\ TypeOK'
      BY <1>3, <2>1 DEF LockIsUsed, Writes, Statement, TypeOK, TakeLock, BeginBatch
    <2> QED
      BY <2>1, <2>2 DEF NothingForgotten, Needs, TimeoutFirst, OpenIsComplete,
                        FtsFollowsChunks, StoreOpenWaits
  <1>4. ASSUME NEW p \in Opener, Busy(p) PROVE OpenInv'
    <2>1. /\ pc[p] = "opening" /\ Statement(p) # "busy_timeout" /\ lock # p
          /\ pc' = [pc EXCEPT ![p] = "failed"] /\ todo' = [todo EXCEPT ![p] = <<>>]
          /\ UNCHANGED <<schema, wal, chunks, fts, lock, patient, vectors>>
      BY <1>4 DEF Busy, Blocked, Fails, file
    <2>2. TypeOK'
      <3>1. <<>> \in Seq(Object \cup Pragma)
        BY EmptySeq
      <3> QED
        BY <2>1, <3>1 DEF TypeOK
    <2>3. Layer[p] = "L1" => patient[p]
      <3>1. Head(StoreOpening) = "busy_timeout"
        BY DEF StoreOpening
      <3> QED
        BY <2>1, <3>1 DEF TimeoutFirst, Statement
    <2>4. StoreOpenWaits'
      BY <2>1, <2>3 DEF StoreOpenWaits, TypeOK
    <2>5. NothingForgotten' /\ LockIsUsed' /\ TimeoutFirst' /\ OpenIsComplete'
      BY <2>1 DEF NothingForgotten, LockIsUsed, TimeoutFirst, OpenIsComplete, Needs,
                  Writes, Statement, TypeOK
    <2> QED
      BY <2>1, <2>2, <2>4, <2>5 DEF FtsFollowsChunks
  <1>5. ASSUME NEW p \in Opener, EndBatch(p) PROVE OpenInv'
    <2>1. /\ pc[p] = "open" /\ lock = p /\ lock' = None
          /\ UNCHANGED <<schema, wal, pc, todo, patient, vectors>>
      BY <1>5 DEF EndBatch
    <2>2. FtsFollowsChunks' /\ chunks' \subseteq Chunk
      <3>1. CASE UNCHANGED <<chunks, fts>>
        BY <3>1 DEF FtsFollowsChunks, TypeOK
      <3>2. ASSUME Layer[p] = "L2", NEW c \in Chunk, InsertChunk(p, c) \/ DeleteChunk(p, c)
            PROVE  FtsFollowsChunks' /\ chunks' \subseteq Chunk
        <4>1. {"chunks_fts", "chunks_ai", "chunks_ad"} \subseteq schema
          BY <2>1, <3>2 DEF OpenIsComplete, Needs
        <4> QED
          BY <3>2, <4>1 DEF InsertChunk, DeleteChunk, FtsFollowsChunks, TypeOK
      <3> QED
        BY <1>5, <3>1, <3>2 DEF EndBatch
    <2>3. TypeOK'
      BY <2>1, <2>2 DEF TypeOK, FtsFollowsChunks
    <2>4. LockIsUsed'
      BY <2>1, NoneAssumption DEF LockIsUsed
    <2> QED
      BY <2>1, <2>2, <2>3, <2>4
         DEF NothingForgotten, TimeoutFirst, OpenIsComplete, StoreOpenWaits, Needs
  <1>6. ASSUME NEW p \in Opener, Stop(p) PROVE OpenInv'
    <2>1. /\ pc' = [pc EXCEPT ![p] = "closed"] /\ todo' = [todo EXCEPT ![p] = <<>>]
          /\ lock' = IF lock = p THEN None ELSE lock
          /\ UNCHANGED <<schema, wal, chunks, fts, patient, vectors>>
      BY <1>6 DEF Stop, file
    <2>2. TypeOK'
      <3>1. <<>> \in Seq(Object \cup Pragma)
        BY EmptySeq
      <3> QED
        BY <2>1, <3>1 DEF TypeOK
    <2>3. NothingForgotten' /\ LockIsUsed' /\ TimeoutFirst' /\ OpenIsComplete'
      BY <2>1, NoneAssumption DEF NothingForgotten, LockIsUsed, TimeoutFirst,
                  OpenIsComplete, Needs, Writes, Statement, TypeOK
    <2> QED
      BY <2>1, <2>2, <2>3 DEF FtsFollowsChunks, StoreOpenWaits, TypeOK
  <1>7. CASE UNCHANGED vars
    BY <1>7 DEF vars, file, TypeOK, NothingForgotten, LockIsUsed, TimeoutFirst,
       OpenIsComplete, FtsFollowsChunks, StoreOpenWaits, Needs, Writes, Statement
  <1> QED
    BY <1>1, <1>2, <1>3, <1>4, <1>5, <1>6, <1>7 DEF Next, Step

\* The invariant holds in every reachable state.
LEMMA OpenInvHolds == Spec => []OpenInv
  BY InitOpen, NextOpen, PTL DEF Spec

\* Every variable keeps its type, for any processes opening any layer.
THEOREM OpenTypeCorrect == Spec => []TypeOK
  <1>1. OpenInv => TypeOK
    BY DEF OpenInv
  <1> QED
    BY <1>1, OpenInvHolds, PTL

\* A process that has opened finds every table, index and trigger its statements
\* name, however many others raced it, failed or died half-way.
THEOREM OpenStaysComplete == Spec => []OpenIsComplete
  <1>1. OpenInv => OpenIsComplete
    BY DEF OpenInv
  <1> QED
    BY <1>1, OpenInvHolds, PTL

\* The full-text index holds just the chunks: none is written before the triggers.
THEOREM FtsStaysExact == Spec => []FtsFollowsChunks
  <1>1. OpenInv => FtsFollowsChunks
    BY DEF OpenInv
  <1> QED
    BY <1>1, OpenInvHolds, PTL

\* An L1 store never fails to open without having waited for the lock.
THEOREM StoreOpensPatiently == Spec => []StoreOpenWaits
  <1>1. OpenInv => StoreOpenWaits
    BY DEF OpenInv
  <1> QED
    BY <1>1, OpenInvHolds, PTL
=============================================================================
