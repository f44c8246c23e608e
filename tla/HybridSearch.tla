---------------------------- MODULE HybridSearch ----------------------------
(***************************************************************************)
(* SqliteSearchIndex.search beside the writers of QuadStore: embed the     *)
(* query, run the keyword and the vector statement with an await between   *)
(* them, fuse the two rankings by reciprocal ranks, filter by score.  A    *)
(* text is the set of its words, and the order in which SQLite ranks the   *)
(* chunks it finds is any order.  One search runs at a time: searches      *)
(* change nothing that another could see.                                  *)
(***************************************************************************)
EXTENDS QuadStore, Functions

CONSTANTS
    Stopword,  \* FTS_STOPWORDS
    Words,     \* Words[q][i]: the words of fts_value of the i-th chunk of q
    Terms,     \* Terms[q]: the subject, predicate and graph of q, numbered
    Request,   \* the searches that may be asked for
    FusionK    \* RRF_FUSION_K

Dimension == {"subject", "predicate", "graph"}
Vocabulary == UNION {UNION {Words[q][i] : i \in 1..Parts[q]} : q \in Quad}

\* limit stands for topK ?? options.limit ?? 100, minScore <<n, d>> for n / d.
RequestType == [query : SUBSET (Vocabulary \cup Stopword),
                include : [Dimension -> SUBSET Nat],
                exclude : [Dimension -> SUBSET Nat],
                limit : Nat \ {0}, minScore : Nat \X (Nat \ {0})]

ASSUME RequestAssumption == Request \subseteq RequestType
ASSUME TermsAssumption == Terms \in [Quad -> [Dimension -> Nat]]
ASSUME FusionAssumption == FusionK \in Nat

VARIABLES
    place,   \* the await the search stands at
    req,     \* its request
    plan,    \* the branches of its plan
    kw,      \* the chunks the keyword statement returned, with their ranks
    vc,      \* the chunks the vector statement returned, with their ranks
    seen,    \* history: the quads stored at some moment of the search
    steady,  \* history: the chunks there at every moment of it
    lasting, \* history: the vectors there at every moment of it
    roomy    \* history: each statement's window held all it found

found == <<place, req, plan, kw, vc>>
witness == <<seen, steady, lasting, roomy>>
searchVars == <<vars, found, witness>>

NoRequest == [query |-> {}, include |-> [d \in Dimension |-> {}],
              exclude |-> [d \in Dimension |-> {}], limit |-> 1, minScore |-> <<0, 1>>]

SearchInit ==
    /\ Init
    /\ place = "idle" /\ req = NoRequest /\ plan = {} /\ kw = <<>> /\ vc = <<>>
    /\ seen = {} /\ steady = {} /\ lasting = {} /\ roomy = TRUE

-----------------------------------------------------------------------------
\* What the statements find.

\* sanitizeFtsQuery: filler words go unless there is nothing else.
Sanitized(query) == IF query \subseteq Stopword THEN query ELSE query \ Stopword

\* The chunks chunks_fts matches: FTS5 wants every quoted word of the expression.
Matches(r) == {c \in chunks : Sanitized(r.query) \subseteq Words[c.quad][c.part]}

\* buildIncludeExcludeFilterClauses: an empty list is no condition.
Passes(r, q) ==
    \A d \in Dimension : /\ Terms[q][d] \notin r.exclude[d]
                         /\ r.include[d] # {} => Terms[q][d] \in r.include[d]

\* A mutant: the window takes all of S.
RankingsOfAll(S, n) == Bijection(S, 1..Cardinality(S))

\* The ways to rank the best n of S.
Rankings(S, n) ==
    LET m == Min({n, Cardinality(S)})
    IN  UNION {Bijection(W, 1..m) : W \in kSubset(m, S)}

\* The join of a window with chunks, filtered: rows keep the rank the window gave
\* them, and the rows the filter takes out are not made up for.
Joined(r, ranking) ==
    [c \in {d \in chunks : d.id \in DOMAIN ranking /\ Passes(r, d.quad)} |->
        ranking[c.id]]

\* buildKeywordFtsStatement
KeywordRows(r) == {Joined(r, w) : w \in Rankings(Ids(Matches(r)), r.limit)}

\* buildVectorStatement: sqlite-vec ranks all vectors by distance.
VectorRows(r) == {Joined(r, w) : w \in Rankings(vec, r.limit)}

Fits(S, r) == Cardinality(S) <= r.limit

-----------------------------------------------------------------------------
\* The calls.

\* buildSearchQuery: the branches a request gets.
PlanFor(r, hasVector) ==
    (IF hasVector THEN {"vector"} ELSE {})
    \cup (IF Sanitized(r.query) # {} THEN {"keyword"} ELSE {})

\* executePlan up to its first await: the keyword statement, or the vector
\* statement when it is alone, runs at once.
Execute(r, hasVector) ==
    LET branches == PlanFor(r, hasVector)
    IN  /\ plan' = branches
        /\ place' = IF branches = {"keyword", "vector"} THEN "vector" ELSE "answer"
        /\ IF "keyword" \in branches THEN kw' \in KeywordRows(r) ELSE kw' = <<>>
        /\ IF branches = {"vector"} THEN vc' \in VectorRows(r) ELSE vc' = <<>>
        /\ held' = Ids(DOMAIN kw')
        /\ roomy' = /\ "keyword" \in branches => Fits(Matches(r), r)
                    /\ branches = {"vector"} => Fits(vec, r)

CallSearch(r) ==
    /\ place = "idle"
    /\ req' = r
    /\ seen' = quads /\ steady' = chunks /\ lasting' = vec
    /\ IF Vectors
       THEN place' = "embed" /\ UNCHANGED <<plan, kw, vc, held, roomy>>
       ELSE Execute(r, FALSE)
    /\ UNCHANGED <<database, local, mode, pc, history>>

\* The embedding arrives.
QueryEmbedded ==
    /\ place = "embed"
    /\ Execute(req, TRUE)
    /\ UNCHANGED <<database, local, mode, pc, history, req, seen, steady, lasting>>

\* The service fails, or its vector has another dimension: keywords alone.
QueryNotEmbedded ==
    /\ "embed" \in Fault /\ place = "embed"
    /\ Execute(req, FALSE)
    /\ UNCHANGED <<database, local, mode, pc, history, req, seen, steady, lasting>>

\* The vector statement of a hybrid search.
SearchVectors ==
    /\ place = "vector"
    /\ vc' \in VectorRows(req)
    /\ place' = "answer"
    /\ roomy' = (roomy /\ Fits(vec, req))
    /\ UNCHANGED <<vars, req, plan, kw, seen, steady, lasting>>

Forget ==
    /\ place' = "idle" /\ req' = NoRequest /\ plan' = {} /\ kw' = <<>> /\ vc' = <<>>
    /\ held' = {}
    /\ seen' = {} /\ steady' = {} /\ lasting' = {} /\ roomy' = TRUE
    /\ UNCHANGED <<database, local, mode, pc, history>>

Answer == place = "answer" /\ Forget

\* A statement throws, and with it the search.
SearchFails == "statement" \in Fault /\ place \in {"embed", "vector"} /\ Forget

\* A writer's step between two statements of a search.  The writers may be in
\* another process than the search, which then outlives their crash.
Writes ==
    /\ place # "answer"
    /\ Write
    /\ IF place = "idle" THEN UNCHANGED <<seen, steady, lasting>>
       ELSE /\ seen' = seen \cup quads'
            /\ steady' = steady \cap chunks'
            /\ lasting' = lasting \cap vec'
    /\ UNCHANGED <<found, held, roomy>>

SearchNext ==
    \/ \E r \in Request : CallSearch(r)
    \/ QueryEmbedded \/ QueryNotEmbedded \/ SearchVectors
    \/ Answer \/ SearchFails
    \/ Writes

SearchSpec == SearchInit /\ [][SearchNext]_searchVars

-----------------------------------------------------------------------------
\* The answer: the JavaScript side of a search.

\* The fused rows: a chunk id both statements returned is one row.
Rows == DOMAIN kw \cup {c \in DOMAIN vc : c.id \notin Ids(DOMAIN kw)}

\* What a branch adds to the score of c, as a fraction.
Share(branch, c) ==
    LET ranks == {branch[d] : d \in {e \in DOMAIN branch : e.id = c.id}}
    IN  IF ranks = {} THEN <<0, 1>> ELSE <<1, FusionK + Min(ranks)>>

\* A mutant: the vector branch replaces what the keyword branch gave.
ScoreReplaced(c) ==
    IF c.id \in Ids(DOMAIN vc) THEN Share(vc, c) ELSE Share(kw, c)

Score(c) ==
    LET k == Share(kw, c) v == Share(vc, c)
    IN  <<k[1] * v[2] + v[1] * k[2], k[2] * v[2]>>

Greater(s, t) == s[1] * t[2] > t[1] * s[2]

\* Where the Map holds the row: keyword rows first, each branch by rank.
Slot(c) == IF c \in DOMAIN kw THEN kw[c] ELSE req.limit + vc[c]

\* c is sorted before d: by score, then subject, and the sort is stable.
Before(c, d) ==
    LET s == Terms[c.quad].subject t == Terms[d.quad].subject
    IN  \/ Greater(Score(c), Score(d))
        \/ /\ ~Greater(Score(d), Score(c))
           /\ s < t \/ (s = t /\ Slot(c) < Slot(d))

\* The rows the limit leaves, and of these the ones with the score asked for.
Listed == {c \in Rows : Cardinality({d \in Rows : Before(d, c)}) < req.limit}
Results == {c \in Listed : ~Greater(req.minScore, Score(c))}

\* buildSearchResultId: the hash of the terms and the text.
ResultId(c) == <<Terms[c.quad], Words[c.quad][c.part]>>

-----------------------------------------------------------------------------
SearchTypeOK ==
    /\ place \in {"idle", "embed", "vector", "answer"}
    /\ req \in Request \cup {NoRequest}
    /\ plan \subseteq {"keyword", "vector"}
    /\ \A rows \in {kw, vc} : \A c \in DOMAIN rows :
          c.quad \in Quad /\ c.part \in 1..Parts[c.quad] /\ rows[c] \in 1..req.limit
    /\ held = Ids(DOMAIN kw)
    /\ seen \subseteq Quad /\ lasting \subseteq vec /\ roomy \in BOOLEAN

\* Search answers with what the store holds: every result is of a quad that was
\* stored at some moment of the search, passes its filter, and has the words of
\* the query if it was found by them.
FoundWasStored ==
    place = "answer" /\ apart =>
        \A c \in Results : /\ c.quad \in seen /\ Passes(req, c.quad)
                           /\ c \in DOMAIN kw =>
                                Sanitized(req.query) \subseteq Words[c.quad][c.part]

\* No statement that found c ranks it below its first FusionK + 1.
RankedHigh(c) == \A rows \in {kw, vc} : c \in DOMAIN rows => rows[c] <= FusionK + 1

\* What was there all along is found: a chunk that no writer touched during the
\* search, that has every word of the query that is not filler and passes the
\* filter, is in the answer as long as the windows held what there was.  When the
\* search used vectors, this asks that its vector was there too, and that both
\* statements rank it high: then no row that only one of them found comes first.
SteadyIsFound ==
    place = "answer" /\ roomy /\ req.query \ Stopword # {} =>
        \A c \in steady :
            /\ req.query \ Stopword \subseteq Words[c.quad][c.part]
            /\ Passes(req, c.quad)
            /\ "vector" \in plan => c.id \in lasting /\ RankedHigh(c)
            => c \in Listed

\* The fusion adds up ranks of one text: a chunk id that both statements return
\* is the same chunk, though a refresh may delete chunks and insert others
\* between the two.
FusionJoinsOneChunk ==
    \A c \in DOMAIN kw, d \in DOMAIN vc : c.id = d.id => c = d

\* One part of one quad is listed twice only if its chunk was replaced while the
\* search ran: with the chunks standing still, equal result ids mean two quads or
\* two parts of equal texts.
TwinsWereRefreshed ==
    place = "answer" /\ apart =>
        \A c, d \in Results :
            ResultId(c) = ResultId(d) /\ c # d /\ {c, d} \subseteq steady =>
                <<c.quad, c.part>> # <<d.quad, d.part>>
=============================================================================
