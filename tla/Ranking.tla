------------------------------ MODULE Ranking ------------------------------
(***************************************************************************)
(* How a query becomes a ranked list: BM25 and reciprocal rank fusion      *)
(* (search/bm25.rs, search/fusion.rs), boosts, penalties and the final     *)
(* selection (search/ranking.rs), and the pipelines made of them:          *)
(* Index::search and Index::find_related (search/index.rs),                *)
(* SearchStore::search_hybrid (search/store.rs).                           *)
(*                                                                         *)
(* Scores are integers in Units, and a product with a constant factor is   *)
(* rounded down, as f32 rounds.  A list of hits is a sequence of records   *)
(* with fields id and score.  Iteration over a hash map is ascending, one  *)
(* of the orders it may have.                                              *)
(***************************************************************************)
EXTENDS Integers, Sequences, FiniteSets, SequencesExt, FiniteSetsExt

None  == -1        \* no distance, no depth
Units == 7624512   \* the score 1.0; a multiple of 61, 62, 63 and 64

Times(score, tenths) == (score * tenths) \div 10

(* Stable, best first.                                                     *)
Ahead(hits, i, j) ==
    hits[i].score > hits[j].score \/ (hits[i].score = hits[j].score /\ i < j)

Sorted(hits) ==
    [r \in DOMAIN hits |-> hits[CHOOSE i \in DOMAIN hits :
        Cardinality({j \in DOMAIN hits : Ahead(hits, j, i)}) = r - 1]]

Take(s, k) == SubSeq(s, 1, IF k < Len(s) THEN k ELSE Len(s))

Best(S) == IF S = {} THEN 0 ELSE Max(S)

(* A map of scores as a list, and the best of a list or map.               *)
Entries(map) ==
    LET ids == SetToSortSeq(DOMAIN map, <)
    IN  [i \in DOMAIN ids |-> [id |-> ids[i], score |-> map[ids[i]]]]

MaxScore(map) == Best({map[id] : id \in DOMAIN map})

-----------------------------------------------------------------------------
(* bm25.rs.  Each document is a sequence of terms.  The logarithm of the   *)
(* idf is replaced by a number that falls with df as it does; k1 = 1.5 and *)
(* b = 0.75.                                                               *)
Occurrences(doc, term) == Cardinality({i \in DOMAIN doc : doc[i] = term})

Postings(docs, term) == {d \in DOMAIN docs : Occurrences(docs[d], term) > 0}

Idf(docs, term) == Len(docs) - Cardinality(Postings(docs, term)) + 1

TotalLength(docs) == FoldSeq(LAMBDA doc, n : Len(doc) + n, 0, docs)

TermScore(docs, d, term) ==
    LET tf    == Occurrences(docs[d], term)
        total == TotalLength(docs)
    IN  (Idf(docs, term) * 20000 * total * tf)
            \div (8 * total * tf + 3 * total + 9 * Len(docs[d]) * Len(docs))

(* A term that is twice in the query counts twice.                         *)
Bm25Score(docs, query, d) ==
    FoldSeq(LAMBDA term, n : n + IF d \in Postings(docs, term) THEN TermScore(docs, d, term) ELSE 0,
            0, query)

(* Masked documents score nothing; the best k that score at all.           *)
Bm25Top(docs, query, mask, k) ==
    LET scores == [d \in DOMAIN docs |->
                      [id |-> d, score |-> IF d \in mask THEN Bm25Score(docs, query, d) ELSE 0]]
    IN  SelectSeq(Take(Sorted(scores), k), LAMBDA h : h.score > 0)

(* embed.rs, cosine_topk: masked rows never appear.                        *)
CosineTop(sim, mask, k) ==
    Take(Sorted(SelectSeq([d \in DOMAIN sim |-> [id |-> d, score |-> sim[d]]],
                          LAMBDA h : h.id \in mask)), k)

-----------------------------------------------------------------------------
(* fusion.rs.                                                              *)
RRF_K == 60

Alpha(isSymbol) == IF isSymbol THEN 3 ELSE 5

(* An id that is several times in the list keeps the rank it has last,     *)
(* although the comment of its caller says the best.                       *)
RrfScores(hits) ==
    LET byRank == Sorted(hits)
        ids    == {hits[i].id : i \in DOMAIN hits}
    IN  [id \in ids |-> Units \div (RRF_K + Max({r \in DOMAIN byRank : byRank[r].id = id}))]

At(map, id) == IF id \in DOMAIN map THEN map[id] ELSE 0

Combine(semantic, bm25, alpha) ==
    [id \in DOMAIN semantic \cup DOMAIN bm25 |->
        Times(At(semantic, id), alpha) + Times(At(bm25, id), 10 - alpha)]

-----------------------------------------------------------------------------
(* ranking.rs.  A chunk is a record:                                       *)
(*   file, language                                                        *)
(*   defines   whether its text defines a symbol of the query              *)
(* and of its file:                                                        *)
(*   stem      whether the stem of the file matches such a symbol          *)
(*   keywords  tenths of the query's keywords found in the path            *)
(*   kinds     what kinds of path count against it                         *)

(* The best chunk of every file, in proportion to the file's total.        *)
BoostMultiChunkFiles(scores, chunks) ==
    LET files     == {chunks[id].file : id \in DOMAIN scores}
        Of(f)     == {id \in DOMAIN scores : chunks[id].file = f}
        sum       == [f \in files |-> MapThenSumSet(LAMBDA id : scores[id], Of(f))]
        Top(f)    == CHOOSE id \in Of(f) : \A other \in Of(f) :
                        scores[id] > scores[other] \/ (scores[id] = scores[other] /\ id <= other)
        unit      == Times(MaxScore(scores), 2)
        extra(f)  == (unit * ((sum[f] * 1000) \div Best({sum[g] : g \in files}))) \div 1000
    IN  IF MaxScore(scores) = 0 THEN scores
        ELSE [id \in DOMAIN scores |->
                scores[id] + IF Top(chunks[id].file) = id THEN extra(chunks[id].file) ELSE 0]

DefinitionTier(chunk, unit) ==
    IF ~chunk.defines THEN 0 ELSE IF chunk.stem THEN Times(unit, 15) ELSE unit

(* boost_symbol_definitions, boost_embedded_symbols: candidates, and any   *)
(* other chunk of a file whose stem matches, of whatever language.         *)
BoostDefinitions(scores, chunks, unit) ==
    LET added == {id \in DOMAIN chunks \ DOMAIN scores :
                     chunks[id].stem /\ DefinitionTier(chunks[id], unit) > 0}
    IN  [id \in DOMAIN scores \cup added |->
            At(scores, id) + DefinitionTier(chunks[id], unit)]

(* boost_stem_matches: one keyword in ten must be in the path.             *)
BoostStems(scores, chunks, max) ==
    [id \in DOMAIN scores |-> scores[id] +
        IF chunks[id].keywords >= 1 THEN Times(max, chunks[id].keywords) ELSE 0]

ApplyQueryBoost(scores, chunks, query) ==
    LET max == MaxScore(scores)
    IN  CASE scores = <<>>  -> scores
          [] query.isSymbol -> BoostDefinitions(scores, chunks, 3 * max)
          [] OTHER          -> LET stems == BoostStems(scores, chunks, max)
                               IN  IF query.embedsSymbol
                                   THEN BoostDefinitions(stems, chunks, Times(3 * max, 5))
                                   ELSE stems

(* rerank_topk: after the first of a file each counts half the one before; *)
(* the walk stops when no later hit can be among the best k.               *)
Decayed(score, already) == score \div (2 ^ already)

PathFactors ==
    [test |-> 3, reexport |-> 5, compat |-> 3, examples |-> 3, types |-> 7]   \* tenths

(* file_path_penalty: a path may be of several kinds.                      *)
PathPenalty(score, kinds) == FoldSet(LAMBDA kind, s : Times(s, PathFactors[kind]), score, kinds)

Penalised(scores, chunks, penalise) ==
    LET all == Entries(scores)
    IN  Sorted([i \in DOMAIN all |->
            [all[i] EXCEPT !.score = IF penalise THEN PathPenalty(@, chunks[all[i].id].kinds) ELSE @]])

SelectHit(chunks, selected, hit) ==
    LET already == Cardinality({i \in DOMAIN selected :
                        chunks[selected[i].id].file = chunks[hit.id].file})
    IN  Append(selected, [hit EXCEPT !.score = Decayed(@, already)])

MinSelected(selected) == Min({selected[i].score : i \in DOMAIN selected})

(* Mutant: the best selected hit decides instead of the worst.             *)
Enough_Best(selected, hit, k) ==
    Len(selected) >= k /\ hit.score <= Max({selected[i].score : i \in DOMAIN selected})

Enough(selected, hit, k) == Len(selected) >= k /\ hit.score <= MinSelected(selected)

RerankTopK(scores, chunks, k, penalise) ==
    LET walk(st, hit) ==
            IF st.done \/ Enough(st.selected, hit, k) THEN [st EXCEPT !.done = TRUE]
            ELSE [st EXCEPT !.selected = SelectHit(chunks, @, hit)]
        end == FoldLeft(walk, [selected |-> <<>>, done |-> FALSE],
                        Penalised(scores, chunks, penalise))
    IN  IF k = 0 THEN <<>> ELSE Take(Sorted(end.selected), k)

-----------------------------------------------------------------------------
(* index.rs.                                                               *)

LanguageMask(chunks, languages) ==
    {d \in DOMAIN chunks : languages = {} \/ chunks[d].language \in languages}

(* A query is a record: terms, isSymbol, embedsSymbol and sim, how similar *)
(* each chunk is to it.                                                    *)
Search(chunks, docs, query, k, languages) ==
    LET mask     == LanguageMask(chunks, languages)
        semantic == RrfScores(CosineTop(query.sim, mask, 5 * k))
        lexical  == RrfScores(Bm25Top(docs, query.terms, mask, 5 * k))
        fused    == Combine(semantic, lexical, Alpha(query.isSymbol))
        boosted  == ApplyQueryBoost(BoostMultiChunkFiles(fused, chunks), chunks, query)
    IN  IF Len(chunks) = 0 \/ k = 0 THEN <<>> ELSE RerankTopK(boosted, chunks, k, TRUE)

(* resolve_chunk: the first chunk that holds the line, its end excluded,   *)
(* or else the last that ends on it; 0 when there is none.                 *)
ResolveChunk(chunks, file, line) ==
    LET inside == {c \in DOMAIN chunks : chunks[c].file = file
                       /\ chunks[c].start <= line /\ line < chunks[c].end}
        ends   == {c \in DOMAIN chunks : chunks[c].file = file /\ line = chunks[c].end}
    IN  IF inside # {} THEN Min(inside) ELSE Best(ends)

(* Importers and importees come first.                                     *)
Nearness(depth) == CASE depth = 1 -> 14 [] depth = 2 -> 12 [] OTHER -> 10

(* depths: how far each file is from the source, or None; without a cached *)
(* graph there are no depths at all.                                       *)
FindRelated(chunks, sim, source, k, depths) ==
    LET mask    == {d \in DOMAIN chunks : d # source /\ chunks[d].language = chunks[source].language}
        top     == CosineTop(sim, mask, 5 * k)
        boosted == [i \in DOMAIN top |->
                       [top[i] EXCEPT !.score = Times(@, Nearness(depths[chunks[top[i].id].file]))]]
    IN  Take(Sorted(boosted), k)

-----------------------------------------------------------------------------
(* store.rs, search_hybrid_filtered.  A row is a record: repo, path, terms *)
(* (its text), dist (of its vector to the query, in hundredths, or None).  *)
(* summaries: such a distance for some repositories and paths.             *)
LooseMax  == 110
StrictMax == 100
AnyRepo   == "any"

(* knn over a table: the n nearest that have a vector, nearest first.      *)
Nearest(table, n) ==
    Take(Sorted(SelectSeq([v \in DOMAIN table |-> [id |-> v, score |-> -table[v].dist]],
                          LAMBDA h : table[h.id].dist # None)), n)

Near(hit) == hit.score >= -LooseMax

(* The chunks of every file whose summary is near, discounted so that a    *)
(* direct hit wins.                                                        *)
OfFile(rows, all, summary) ==
    SelectSeq(all, LAMBDA r : rows[r].repo = summary.repo /\ rows[r].path = summary.path)

SummaryHits(rows, all, summaries, n) ==
    LET hits(s) ==
            LET of == OfFile(rows, all, summaries[s.id])
            IN  IF Near(s) THEN [j \in DOMAIN of |-> [id |-> of[j], score |-> s.score - 5]] ELSE <<>>
    IN  FoldLeft(LAMBDA found, s : found \o hits(s), <<>>, Nearest(summaries, n))

(* Neighbours of other repositories are fetched too, and dropped; without  *)
(* any chunk vector the summaries are not asked.                           *)
SemanticHits(rows, all, summaries, k, repo) ==
    LET reach == IF repo = AnyRepo THEN 4 * k ELSE 16 * k
    IN  IF \A r \in DOMAIN rows : rows[r].dist = None THEN <<>>
        ELSE SelectSeq(Nearest(rows, reach), LAMBDA h : Near(h) /\ h.id \in Range(all))
                \o SummaryHits(rows, all, summaries, 4 * k)

LexicalHits(rows, all, terms, k) ==
    LET docs == [i \in DOMAIN all |-> rows[all[i]].terms]
        top  == Bm25Top(docs, terms, DOMAIN docs, 4 * k)
    IN  [i \in DOMAIN top |-> [top[i] EXCEPT !.id = all[@]]]

(* The last resort, in table order; a row holds the query or not.          *)
Substring(rows, all, k) ==
    LET found == SelectSeq(all, LAMBDA r : rows[r].contains)
    IN  Take([i \in DOMAIN found |-> [id |-> found[i], score |-> Units]], k)

(* The strict floor, for a query no term of which is known; the hits of    *)
(* both lanes stay one after the other.                                    *)
Strict(semantic, k) == Take(SelectSeq(semantic, LAMBDA h : h.score >= -StrictMax), k)

SearchHybrid(rows, summaries, query, k, repo) ==
    LET all      == SetToSortSeq({r \in DOMAIN rows : repo \in {AnyRepo, rows[r].repo}}, <)
        lexical  == LexicalHits(rows, all, query.terms, k)
        semantic == IF query.encoded THEN SemanticHits(rows, all, summaries, k, repo) ELSE <<>>
        fused    == Entries(Combine(RrfScores(semantic), RrfScores(lexical), Alpha(query.isSymbol)))
        result(lane, hits) == [lane |-> lane, hits |-> hits]
    IN  CASE all = <<>>                         -> result("empty", <<>>)
          [] lexical # <<>> /\ semantic # <<>> -> result("fusion", Take(Sorted(fused), k))
          [] lexical # <<>> /\ semantic = <<>> -> result("bm25", Take(lexical, k))
          [] lexical = <<>> /\ Strict(semantic, k) # <<>> ->
                result("semantic", Strict(semantic, k))
          [] OTHER -> result("substring", Substring(rows, all, k))

-----------------------------------------------------------------------------
(* query/find_context.rs.  A node says in how many query words its symbol, *)
(* its path and its summary hold; hits of the search lane are node ids.    *)
TokensPerItem == 80
MaxItems      == 30

ScoreNode(node) == 6 * node.symbol + 3 * node.path + 2 * node.summary   \* in halves

SubstringLane(nodes) ==
    Sorted(SelectSeq([n \in DOMAIN nodes |-> [id |-> n, score |-> ScoreNode(nodes[n])]],
                     LAMBDA h : nodes[h.id].symbol + nodes[h.id].path > 0))

(* One over sixty and the rank, from either lane or both.                  *)
Contribution(lane, id) ==
    MapThenSumSet(LAMBDA r : IF lane[r].id = id THEN Units \div (RRF_K + r) ELSE 0, DOMAIN lane)

FuseLanes(substring, search) ==
    [id \in {substring[i].id : i \in DOMAIN substring} \cup {search[i].id : i \in DOMAIN search} |->
        Contribution(substring, id) + Contribution(search, id)]

(* As many as fit the budget.                                              *)
ContextItems(substring, search, budget) ==
    LET fit == budget \div TokensPerItem
    IN  Take(Sorted(Entries(FuseLanes(substring, search))), IF fit < MaxItems THEN fit ELSE MaxItems)

-----------------------------------------------------------------------------
(* tokens.rs.  A word is a sequence of the classes of its characters.      *)
Run(word, i, class) ==
    LET outside == {j \in i..Len(word) : word[j] # class}
    IN  IF outside = {} THEN Len(word) ELSE Min(outside) - 1

(* The last character of the part that starts at i: an acronym leaves its  *)
(* last capital to the word that follows.                                  *)
PartEnd(word, i) ==
    LET e == Run(word, i, "upper")
    IN  CASE word[i] \in {"digit", "lower"} -> Run(word, i, word[i])
          [] word[i] = "upper" /\ e > i ->
                IF e < Len(word) /\ word[e + 1] = "lower" THEN e - 1 ELSE e
          [] word[i] = "upper" /\ e = i ->
                IF i < Len(word) THEN Run(word, i + 1, "lower") ELSE i
          [] OTHER -> i

CamelSplit(word) ==
    LET parts[i \in 1..Len(word) + 1] ==
            IF i > Len(word) THEN <<>>
            ELSE (IF word[i] = "other" THEN <<>> ELSE << <<i, PartEnd(word, i)>> >>)
                    \o parts[PartEnd(word, i) + 1]
    IN  parts[1]

(* Where there is an underscore only underscores split.                    *)
SnakeSplit(word) ==
    LET starts == {i \in DOMAIN word : word[i] # "other" /\ (i = 1 \/ word[i - 1] = "other")}
        order  == SetToSortSeq(starts, <)
        End(i) == LET stops == {j \in i..Len(word) : word[j] = "other"}
                  IN  IF stops = {} THEN Len(word) ELSE Min(stops) - 1
    IN  [p \in DOMAIN order |-> <<order[p], End(order[p])>>]

SplitIdentifier(word) ==
    LET parts == IF "other" \in Range(word) THEN SnakeSplit(word) ELSE CamelSplit(word)
    IN  IF Len(parts) >= 2 THEN parts ELSE <<>>
=============================================================================
