----------------------------- MODULE SearchResults -----------------------------
(***************************************************************************)
(* What one hybrid search shows: the lexical page (lixun-index), its       *)
(* fusion with the answers of the semantic worker (lixun-fusion), and the  *)
(* ranking, hiding and filtering each chunk goes through in the daemon     *)
(* before the launcher lays it out.  Without a semantic worker, which is   *)
(* the default, there is one chunk, final, of the lexical page.  While the *)
(* worker thinks, a document may be hidden, visited or deleted; the two    *)
(* chunks then see different stores.                                       *)
(*                                                                         *)
(* Documents are numbers: ties are broken by id (where the index breaks    *)
(* them by address, by one order of many).  A document's text is what the  *)
(* query makes of it (srKind).  Scores are integers, SrOne for 1.0, so     *)
(* that 1/(60+rank) is exact for the ranks used.  Delivery, cancellation   *)
(* and errors of a search are SearchSession's.                             *)
(***************************************************************************)
EXTENDS Integers, Sequences, FiniteSets, SequencesExt

CONSTANTS
    SrDocs,     \* the documents of the index: 1..n
    SrBm25,     \* the raw score of each
    SrCategory, \* the category of each, plugin hits included
    SrAnnText,  \* the answers the text channel may give: sequences of documents
    SrAnnImage, \* and the image channel
    SrRequests, \* the requests: [ann, limit, category, explain, refill, navigational],
                \* ann where the daemon has a semantic worker
    SrEvents    \* how many times the stores change during the search

ASSUME SrAssumption ==
    /\ SrDocs \subseteq Nat /\ 0 \notin SrDocs
    /\ SrBm25 \in [SrDocs -> {1, 2}]
    /\ SrEvents \in Nat

SrPlugin == 0           \* the id of the plugin's hit
SrOne == 2382660        \* 10 * 61 * 62 * 63
SrNone == "none"        \* no category
SrNoHit == -1           \* no top hit

VARIABLES
    srReq,      \* the request
    srKind,     \* what the query makes of a document: none | partial | full | exact
    srPlug,     \* the plugin: quiet | fanout | claims
    srLive,     \* the documents of the index now
    srHidden,   \* the blocklist
    srHabit,    \* the documents frecency and latch favour
    srPc,       \* lexical | initial | ann | final | plugins | done
    srLex,      \* the lexical page
    srOut,      \* the page of the final chunk: fused, or lexical
    srWork,     \* the chunk being processed: [hits, expl, hidden]
    srPage,     \* the last chunk sent
    srLeft      \* changes of the stores left

srVars == <<srReq, srKind, srPlug, srLive, srHidden, srHabit, srPc, srLex, srOut, srWork, srPage, srLeft>>

-----------------------------------------------------------------------------
\* The lexical page (LixunIndex::search_with_breakdown).

\* build_search_query: every word, or, for the refill, any of them.
Matches(d, conjunctive) == srKind[d] \in IF conjunctive THEN {"full", "exact"} ELSE {"partial", "full", "exact"}

TopDocs(S, score, n) ==
    LET s == SetToSortSeq(S, LAMBDA a, b : score[a] > score[b] \/ (score[a] = score[b] /\ a < b))
    IN  SubSeq(s, 1, IF Len(s) < n THEN Len(s) ELSE n)

\* The multipliers of title, prefix, recency and coordination: an exact title doubles.
DocMult(d) == IF srKind[d] = "exact" THEN 2 ELSE 1

\* The page: full matches above the fallback tier, each by its score.
Scored(merged, fallback, base, limit) ==
    LET score == [d \in merged \cup fallback |-> SrOne * DocMult(d) * base[d]]
        page  == TopDocs(merged, score, limit) \o TopDocs(fallback, score, limit)
    IN  [i \in 1 .. (IF Len(page) < limit THEN Len(page) ELSE limit) |->
            [id |-> page[i], score |-> score[page[i]], fallback |-> page[i] \in fallback,
             precise |-> srKind[page[i]] = "exact"]]

\* The best full matches; exact titles join them with the best score of the
\* page, partial matches where the page is not full.
LexicalSearch(limit) ==
    LET strong   == TopDocs({d \in srLive : Matches(d, TRUE)}, SrBm25, limit)
        top      == IF \E i \in DOMAIN strong : SrBm25[strong[i]] = 2 THEN 2 ELSE 1
        exact    == {d \in srLive : srKind[d] = "exact"} \ Range(strong)
        merged   == Range(strong) \cup exact
        fallback == IF Cardinality(merged) < limit /\ srReq.refill
                    THEN Range(TopDocs({d \in srLive : Matches(d, FALSE)}, SrBm25, limit)) \ merged
                    ELSE {}
    IN  Scored(merged, fallback, [d \in SrDocs |-> IF d \in exact THEN top ELSE SrBm25[d]], limit)

\* hydrate_docs_by_ids: dead documents are skipped.
Hydrate(ids) == ids \cap srLive

-----------------------------------------------------------------------------
\* Fusion (lixun-fusion).

\* (bm25, text, image) weights in tenths; a file name pins the query to text.
Weights(modality) ==
    CASE srReq.navigational  -> <<10, 10, 10>>
      [] modality = "image"  -> <<10, 8, 18>>
      [] modality = "both"   -> <<10, 10, 13>>
      [] OTHER               -> <<10, 10, 10>>

RrfTerm(list, d, w) ==
    IF d \in Range(list) THEN w * ((61 * 62 * 63) \div (60 + (CHOOSE i \in DOMAIN list : list[i] = d))) ELSE 0

RrfScore(d, bm25, text, image, w) == RrfTerm(bm25, d, w[1]) + RrfTerm(text, d, w[2]) + RrfTerm(image, d, w[3])

rrf_fuse_3way_weighted(bm25, text, image, w) ==
    LET ids == Range(bm25) \cup Range(text) \cup Range(image)
    IN  TopDocs(ids, [d \in ids |-> RrfScore(d, bm25, text, image, w)], Cardinality(ids))

precision_first_never(fused, precise, lexical) == fused

precision_first(fused, precise, lexical) ==
    IF precise = {} THEN fused
    ELSE SelectSeq(fused, LAMBDA d : d \in lexical) \o SelectSeq(fused, LAMBDA d : d \notin lexical)

\* x * 0.95^n.
Decay(x, n) ==
    LET dec[k \in 0 .. n] == IF k = 0 THEN x ELSE (dec[k - 1] * 19) \div 20
    IN  dec[n]

\* The score of fused position i: the i-th best lexical score, then below the last.
ScoreForRank(ladder, i, rrf) ==
    CASE i =< Len(ladder) -> ladder[i]
      [] i > Len(ladder) /\ ladder # <<>> -> Decay(ladder[Len(ladder)], i - Len(ladder))
      [] OTHER -> rrf

\* Partial matches fill what fusion left of the page, below its last hit.
Filler_own_score(out, limit) ==
    LET taken == {out[i].id : i \in DOMAIN out}
        rest  == SelectSeq(srLex, LAMBDA h : h.fallback /\ h.id \notin taken)
        n     == IF Len(rest) < limit - Len(out) THEN Len(rest) ELSE limit - Len(out)
    IN  [i \in 1 .. n |-> [id |-> rest[i].id, score |-> rest[i].score, tier |-> "filler"]]

Filler(out, limit) ==
    LET taken == {out[i].id : i \in DOMAIN out}
        rest  == SelectSeq(srLex, LAMBDA h : h.fallback /\ h.id \notin taken)
        n     == IF Len(rest) < limit - Len(out) THEN Len(rest) ELSE limit - Len(out)
        floor == IF out = <<>> THEN SrOne ELSE out[Len(out)].score
    IN  [i \in 1 .. n |-> [id |-> rest[i].id, score |-> Decay(floor, i), tier |-> "filler"]]

Fuse(text, image, modality, limit) ==
    LET strong  == SelectSeq(srLex, LAMBDA h : ~h.fallback)
        bm25    == [i \in DOMAIN strong |-> strong[i].id]
        w       == Weights(modality)
        fused   == precision_first(rrf_fuse_3way_weighted(bm25, text, image, w),
                                   {h.id : h \in {strong[i] : i \in {j \in DOMAIN strong : strong[j].precise}}},
                                   Range(bm25))
        ladder  == [i \in DOMAIN strong |-> strong[i].score]
        window  == SubSeq(fused, 1, IF Len(fused) < limit THEN Len(fused) ELSE limit)
        known   == {srLex[i].id : i \in DOMAIN srLex}
        have    == known \cup Hydrate(Range(window) \ known)
        placed  == [i \in DOMAIN window |->
                       [id |-> window[i],
                        score |-> ScoreForRank(ladder, i, RrfScore(window[i], bm25, text, image, w)),
                        tier |-> IF window[i] \in Range(bm25) THEN "lexical" ELSE "ann"]]
        out     == SelectSeq(placed, LAMBDA h : h.id \in have)
    IN  IF Len(out) < limit THEN out \o Filler(out, limit) ELSE out

-----------------------------------------------------------------------------
\* One chunk in the daemon (process_search_chunk).

\* frecency * latch, capped.
Stage2(d) == IF d \in srHabit THEN (IF 2 * 2 > 3 THEN 3 ELSE 2 * 2) ELSE 1

\* The blocklist is read once; the explanations are dropped with their hits.
DropHidden_hits_only(hits, expl, hidden) ==
    [hits |-> SelectSeq(hits, LAMBDA h : h.id \notin hidden), expl |-> expl]

DropHidden(hits, expl, hidden) ==
    [hits |-> SelectSeq(hits, LAMBDA h : h.id \notin hidden),
     expl |-> SelectSeq(expl, LAMBDA h : h.id \notin hidden)]

Favour(s) == [i \in DOMAIN s |-> [s[i] EXCEPT !.score = @ * Stage2(s[i].id)]]

\* The plugin's confidence of one half, on the scale of the best hit.
PluginHit(hits) ==
    LET best == CHOOSE m \in {hits[i].score : i \in DOMAIN hits} \cup {SrOne} :
                    m >= SrOne /\ \A i \in DOMAIN hits : hits[i].score =< m
    IN  [id |-> SrPlugin, score |-> best \div 2, tier |-> "plugin"]

Rank(s) == SortSeq(s, LAMBDA a, b : a.score > b.score \/ (a.score = b.score /\ a.id < b.id))

select_top_hit_second(hits) == IF Len(hits) > 1 THEN hits[2].id ELSE SrNoHit

select_top_hit(hits) ==
    IF hits = <<>> THEN SrNoHit
    ELSE LET c       == hits[1].id
             alone   == Len(hits) = 1
             sure    == (c # SrPlugin /\ srKind[c] = "exact")
                        \/ (c \in srHabit /\ (alone \/ hits[2].id \notin srHabit))
             margin  == alone \/ hits[1].score * 10 >= hits[2].score * 12
         IN  IF sure /\ margin THEN c ELSE SrNoHit

\* The category is applied to the ranked page, then the page is cut.
KeepCategory(s, limit) ==
    LET kept == SelectSeq(s, LAMBDA h : SrCategory[h.id] = srReq.category)
    IN  SubSeq(kept, 1, IF Len(kept) < limit THEN Len(kept) ELSE limit)

Chunk(phase, hits, expl, hidden, claimed) ==
    LET ranked == Rank(hits)
        filter == srReq.category # SrNone /\ ~claimed
    IN  [phase |-> phase, claimed |-> claimed, hidden |-> hidden, habit |-> srHabit,
         hits  |-> IF filter THEN KeepCategory(ranked, srReq.limit) ELSE ranked,
         expl  |-> IF filter THEN KeepCategory(Rank(expl), srReq.limit) ELSE Rank(expl),
         top   |-> IF phase = "final" THEN select_top_hit(ranked) ELSE SrNoHit]

\* The chip fetches four pages.
FetchLimit == IF srReq.category # SrNone THEN 4 * srReq.limit ELSE srReq.limit

Explained(s) == IF srReq.explain THEN s ELSE <<>>

-----------------------------------------------------------------------------
NoPage == [phase |-> "none", claimed |-> FALSE, hidden |-> {}, habit |-> {},
           hits |-> <<>>, expl |-> <<>>, top |-> SrNoHit]

SrInit ==
    /\ srReq \in SrRequests
    /\ srKind \in [SrDocs -> {"none", "partial", "full", "exact"}]
    /\ srPlug \in {"quiet", "fanout", "claims"}
    /\ srLive = SrDocs /\ srHidden = {} /\ srHabit = {}
    /\ srPc = "lexical" /\ srLex = <<>> /\ srOut = <<>>
    /\ srWork = [hits |-> <<>>, expl |-> <<>>, hidden |-> {}]
    /\ srPage = NoPage /\ srLeft = SrEvents

\* The lexical page as it is sent.
Lexical(page) ==
    [i \in DOMAIN page |-> [id |-> page[i].id, score |-> page[i].score,
                            tier |-> IF page[i].fallback THEN "filler" ELSE "lexical"]]

\* Phase 1: the lexical page is taken and queued, as the initial chunk or,
\* without a semantic worker (the default), as the only one, a final chunk.
LexicalPhase ==
    /\ srPc = "lexical"
    /\ srLex' = LexicalSearch(FetchLimit)
    /\ srPc' = IF srReq.ann THEN "initial" ELSE "final"
    /\ srOut' = IF srReq.ann THEN srOut ELSE Lexical(srLex')
    /\ UNCHANGED <<srReq, srKind, srPlug, srLive, srHidden, srHabit, srWork, srPage, srLeft>>

\* The initial chunk is processed; no plugin is asked.
InitialProcessed ==
    /\ srPc = "initial"
    /\ LET hits == Lexical(srLex)
           kept == DropHidden(hits, Explained(hits), srHidden)
       IN  srPage' = Chunk("initial", Favour(kept.hits), Favour(kept.expl), srHidden, FALSE)
    /\ srPc' = "ann"
    /\ UNCHANGED <<srReq, srKind, srPlug, srLive, srHidden, srHabit, srLex, srOut, srWork, srLeft>>

\* Phase 2: the channels answer (a failed one with nothing) and the pages are fused.
AnnAnswers ==
    /\ srPc = "ann"
    /\ \E text \in SrAnnText, image \in SrAnnImage, modality \in {"text", "image", "both"} :
           srOut' = Fuse(text, image, modality, FetchLimit)
    /\ srPc' = "final"
    /\ UNCHANGED <<srReq, srKind, srPlug, srLive, srHidden, srHabit, srLex, srWork, srPage, srLeft>>

\* The final chunk: hidden documents leave it, habits raise it, the plugins are asked.
FinalBegins ==
    /\ srPc = "final"
    /\ LET kept == DropHidden(srOut, Explained(srOut), srHidden)
       IN  srWork' = IF srPlug = "claims" THEN [hits |-> <<>>, expl |-> <<>>, hidden |-> srHidden]
                     ELSE [hits |-> Favour(kept.hits), expl |-> Favour(kept.expl), hidden |-> srHidden]
    /\ srPc' = "plugins"
    /\ UNCHANGED <<srReq, srKind, srPlug, srLive, srHidden, srHabit, srLex, srOut, srPage, srLeft>>

\* They have answered: a claim replaces the page and passes the blocklist by.
FinalEnds ==
    /\ srPc = "plugins"
    /\ LET hit    == PluginHit(srWork.hits)
           joined == CASE srPlug = "claims" -> <<hit>>
                       [] srPlug = "fanout" -> IF SrPlugin \in srWork.hidden THEN <<>> ELSE <<hit>>
                       [] OTHER -> <<>>
       IN  srPage' = Chunk("final", srWork.hits \o joined, srWork.expl \o Explained(joined),
                           srWork.hidden, srPlug = "claims")
    /\ srPc' = "done"
    /\ UNCHANGED <<srReq, srKind, srPlug, srLive, srHidden, srHabit, srLex, srOut, srWork, srLeft>>

\* Meanwhile: SetDocHidden, RecordClick, a commit that deletes.
SrStoresChange ==
    /\ srLeft > 0 /\ srPc # "done"
    /\ srLeft' = srLeft - 1
    /\ \/ \E d \in SrDocs \cup {SrPlugin} : srHidden' = srHidden \cup {d} /\ UNCHANGED <<srHabit, srLive>>
       \/ \E d \in SrDocs : srHabit' = srHabit \cup {d} /\ UNCHANGED <<srHidden, srLive>>
       \/ \E d \in SrDocs : srLive' = srLive \ {d} /\ UNCHANGED <<srHidden, srHabit>>
    /\ UNCHANGED <<srReq, srKind, srPlug, srPc, srLex, srOut, srWork, srPage>>

SrNext == LexicalPhase \/ InitialProcessed \/ AnnAnswers \/ FinalBegins \/ FinalEnds \/ SrStoresChange

SrSpec == SrInit /\ [][SrNext]_srVars

-----------------------------------------------------------------------------
SrTypeOK ==
    /\ srHidden \subseteq SrDocs \cup {SrPlugin} /\ srHabit \subseteq SrDocs /\ srLive \subseteq SrDocs
    /\ srPc \in {"lexical", "initial", "ann", "final", "plugins", "done"}
    /\ \A i \in DOMAIN srPage.hits : srPage.hits[i].id \in SrDocs \cup {SrPlugin}
    /\ srLeft \in 0 .. SrEvents

\* No document is shown twice, whichever of the lexical, fallback, text and
\* image lists carry it, and none that the blocklist held when the chunk was
\* begun; only a claiming plugin is not asked.
OncePerPage ==
    \A i, j \in DOMAIN srPage.hits :
        /\ i # j => srPage.hits[i].id # srPage.hits[j].id
        /\ srPage.claimed \/ srPage.hits[i].id \notin srPage.hidden

\* When a title is what was asked for, documents that match the words stand
\* above those only the semantic channels know, and partial matches below
\* all, on a fused page: through rank scores, decay, the second sort and the
\* category filter, only the user's habits may turn two of them around.  A
\* lexical page promises no such order (see FullMatchesFirst).
Tier(h) == CASE h.tier = "lexical" -> 3 [] h.tier = "ann" -> 2 [] OTHER -> 1

OnlyHabitsOverturn ==
    srReq.ann /\ srPage.phase = "final" =>
        \A i, j \in DOMAIN srPage.hits :
            LET a == srPage.hits[i]
                b == srPage.hits[j]
            IN  ( /\ i < j /\ a.tier # "plugin" /\ b.tier # "plugin"
                  /\ Tier(a) < Tier(b)
                  /\ Tier(a) = 1 \/ \E k \in DOMAIN srLex : srLex[k].precise /\ ~srLex[k].fallback )
                => a.id \in srPage.habit

\* Explanation i is of hit i, with the score it was ranked by.
ExplainsItsHit ==
    srReq.explain => /\ Len(srPage.expl) = Len(srPage.hits)
                     /\ \A i \in DOMAIN srPage.hits : srPage.expl[i] = srPage.hits[i]

\* compute_render_plan of the launcher: the top hit moves to the front.
compute_render_plan(page) ==
    LET at == {i \in DOMAIN page.hits : page.hits[i].id = page.top}
    IN  IF at = {} THEN page.hits
        ELSE LET p == CHOOSE i \in at : TRUE
             IN  <<page.hits[p]>> \o [i \in 1 .. p - 1 |-> page.hits[i]]
                 \o SubSeq(page.hits, p + 1, Len(page.hits))

\* The top hit is chosen before the category is applied; laying it out first
\* never contradicts the order of the rows that are left.
TopHitLeads == compute_render_plan(srPage) = srPage.hits

\* The four together: what a page of results promises.
ResultsHonest == OncePerPage /\ OnlyHabitsOverturn /\ ExplainsItsHit /\ TopHitLeads

-----------------------------------------------------------------------------
\* What comments say and the code does not do.

\* "Full matches strictly outrank fallback partial matches [...] must never
\* beat a doc that matched the whole query" (lixun-index/src/lib.rs): the
\* daemon sorts the initial chunk, and the only chunk of a lexical search, by
\* score again, and the score does not know the tiers.
FullMatchesFirst ==
    srPage.phase = "initial" \/ ~srReq.ann =>
        \A i, j \in DOMAIN srPage.hits :
            i < j /\ srPage.hits[i].tier = "filler" /\ srPage.hits[j].tier # "plugin"
            => srPage.hits[j].tier = "filler" \/ srPage.hits[i].id \in srPage.habit

\* "Ordering follows RRF exactly" (lixun-fusion/src/handle.rs): equal lexical
\* scores make equal rank scores, and the daemon breaks the tie by id.
RrfOrderKept ==
    srReq.ann /\ srPage.phase = "final" /\ srPage.habit = {} /\ srReq.category = SrNone =>
        LET shown == SelectSeq(srPage.hits, LAMBDA h : h.tier # "plugin")
        IN  srPage.claimed \/ [i \in DOMAIN shown |-> shown[i].id] =
                [i \in DOMAIN SelectSeq(srOut, LAMBDA h : h.id \notin srPage.hidden) |->
                    SelectSeq(srOut, LAMBDA h : h.id \notin srPage.hidden)[i].id]
================================================================================
