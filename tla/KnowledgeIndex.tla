--------------------------- MODULE KnowledgeIndex ---------------------------
(***************************************************************************)
(* The retrieval index: rag/chunking.py cuts a text, rag/engine.py embeds  *)
(* and stores the pieces and ranks them for a question, rag/fusion.py      *)
(* fuses the rankings, rag/provisioning.py reads the configured embedding  *)
(* model, api/routes/knowledge.py stores documents.                        *)
(*                                                                         *)
(* A text is the sizes of its paragraphs, one that is too long for a chunk *)
(* already cut (_split_long_block), and a question asks for the one exact  *)
(* token that stands in one paragraph.  How near two vectors are is left   *)
(* open: a question meets any order of the pieces that have one.           *)
(***************************************************************************)
EXTENDS Integers, SequencesExt, FiniteSets

CONSTANTS
    Text,           \* [documents -> Seq(Nat)]: the sizes of a document's paragraphs
    ArticlesOf,     \* [articles -> [asset, recent]]: news, and what search filters on
    ChunkLength, Overlap, MinSize,    \* DEFAULT_CHUNK_SIZE, DEFAULT_OVERLAP, MIN_CHUNK_SIZE
    Separator,      \* the size of a blank line
    Models,         \* embedding models an operator may configure
    NoModel,        \* an empty AIDSS_AI_EMBEDDING_MODEL
    MaxChanges      \* bound: times the configuration changes

VARIABLES
    model,          \* the configured embedding model
    reachable,      \* whether the provider answers /embeddings
    changes,
    docs,           \* documents and articles that are indexed
    chunks,         \* rows with their vectors
    answer          \* the last question, its two rankings and the scores they fuse to

Documents == DOMAIN Text
News == DOMAIN ArticlesOf

(* A document is no article; the settings are those of chunk_text, which   *)
(* refuses an overlap as long as a chunk.                                  *)
ASSUME RagAssumption ==
    /\ Documents \cap News = {}
    /\ \A d \in Documents : Text[d] \in Seq(Nat)
    /\ Separator \in Nat /\ MinSize \in Nat
    /\ Overlap \in Nat \ {0} /\ MinSize <= Overlap
    /\ ChunkLength \in Nat /\ Overlap < ChunkLength

ragVars == <<model, reachable, changes, docs, chunks, answer>>

NoAnswer == [asked |-> 0]

RagInit ==
    /\ model \in Models /\ reachable = TRUE /\ changes = 0
    /\ docs = {} /\ chunks = {} /\ answer = NoAnswer

-----------------------------------------------------------------------------
(* chunk_text: a chunk is the set of the paragraphs packed in it *)

SizeOf(text, chunk) ==
    SumFunctionOnSet(text, chunk) + Separator * (Cardinality(chunk) - 1)

(* The k-th paragraph joins the last chunk unless it would overflow.       *)
Pack(text, early, k) ==
    LET last == Len(early) IN
    IF last > 0 /\ SizeOf(text, early[last] \cup {k}) <= ChunkLength
    THEN [early EXCEPT ![last] = @ \cup {k}]
    ELSE Append(early, {k})

Packed(text) ==
    LET packed[k \in 0..Len(text)] == IF k = 0 THEN <<>> ELSE Pack(text, packed[k - 1], k)
    IN  packed[Len(text)]

(* What the last Overlap characters of the previous chunk repeat whole. *)
TailOf(text, chunk) == {p \in chunk : SizeOf(text, {q \in chunk : p <= q}) <= Overlap}

Smaller(m, n) == IF m < n THEN m ELSE n

(* The size of the i-th chunk with its overlap, and what it would be       *)
(* without.                                                                *)
BareSize(text, i) == SizeOf(text, Packed(text)[i])
BodySize(text, i) ==
    BareSize(text, i)
    + (IF i = 1 THEN 0 ELSE Smaller(Overlap, BareSize(text, i - 1)) + Separator)

(* The scrap measured before its overlap is put in front. *)
KeptBare(text) ==
    {i \in DOMAIN Packed(text) : BareSize(text, i) >= MinSize \/ Len(Packed(text)) = 1}

(* What is kept: not a scrap, unless it is all there is. *)
Kept(text) ==
    {i \in DOMAIN Packed(text) : BodySize(text, i) >= MinSize \/ Len(Packed(text)) = 1}

(* The paragraphs that can be read in each chunk. *)
ChunksOf(text) ==
    {Packed(text)[i] \cup (IF i = 1 THEN {} ELSE TailOf(text, Packed(text)[i - 1]))
        : i \in Kept(text)}

-----------------------------------------------------------------------------
(* Indexing *)

(* _embed: a vector, or none when no model is configured or the provider   *)
(* does not answer.  The row records the model either way.                 *)
Row(d, chunk) ==
    [doc |-> d, text |-> chunk, vector |-> reachable /\ model # NoModel, model |-> model]

(* POST /knowledge-base and index_document. *)
CreateDocument(d) ==
    /\ d \in Documents \ docs
    /\ docs' = docs \cup {d}
    /\ chunks' = chunks \cup {Row(d, c) : c \in ChunksOf(Text[d])}
    /\ UNCHANGED <<model, reachable, changes, answer>>

(* index_news, and chunk_article's one chunk for a headline: an item that  *)
(* is indexed is skipped, whether it has a vector or not.                  *)
IndexNews(n) ==
    /\ n \in News \ docs
    /\ docs' = docs \cup {n}
    /\ chunks' = chunks \cup {Row(n, {1})}
    /\ UNCHANGED <<model, reachable, changes, answer>>

(* The provider stops or starts answering. *)
ProviderTurns ==
    /\ changes < MaxChanges /\ changes' = changes + 1
    /\ reachable' = ~reachable
    /\ UNCHANGED <<model, docs, chunks, answer>>

(* The operator configures another embedding model, or none. *)
Configure(m) ==
    /\ changes < MaxChanges /\ changes' = changes + 1
    /\ m # model /\ model' = m
    /\ UNCHANGED <<reachable, docs, chunks, answer>>

-----------------------------------------------------------------------------
(* Retrieval *)

RrfK == 60

Rankings(S) == {o \in [1..Cardinality(S) -> S] : \A i, j \in DOMAIN o : o[i] = o[j] => i = j}

Rank(o, r) == CHOOSE i \in DOMAIN o : o[i] = r

(* The fused score as a fraction: each ranker that found a chunk adds      *)
(* 1 / (RrfK + its rank).                                                  *)
Fused(lex, vec, r) ==
    LET a == RrfK + Rank(lex, r)
        b == RrfK + Rank(vec, r)
    IN  IF r \notin Range(vec) THEN [num |-> 1, den |-> a]
        ELSE IF r \notin Range(lex) THEN [num |-> 1, den |-> b]
        ELSE [num |-> a + b, den |-> a * b]

Above(s, t) == s.num * t.den > t.num * s.den

ComparableOfAny(S) == S
(* _rank's filter: what another model embedded is left out. *)
Comparable(S) == {r \in S : r.model = model}
(* The search_* filters, and the rows that carry the token. *)
InReach(where) ==
    {r \in chunks : IF where = "knowledge" THEN r.doc \in Documents
                  ELSE r.doc \in News /\ ArticlesOf[r.doc].asset = where /\ ArticlesOf[r.doc].recent}

Matches(S, d, p) == {r \in S : r.doc = d /\ p \in r.text}

(* _embed_query: no vector for the question means no vector ranking. *)
VectorRankings(S) ==
    IF ~reachable \/ model = NoModel THEN {<<>>}
    ELSE UNION {Rankings(near) : near \in SUBSET {r \in S : r.vector}}

Positions(d) == IF d \in Documents THEN DOMAIN Text[d] ELSE {1}

(* search_knowledge and search_news: the token of paragraph p of d. *)
Search(where, d, p) ==
    LET S == Comparable(InReach(where)) IN
    /\ d \in docs
    /\ \E lex \in Rankings(Matches(S, d, p)), vec \in VectorRankings(S) :
          answer' = [asked |-> d, for |-> p, where |-> where, lex |-> lex, vec |-> vec,
                     score |-> [r \in Range(lex) \cup Range(vec) |-> Fused(lex, vec, r)]]
    /\ UNCHANGED <<model, reachable, changes, docs, chunks>>

SearchPlaces == {"knowledge"} \cup {ArticlesOf[n].asset : n \in News}

RagNext ==
    \/ \E d \in Documents : CreateDocument(d)
    \/ \E n \in News : IndexNews(n)
    \/ ProviderTurns
    \/ \E m \in Models \cup {NoModel} : Configure(m)
    \/ \E where \in SearchPlaces, d \in docs : \E p \in Positions(d) : Search(where, d, p)

RagSpec == RagInit /\ [][RagNext]_ragVars

-----------------------------------------------------------------------------
RagTypeOK ==
    /\ model \in Models \cup {NoModel} /\ reachable \in BOOLEAN
    /\ docs \subseteq Documents \cup News
    /\ \A r \in chunks : r.doc \in docs /\ r.model \in Models \cup {NoModel}

(* However a document's paragraphs fall into chunks, each of them can be   *)
(* read whole in a stored chunk: a scrap that chunk_text drops stands in   *)
(* the overlap of the next (rag/chunking.py chunk_text, engine.py          *)
(* index_document).                                                        *)
NoWordLost ==
    \A d \in docs \cap Documents : \A p \in DOMAIN Text[d] : Matches(chunks, d, p) # {}

(* What both rankers found among their first 61 comes before what only one *)
(* of them found, be it first there (rag/fusion.py: agreement is not       *)
(* overridden by a single confident ranker; below that depth it can be).   *)
AgreementDepth == 61

AgreementWins ==
    answer # NoAnswer =>
        LET both == Range(answer.lex) \cap Range(answer.vec) IN
        \A r \in both :
            Rank(answer.lex, r) <= AgreementDepth /\ Rank(answer.vec, r) <= AgreementDepth =>
                \A q \in DOMAIN answer.score \ both : Above(answer.score[r], answer.score[q])

(* Through changes of the model and outages, a question is never compared  *)
(* with a vector of another model's space (rag/engine.py _rank), and       *)
(* nothing beyond the asset and the window is retrieved.                   *)
OneSpaceStep ==
    answer' # answer =>
        /\ \A r \in Range(answer'.vec) : r.vector /\ r.model = model
        /\ DOMAIN answer'.score \subseteq InReach(answer'.where)

RankingsSound == [][OneSpaceStep /\ AgreementWins']_ragVars

-----------------------------------------------------------------------------
(* Refuted. *)

(* What engine.py promises: without usable embeddings the lexical half     *)
(* still finds the exact token.  The rows of the former model are left out *)
(* of that half as well.                                                   *)
RetrievalDegrades ==
    [][answer' # answer =>
          (Matches(InReach(answer'.where), answer'.asked, answer'.for) # {}
              => DOMAIN answer'.score # {})]_ragVars
=============================================================================
