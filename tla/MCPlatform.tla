------------------------------ MODULE MCPlatform ------------------------------
(* The handlers that share nothing but the database: a behaviour belongs   *)
(* to one part, and a part that it does not move keeps its initial state,  *)
(* of which every property holds.                                          *)
EXTENDS Integers, FiniteSetsExt, TLC,
        MonitoringPass, Recommendation, AnalysisRun, Accounts, Watchlist,
        AlertRules, NewsPipeline, MarketScan, Portfolio, KnowledgeIndex, PriceHistory

CONSTANTS
    i1, i2          \* two of a kind: people, ingestions, passes, ...

VARIABLE part

-----------------------------------------------------------------------------
(* Values of constants, for the configuration. *)

(* Two assets on the lists of two investors, one of them held by one.      *)
BothFollowOne == [a \in {"a1", "a2"} |-> IF a = "a1" THEN {"u1", "u2"} ELSE {"u1"}]
OneHolder == [a \in {"a1", "a2"} |-> IF a = "a1" THEN {} ELSE {"u2"}]

(* Every answer the analyzers can give, of any subset of them.             *)
AnyEvidence == UNION {[S -> Signals] : S \in SUBSET Sources}

(* Three people, the first of them the founding administrator.             *)
ThreePeople == {"ann", i1, i2}
ByAnn == [x \in {"x"} |-> "ann"]

(* A bar that says nothing, and two on which every rule turns over.        *)
QuietBar ==
    [averages |-> -999, macd |-> -999, rsi |-> -999, stochastic |-> -999, squeeze |-> -999,
     volume |-> -999, close |-> 100, open |-> -999, range |-> -999, high |-> -999, low |-> -999,
     flow |-> 0]
TurningBar(d) ==
    [averages |-> d, macd |-> -d, rsi |-> 50 + 21 * d, stochastic |-> 50 - 31 * d,
     squeeze |-> 10 + d, volume |-> 20 + d, close |-> 100 + 2 * d, open |-> 100 + 2 * d,
     range |-> 20 + d, high |-> 103, low |-> 97, flow |-> d]
ThreeBars == {QuietBar, TurningBar(-1), TurningBar(1)}

(* The levels found when a quiet bar is the last one, and otherwise.       *)
LevelsAfter(b) ==
    IF b = QuietBar THEN [supports |-> {0, 99}, resistances |-> {100, 102}]
    ELSE [supports |-> {0, 97}, resistances |-> {102}]
TwoLevels == {LevelsAfter(b) : b \in ThreeBars}

(* Three articles of two feeds: a code, a name and a name not yet indexed; *)
(* a date without a year, one with, and one that has passed; two meetings  *)
(* of one issuer, and an ex-date.                                          *)
FirstDays == <<0, 1, 4>>
TwoFeeds == <<"f1", "f1", "f2">>
OneCode == <<{"AAA"}, {}, {}>>
OneName == <<{"best"}, {"acme"}, {"best"}>>
OneDateEach ==
    << <<[day |-> 3, year |-> -1]>>, <<[day |-> 4, year |-> 0]>>, <<[day |-> 0, year |-> -1]>> >>
OneAliasEach == [i \in {"AAA", "BBB"} |-> IF i = "AAA" THEN {"acme"} ELSE {"best"}]
TwoMeetings == <<"rups", "rups", "ex_date">>
AnnWatches == [i \in {"AAA", "BBB"} |-> {"ann"}]

(* Three sessions.  The second issuer has no high on the first until that  *)
(* is revised, and is then quiet for as long as a scan looks back; the     *)
(* third is listed on the second.                                          *)
SessionReports ==
    LET of(x, y) == (1 :> x) @@ (2 :> y)
    IN  (0 :> {of("bar", "partial"), of("bar", "bar")})
        @@ (1 :> {of("bar", "quiet") @@ (3 :> "partial")})
        @@ (2 :> {of("quiet", "quiet") @@ (3 :> "bar")})
TwoToOne == [a |-> 2, b |-> 1]
Asks == [a |-> <<[need |-> 1, name |-> "x"], [need |-> 2, name |-> "y"]>>,
         b |-> <<[need |-> 2, name |-> "z"]>>]
Finds == <<{"x", "y"}, {"x", "z"}, {"y", "z"}>>

(* An investor with two assets, of which one has no sector; one provider   *)
(* is hosted by a third party.                                             *)
TickerEach == [a1 |-> "bbca", a2 |-> "tlkm"]
OneClassified == [a1 |-> "banks", a2 |-> "unclassified"]
ThreeProviders ==
    {[selfHosted |-> FALSE, handles |-> {"standard", "complex"}],
     [selfHosted |-> TRUE, handles |-> {"standard"}],
     [selfHosted |-> TRUE, handles |-> {"complex"}]}

(* A document with one paragraph nearly a chunk long, and a news item.     *)
FourParagraphs == [d \in {"k1"} |-> <<4, 1, 9, 1>>]
OneHeadline == [n \in {"n1"} |-> [asset |-> "AAA", recent |-> TRUE]]

(* The closes of the configuration. *)
ASSUME ClosesAssumption == ModestMoves

-----------------------------------------------------------------------------
platformVars == <<part, monitoringVars, recommendationVars, analysisVars, accountVars,
                  watchlistVars, rulesVars, pipelineVars, scanVars, portfolioVars, ragVars, historyVars>>

PlatformInit ==
    /\ part \in {"monitoring", "advice", "analysis", "people", "lists", "rules", "news",
                "scan", "pages", "agents", "index", "prices"}
    /\ MonitoringInit /\ RecommendationInit /\ AnalysisInit /\ AccountsInit /\ WatchlistInit
    /\ RulesInit /\ PipelineInit /\ ScanInit /\ PortfolioInit /\ RagInit /\ HistoryInit
    /\ part # "monitoring" => \A a \in Watched : observed[a] = None
    /\ part # "advice" => DOMAIN evidence = {}
    /\ part # "index" => model = "m1"

OnMonitoring ==
    /\ part = "monitoring" /\ MonitoringNext
    /\ UNCHANGED <<part, recommendationVars, analysisVars, accountVars, watchlistVars,
                  rulesVars, pipelineVars, scanVars, portfolioVars, ragVars, historyVars>>
OnAdvice ==
    /\ part = "advice" /\ RecommendationNext
    /\ UNCHANGED <<part, monitoringVars, analysisVars, accountVars, watchlistVars,
                  rulesVars, pipelineVars, scanVars, portfolioVars, ragVars, historyVars>>
OnAnalysis ==
    /\ part = "analysis" /\ AnalysisNext
    /\ UNCHANGED <<part, monitoringVars, recommendationVars, accountVars, watchlistVars,
                  rulesVars, pipelineVars, scanVars, portfolioVars, ragVars, historyVars>>
(* Requests overlap, after which nothing is claimed of the administrators, *)
(* where the shell was not used.                                           *)
OnPeople ==
    /\ part = "people" /\ AccountsNext
    /\ overlapped' => shellUses' = 0
    /\ UNCHANGED <<part, monitoringVars, recommendationVars, analysisVars, watchlistVars,
                  rulesVars, pipelineVars, scanVars, portfolioVars, ragVars, historyVars>>
OnLists ==
    /\ part = "lists" /\ WatchlistNext
    /\ UNCHANGED <<part, monitoringVars, recommendationVars, analysisVars, accountVars,
                  rulesVars, pipelineVars, scanVars, portfolioVars, ragVars, historyVars>>
(* What is polled has a bar, each session brings one, and the last bar     *)
(* decides on the levels.  The history begins with a quiet bar or with one *)
(* that turns down.                                                        *)
OnRules ==
    /\ part = "rules" /\ RulesNext
    /\ IF bars' = bars THEN today' <= Len(bars)
       ELSE /\ Len(bars') <= today + 1 /\ bars'[1] # TurningBar(1)
            /\ levels' = LevelsAfter(Last(bars'))
    /\ UNCHANGED <<part, monitoringVars, recommendationVars, analysisVars, accountVars,
                  watchlistVars, pipelineVars, scanVars, portfolioVars, ragVars, historyVars>>
OnNews ==
    /\ part = "news" /\ PipelineNext
    /\ UNCHANGED <<part, monitoringVars, recommendationVars, analysisVars, accountVars,
                  watchlistVars, rulesVars, scanVars, portfolioVars, ragVars, historyVars>>
OnScan ==
    /\ part = "scan" /\ ScanNext
    /\ UNCHANGED <<part, monitoringVars, recommendationVars, analysisVars, accountVars,
                  watchlistVars, rulesVars, pipelineVars, portfolioVars, ragVars, historyVars>>
(* An investor's pages, with two requests open at once and one asset that  *)
(* is never priced; or the agents they ask, with one request and one price *)
(* paid.                                                                   *)
OneRequest ==
    \A i \in Owners : \A r, other \in Requests :
        r # other => Nothing \in {request'[i][r], request'[i][other]}
OnePricePaid ==
    \A i \in Owners, r \in Requests :
        request'[i][r] # Nothing => request'[i][r].paid # Max(PaidPrices)

OnPortfolio ==
    /\ part \in {"pages", "agents"} /\ PortfolioNext
    /\ \/ part = "pages" /\ close'["a1"] = 0 /\ UNCHANGED <<privacy, journal, sent>>
       \/ part = "agents" /\ OneRequest /\ OnePricePaid
    /\ UNCHANGED <<part, monitoringVars, recommendationVars, analysisVars, accountVars,
                  watchlistVars, rulesVars, pipelineVars, scanVars, ragVars, historyVars>>
OnIndex ==
    /\ part = "index" /\ RagNext
    /\ UNCHANGED <<part, monitoringVars, recommendationVars, analysisVars, accountVars,
                  watchlistVars, rulesVars, pipelineVars, scanVars, portfolioVars, historyVars>>
OnPrices ==
    /\ part = "prices" /\ HistoryNext
    /\ UNCHANGED <<part, monitoringVars, recommendationVars, analysisVars, accountVars,
                  watchlistVars, rulesVars, pipelineVars, scanVars, portfolioVars, ragVars>>

PlatformNext ==
    \/ OnMonitoring \/ OnAdvice \/ OnAnalysis \/ OnPeople \/ OnLists
    \/ OnRules \/ OnNews \/ OnScan \/ OnPortfolio \/ OnIndex \/ OnPrices

PlatformSpec == PlatformInit /\ [][PlatformNext]_platformVars

Symmetry == Permutations({i1, i2})
=============================================================================
