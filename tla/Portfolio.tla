------------------------------- MODULE Portfolio -------------------------------
(***************************************************************************)
(* An investor's own data and what the language models see of it: the      *)
(* holdings and the requests that write them (api/routes/portfolio.py),    *)
(* the figures computed from them (portfolio/metrics.py, risk.py,          *)
(* simulation.py), the journal, the preferences and the agents that are    *)
(* asked about them (portfolio/engine.py, agents/conversation.py,          *)
(* agents/memory.py, api/routes/journal.py and personal.py).               *)
(*                                                                         *)
(* The requests of one investor run in a thread pool, each in a            *)
(* transaction of its own, so a request reads at one moment and commits at *)
(* a later one.  Values are integers: a weight is a share of the total.    *)
(***************************************************************************)
EXTENDS Integers, FiniteSets, FiniteSetsExt, Sequences, SequencesExt

CONSTANTS
    Owners,
    Requests,       \* bound: what an investor has open at once
    Assets,         \* the assets rows
    TickerOf,       \* [Assets -> tickers]: a ticker may trade on two exchanges
    SectorOf,       \* [Assets -> sectors or "unclassified"]
    Quantities,     \* quantities an investor enters
    PaidPrices,     \* average prices an investor enters
    MarketPrices,   \* closes stored by the collectors
    Bindings,       \* the AI providers: [selfHosted, handles]
    MinEntries,     \* ReflectionAgent.MIN_ENTRIES
    MaxWrites       \* bound: rows ever inserted

Nothing == [op |-> "none"]
NoRow == [quantity |-> 0, paid |-> 0, id |-> 0]
NoFigures == [quantity |-> 0, paid |-> 0]

VARIABLES
    portfolios, \* how many "Default" portfolios each investor has
    holdings,   \* [Owners -> [Assets -> row]]: the rows of the one that is read
    lastId,     \* of the holding rows
    request,    \* [Owners \X Requests -> what it has read]
    entered,    \* [Owners -> [Assets -> the figures last acknowledged]]
    close,      \* [Assets -> the latest stored close, 0 for none]
    privacy,    \* [Owners -> the stored privacy_mode]
    journal,    \* [Owners -> entries]
    sent        \* the last thing that reached a provider, and the mode it did so in

(* HoldingUpsert accepts, and the collectors' validation lets through,     *)
(* positive figures only.                                                  *)
ASSUME PortfolioAssumption ==
    /\ Assets # {} /\ IsFiniteSet(Assets) /\ MaxWrites \in Nat
    /\ Quantities \subseteq Nat \ {0} /\ PaidPrices \subseteq Nat \ {0}
    /\ MarketPrices \subseteq Nat \ {0}

portfolioVars == <<portfolios, holdings, lastId, request, entered,
                   close, privacy, journal, sent>>

-----------------------------------------------------------------------------
(* portfolio/loader.py and metrics.py *)

Held(i) == {a \in Assets : holdings[i][a].quantity > 0}

(* Position.market_value: what was paid stands in for an unknown price.    *)
MarketValue(i, a) ==
    holdings[i][a].quantity * (IF close[a] = 0 THEN holdings[i][a].paid ELSE close[a])

Values(i) == [a \in Held(i) |-> MarketValue(i, a)]
TotalValue(i) == SumFunction(Values(i))

(* weights are keyed by ticker, so that one of two assets of a ticker      *)
(* stands for both; a portfolio that is worth nothing has none.            *)
Weighed(i) == {a \in Held(i) : TotalValue(i) > 0}
Weights(i) ==
    [t \in {TickerOf[a] : a \in Weighed(i)} |->
        MarketValue(i, CHOOSE a \in Held(i) : TickerOf[a] = t)]

(* The weight that each holding of a sector adds to it.                    *)
Shares(i, s) == [a \in {h \in Weighed(i) : SectorOf[h] = s} |-> Weights(i)[TickerOf[a]]]

SectorWeights(i) ==
    [s \in {SectorOf[a] : a \in Held(i)} |-> SumFunction(Shares(i, s))]

Total(weights) == SumFunction(weights)
Squares(weights) == SumFunction([k \in DOMAIN weights |-> weights[k] * weights[k]])

(* load_price_series asks for any asset of the ticker, on any exchange.    *)
SeriesRead(i) == {a \in Assets : close[a] > 0 /\ \E h \in Held(i) : TickerOf[a] = TickerOf[h]}

-----------------------------------------------------------------------------
(* portfolio/simulation.py: the tickers held and their quantities are      *)
(* "before"; a change is a ticker and the quantity it should have.         *)

(* A SimulationError, or the quantities held afterwards.                   *)
Refused == [refused |-> TRUE, held |-> <<>>]
Simulated(held) == [refused |-> FALSE, held |-> held]

(* One pass of apply_changes' loop: only what is held now can change.      *)
ApplyChange(before, result, change) ==
    IF result.refused \/ change.ticker \notin DOMAIN before THEN Refused
    ELSE IF change.quantity = 0
    THEN Simulated([t \in DOMAIN result.held \ {change.ticker} |-> result.held[t]])
    ELSE Simulated([t \in DOMAIN result.held \cup {change.ticker} |->
                      IF t = change.ticker THEN change.quantity ELSE result.held[t]])

(* A simulation of nothing, or that leaves nothing, is refused.            *)
Simulate(before, changes) ==
    LET result[k \in 0..Len(changes)] ==
            IF k = 0 THEN Simulated(before) ELSE ApplyChange(before, result[k - 1], changes[k])
        after == result[Len(changes)]
    IN  IF DOMAIN before = {} \/ changes = <<>> \/ after.refused \/ DOMAIN after.held = {}
        THEN Refused ELSE after

-----------------------------------------------------------------------------
(* The routes that write: a request reads the portfolio and the row, and   *)
(* flushes and commits later.  Of a row that it found only the figures     *)
(* that differ from those it read are written (SQLAlchemy's unit of work). *)

Replace(f, i, a, value) == [f EXCEPT ![i][a] = value]

Begin(i, r, order) ==
    /\ request[i][r] = Nothing
    /\ order.op = "delete" => holdings[i][order.asset].id > 0     \* else a 404
    /\ request' = Replace(request, i, r,
           [op |-> order.op, asset |-> order.asset, quantity |-> order.quantity,
            paid |-> order.paid, portfolio |-> portfolios[i] > 0,
            read |-> holdings[i][order.asset]])
    /\ UNCHANGED <<portfolios, holdings, lastId, entered, close, privacy, journal, sent>>

Alters(q) == q.quantity # q.read.quantity \/ q.paid # q.read.paid

(* Mutant: nobody looks whether the UPDATE found its row.                  *)
AcceptsUncounted(i, q) ==
    /\ portfolios[i] > 0 => q.portfolio
    /\ q.op = "upsert" /\ q.read.id = 0 => holdings[i][q.asset].id = 0

(* uq_portfolio_user_name and uq_holding_portfolio_asset, and an UPDATE of *)
(* a row that is gone: otherwise the commit fails and nothing is written.  *)
Accepts(i, q) ==
    /\ portfolios[i] > 0 => q.portfolio
    /\ q.op = "upsert" /\ Alters(q) => holdings[i][q.asset].id = q.read.id

(* The figures of a request over those of the row it found, or of none.    *)
Over(q, found) ==
    [quantity |-> IF q.quantity = q.read.quantity THEN found.quantity ELSE q.quantity,
     paid |-> IF q.paid = q.read.paid THEN found.paid ELSE q.paid]

(* The row an upsert leaves: its INSERT or UPDATE finds the one it read.   *)
Upserted(q, row, newId) ==
    IF row.id # q.read.id THEN row
    ELSE [quantity |-> Over(q, row).quantity, paid |-> Over(q, row).paid,
          id |-> IF row.id = 0 THEN newId ELSE row.id]

(* A request that found no portfolio creates one, whatever it came for.    *)
(* What it is acknowledged for is what it said, save for a figure that it  *)
(* repeated while another request was acknowledged for another one.        *)
Commit(i, r) ==
    LET q == request[i][r]
        row == holdings[i][q.asset]
        said == [quantity |-> q.quantity, paid |-> q.paid]
    IN  /\ q # Nothing /\ Accepts(i, q)
        /\ portfolios' = IF q.portfolio THEN portfolios ELSE [portfolios EXCEPT ![i] = @ + 1]
        /\ IF q.op = "upsert"
           THEN /\ q.read.id = 0 => lastId < MaxWrites
                /\ lastId' = IF q.read.id = 0 THEN lastId + 1 ELSE lastId
                /\ holdings' = Replace(holdings, i, q.asset, Upserted(q, row, lastId'))
                /\ entered' = Replace(entered, i, q.asset,
                                 IF row = q.read THEN said ELSE Over(q, entered[i][q.asset]))
           ELSE /\ lastId' = lastId
                /\ IF q.op = "delete" /\ row.id = q.read.id
                   THEN /\ holdings' = Replace(holdings, i, q.asset, NoRow)
                        /\ entered' = Replace(entered, i, q.asset, NoFigures)
                   ELSE UNCHANGED <<holdings, entered>>
        /\ request' = Replace(request, i, r, Nothing)
        /\ UNCHANGED <<close, privacy, journal, sent>>

(* An IntegrityError or a StaleDataError: rolled back, answered as a 500.  *)
Fail(i, r) ==
    /\ request[i][r] # Nothing /\ ~Accepts(i, request[i][r])
    /\ request' = Replace(request, i, r, Nothing)
    /\ UNCHANGED <<portfolios, holdings, lastId, entered, close, privacy, journal, sent>>

(* The collectors store a newer close.                                     *)
Ingest(a, price) ==
    /\ close' = [close EXCEPT ![a] = price]
    /\ UNCHANGED <<portfolios, holdings, lastId, request, entered, privacy, journal, sent>>

-----------------------------------------------------------------------------
(* The agents.  A question goes to the eligible providers in turn until    *)
(* one answers, so any of them may have seen it.                           *)

(* Mutant: the mode decides, and not the agent.                            *)
SensitiveByMode(agent, highPrivacy) == highPrivacy

(* AgentRunner.run: an agent's own sensitivity, or the runner's mode.      *)
Sensitive(agent, highPrivacy) ==
    highPrivacy \/ agent \in {"portfolio_analyzer", "risk_analyzer", "reflection_agent"}

CanServe(b, agent, highPrivacy) ==
    /\ IF agent = "reflection_agent" THEN "complex" \in b.handles ELSE "standard" \in b.handles
    /\ Sensitive(agent, highPrivacy) => b.selfHosted

AskAgent(i, agent, content, highPrivacy) ==
    /\ \E b \in Bindings :
          /\ CanServe(b, agent, highPrivacy)
          /\ sent' = [content |-> content, selfHosted |-> b.selfHosted, mode |-> privacy[i]]
    /\ UNCHANGED <<portfolios, holdings, lastId, request, entered, close, privacy, journal>>

(* PortfolioIntelligenceEngine.analyze passes the investor's mode on, asks *)
(* about holdings when there are any and about risk when it is measurable. *)
Analyse(i, agent) ==
    /\ agent \in {"portfolio_analyzer", "risk_analyzer"} /\ Held(i) # {}
    /\ agent = "risk_analyzer" => SeriesRead(i) # {}
    /\ AskAgent(i, agent, "holdings", privacy[i] = "high")

(* reflect_on_journal and chat share a runner that knows of no mode.       *)
Reflect(i) == journal[i] >= MinEntries /\ AskAgent(i, "reflection_agent", "journal", FALSE)
Chat(i) == AskAgent(i, "knowledge_agent", "question", FALSE)

WriteJournal(i, count) ==
    /\ count \in {journal[i] - 1, journal[i] + 1} \cap (0..MinEntries)
    /\ journal' = [journal EXCEPT ![i] = count]
    /\ UNCHANGED <<portfolios, holdings, lastId, request, entered, close, privacy, sent>>

(* MemoryManager.remember, called by update_preferences alone.             *)
SetPrivacy(i, mode) ==
    /\ privacy' = [privacy EXCEPT ![i] = mode]
    /\ UNCHANGED <<portfolios, holdings, lastId, request, entered, close, journal, sent>>

-----------------------------------------------------------------------------
Orders ==
    [op : {"upsert"}, asset : Assets, quantity : Quantities, paid : PaidPrices]
    \cup [op : {"delete"}, asset : Assets, quantity : {0}, paid : {0}]
    \cup {[op |-> "look", asset |-> CHOOSE a \in Assets : TRUE, quantity |-> 0, paid |-> 0]}

PortfolioInit ==
    /\ portfolios = [i \in Owners |-> 0]
    /\ holdings = [i \in Owners |-> [a \in Assets |-> NoRow]]
    /\ lastId = 0
    /\ request = [i \in Owners |-> [r \in Requests |-> Nothing]]
    /\ entered = [i \in Owners |-> [a \in Assets |-> NoFigures]]
    /\ close = [a \in Assets |-> 0]
    /\ privacy = [i \in Owners |-> "standard"]
    /\ journal = [i \in Owners |-> 0]
    /\ sent = [content |-> "nothing", selfHosted |-> TRUE, mode |-> "standard"]

PortfolioNext ==
    \/ \E i \in Owners :
          \/ \E r \in Requests, order \in Orders : Begin(i, r, order)
          \/ \E r \in Requests : Commit(i, r) \/ Fail(i, r)
          \/ \E agent \in {"portfolio_analyzer", "risk_analyzer"} : Analyse(i, agent)
          \/ Reflect(i) \/ Chat(i)
          \/ \E count \in 0..MinEntries : WriteJournal(i, count)
          \/ \E mode \in {"standard", "high"} : SetPrivacy(i, mode)
    \/ \E a \in Assets, price \in MarketPrices : Ingest(a, price)

PortfolioSpec == PortfolioInit /\ [][PortfolioNext]_portfolioVars

-----------------------------------------------------------------------------
(* Properties *)

(* Whatever two requests of an investor found on the way, no acknowledged  *)
(* change is lost: the portfolio page shows the figures that the last      *)
(* acknowledged request gave, except that where another one was            *)
(* acknowledged between its reading and its commit, a figure it gave as it *)
(* had read it is the other's.  (That it always shows the last one's       *)
(* figures is refuted: A asks for 1, which is what it reads; B changes it  *)
(* to 2, or deletes the row, and is acknowledged; A then writes nothing    *)
(* and is acknowledged too.)                                               *)
HoldingsAsEntered ==
    \A i \in Owners, a \in Assets :
        /\ holdings[i][a].quantity = entered[i][a].quantity
        /\ holdings[i][a].paid = entered[i][a].paid

(* Where every ticker has one exchange, the weights and the sector weights *)
(* of a portfolio that is worth something both account for the whole       *)
(* value, one weight for each position, and the concentration lies between *)
(* an even spread and a single name.                                       *)
OneExchangeEach(i) == \A a, b \in Held(i) : TickerOf[a] = TickerOf[b] => a = b

WeightsCoverPortfolio(i) ==
    /\ Total(Weights(i)) = TotalValue(i)
    /\ Total(SectorWeights(i)) = TotalValue(i)
    /\ Cardinality(DOMAIN Weights(i)) = Cardinality(Held(i))
    /\ Squares(Weights(i)) <= TotalValue(i) * TotalValue(i)
    /\ TotalValue(i) * TotalValue(i) <= Cardinality(Held(i)) * Squares(Weights(i))

WeightsAddUp ==
    \A i \in Owners : OneExchangeEach(i) /\ TotalValue(i) > 0 => WeightsCoverPortfolio(i)

(* The same on any exchanges.  Refuted: two assets of one ticker share a *)
(* weight, so the concentration is that of a portfolio nobody holds.       *)
WeightsAlwaysAddUp == \A i \in Owners : TotalValue(i) > 0 => WeightsCoverPortfolio(i)

(* Risk is measured on the prices of what is held.  Refuted: the series of *)
(* a ticker may be that of its namesake on another exchange.               *)
RiskOfHoldings == \A i \in Owners : SeriesRead(i) \subseteq Held(i)

(* A simulation answers the question asked: the last quantity given for    *)
(* each ticker and the held one for the others, unless nothing or          *)
(* something not held was named or nothing would be left.                  *)
AnswersAsked(before, changes) ==
    LET named == {changes[k].ticker : k \in DOMAIN changes}
        wanted(t) == changes[Max({k \in DOMAIN changes : changes[k].ticker = t})].quantity
        after == [t \in {t \in DOMAIN before : t \in named => wanted(t) > 0} |->
                     IF t \in named THEN wanted(t) ELSE before[t]]
    IN  Simulate(before, changes) =
            IF named # {} /\ named \subseteq DOMAIN before /\ DOMAIN after # {}
            THEN Simulated(after) ELSE Refused

Changes == [ticker : {TickerOf[a] : a \in Assets}, quantity : {0, 1}]
ChangeLists == UNION {[1..n -> Changes] : n \in 0..2}

SimulationAsAsked ==
    \A i \in Owners :
        LET before == [t \in {TickerOf[a] : a \in Held(i)} |->
                          holdings[i][CHOOSE a \in Held(i) : TickerOf[a] = t].quantity]
        IN  \A changes \in ChangeLists : AnswersAsked(before, changes)

(* What an investor sees of a portfolio and what is computed from it hang  *)
(* together, whatever two open requests of theirs find on the way.         *)
PagesAreRight == HoldingsAsEntered /\ WeightsAddUp /\ SimulationAsAsked

(* Holdings and journal entries never leave the infrastructure the         *)
(* investor's provider is marked as, in whichever mode.                    *)
PersonalStaysHome ==
    sent.content \in {"holdings", "journal"} => sent.selfHosted

(* In high privacy mode nothing does.  Refuted: the runner of a chat is    *)
(* made without the mode, and a question goes wherever a public one does.  *)
HighPrivacyKept == sent.mode = "high" => sent.selfHosted
=============================================================================
