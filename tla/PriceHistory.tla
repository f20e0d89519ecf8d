----------------------------- MODULE PriceHistory -----------------------------
(***************************************************************************)
(* The prices of one asset and what is derived from them:                  *)
(* collectors/market_data.py, collectors/validation.py,                    *)
(* collectors/normalization.py, indicators/engine.py,                      *)
(* indicators/features.py, and their two callers, the job                  *)
(* market_data.backfill and the route POST /assets/{ticker}/ingest.        *)
(*                                                                         *)
(* An ingestion is one transaction, which reads at several moments (READ   *)
(* COMMITTED) and lets others see what it wrote when it commits.  A bar is *)
(* its close; an indicator is the window of closes it is computed from,    *)
(* for which a bar has no figure until enough bars precede it.             *)
(***************************************************************************)
EXTENDS Integers, FiniteSetsExt, SequencesExt

CONSTANTS
    LastSlot,       \* slots of the timeframe, counted from 1
    Closes,         \* what an asset trades at, as a rule none half away from another
    Period,         \* bars an indicator looks back over
    Ingestions,
    Ranges,         \* the first bar of each range that is asked for
    MaxRevisions, MaxStarts \* bounds

Slots == 1..LastSlot

ASSUME HistoryAssumption ==
    /\ LastSlot \in Nat /\ Period \in Nat
    /\ Closes # {} /\ Closes \subseteq Nat \ {0}
    /\ Ranges \subseteq Slots

(* What an asset trades at is never more than half of it away from what it *)
(* traded at before, which the rule for outliers supposes.                 *)
ModestMoves == \A c, d \in Closes : 2 * (Max({c, d}) - Min({c, d})) <= d

VARIABLES
    feed,           \* what the provider knows
    revisions,
    prices,         \* historical_prices, 0 without a row
    indicators,     \* technical_indicators, NoFigure without a row
    features,       \* feature_snapshots, NoFeature without a row
    ingestion,      \* per ingestion, what it holds
    starts,
    lostRuns,       \* whether a run failed of which no row remains
    mixed           \* whether the last commit was of a run that had company

historyVars == <<feed, revisions, prices, indicators, features, ingestion, starts,
                 lostRuns, mixed>>

NotIngesting == [at |-> "idle"]
NoFigure == <<>>
NoFeature == [bars |-> 0, change |-> 0]

HistoryInit ==
    /\ feed = [b \in Slots |-> Min(Closes)] /\ revisions = 0
    /\ prices = [b \in Slots |-> 0]
    /\ indicators = [b \in Slots |-> NoFigure]
    /\ features = [b \in Slots |-> NoFeature]
    /\ ingestion = [i \in Ingestions |-> NotIngesting] /\ starts = 0
    /\ lostRuns = FALSE /\ mixed = FALSE

-----------------------------------------------------------------------------
(* Cleaning, validation and normalization of what the provider sent *)

(* _structural_problem: one bar is impossible by itself.                   *)
Impossible(bar) == bar.close <= 0

(* A move of more than half since the last bar that was accepted.          *)
Outlier(last, bar) == last > 0 /\ 2 * (Max({bar.close, last}) - Min({bar.close, last})) > last

(* The close of the last accepted bar among the first k.                   *)
LastValid(sent) ==
    LET last[k \in 0..Len(sent)] ==
            IF k = 0 THEN 0
            ELSE LET previous == last[k - 1] IN
                 IF Impossible(sent[k]) \/ Outlier(previous, sent[k]) THEN previous
                 ELSE sent[k].close
    IN last

(* The positions of the bars that are accepted.                            *)
validate_candles(sent) ==
    LET last == LastValid(sent)
    IN  {k \in DOMAIN sent : ~Impossible(sent[k]) /\ ~Outlier(last[k - 1], sent[k])}

(* One bar per slot, the accepted one that was sent last.                  *)
normalize_candles(sent) ==
    LET valid == validate_candles(sent)
        of(b) == {k \in valid : sent[k].slot = b}
    IN  [b \in {c \in Slots : of(c) # {}} |-> sent[Max(of(b))].close]

-----------------------------------------------------------------------------
(* What is derived from a series of stored bars *)

Stored(series) == {b \in Slots : series[b] > 0}

(* The last Period stored bars up to b.                                    *)
Window(series, b) ==
    {w \in Stored(series) :
        w <= b /\ Cardinality({v \in Stored(series) : w <= v /\ v <= b}) <= Period}

(* The bars that enough bars precede.                                      *)
Computable(series) ==
    {b \in Stored(series) : Cardinality({v \in Stored(series) : v <= b}) >= Period}

compute(series, b) ==
    IF b \in Computable(series) THEN [w \in Window(series, b) |-> series[w]] ELSE NoFigure

(* The change over the last bar; no change is known of a single one.       *)
compute_features(series) ==
    LET newest == Max(Stored(series))
        before == Stored(series) \ {newest}
    IN [bars |-> Cardinality(Stored(series)),
        change |-> IF before = {} THEN 0 ELSE series[newest] - series[Max(before)]]

-----------------------------------------------------------------------------
(* The provider *)

Revise(b, close) ==
    /\ revisions < MaxRevisions /\ close # feed[b]
    /\ feed' = [feed EXCEPT ![b] = close]
    /\ revisions' = revisions + 1
    /\ UNCHANGED <<prices, indicators, features, ingestion, starts, lostRuns, mixed>>

Bar(b, c, slipped) == [slot |-> b, close |-> c, slipped |-> slipped]

(* The range in ascending order. *)
InOrder(first) == [k \in 1..(LastSlot - first + 1) |-> Bar(first + k - 1, feed[first + k - 1], FALSE)]

(* A bar that came empty or with its decimal point misplaced. *)
Slips == UNION {{Bar(b, c, TRUE) : c \in {0, 10 * feed[b]}} : b \in Slots}

(* A print of the newest bar before its final figure. *)
PrintedTwice(sent, c) == Append([sent EXCEPT ![Len(sent)].close = c], Last(sent))

Replies(first) ==
    {InOrder(first)} \cup {PrintedTwice(InOrder(first), c) : c \in Closes}
    \cup {[InOrder(first) EXCEPT ![k] = s] : k \in DOMAIN InOrder(first), s \in Slips}

-----------------------------------------------------------------------------
(* An ingestion *)

Flying == {i \in Ingestions : ingestion[i] # NotIngesting}

(* collect: the run's row, and the question to the provider.               *)
Start(i, first) ==
    /\ ingestion[i] = NotIngesting /\ starts < MaxStarts /\ starts' = starts + 1
    /\ ingestion' = [j \in Ingestions |->
         IF j = i THEN [at |-> "asking", first |-> first, alone |-> Flying = {}]
         ELSE IF j \in Flying THEN [ingestion[j] EXCEPT !.alone = FALSE] ELSE NotIngesting]
    /\ UNCHANGED <<feed, revisions, prices, indicators, features, lostRuns, mixed>>

Ended(i) == ingestion' = [ingestion EXCEPT ![i] = NotIngesting]

(* The worker commits the session it fails the job in; the route turns the *)
(* error into a 502, for which the session is rolled back.                 *)
Unavailable(i, caller) ==
    /\ ingestion[i].at = "asking"
    /\ Ended(i)
    /\ lostRuns' = (lostRuns \/ caller = "route")
    /\ UNCHANGED <<feed, revisions, prices, indicators, features, starts, mixed>>

(* _upsert: the rows of the slots that were sent, as they are then.        *)
Reply(i, sent) ==
    /\ ingestion[i].at = "asking"
    /\ LET candles == normalize_candles(sent) IN
       ingestion' = [ingestion EXCEPT ![i] =
           [at |-> "read", alone |-> @.alone,
            insert |-> {b \in DOMAIN candles : prices[b] = 0},
            write |-> [b \in {c \in DOMAIN candles : prices[c] # candles[c]} |-> candles[b]]]]
    /\ UNCHANGED <<feed, revisions, prices, indicators, features, starts, lostRuns, mixed>>

(* The flush: it waits for the rows another has written, and an insert of  *)
(* a row that is there by then fails the transaction.                      *)
Store(i) ==
    /\ ingestion[i].at = "read"
    /\ \A j \in Ingestions \ {i} : ingestion[j].at \in {"stored", "computed"} =>
           DOMAIN ingestion[j].write \cap DOMAIN ingestion[i].write = {}
    /\ ingestion' = [ingestion EXCEPT ![i] =
           IF @.insert \cap Stored(prices) # {} THEN NotIngesting
           ELSE [at |-> "stored", alone |-> @.alone, write |-> @.write]]
    /\ UNCHANGED <<feed, revisions, prices, indicators, features, starts, lostRuns, mixed>>

Written(rows, write) == [b \in Slots |-> IF b \in DOMAIN write THEN write[b] ELSE rows[b]]

(* load_candles: what others committed and what it wrote itself.           *)
Series(i) == Written(prices, ingestion[i].write)

(* Mutant: a figure that has a row is never written again.                 *)
FiguresOnce(series) ==
    LET new == {b \in Computable(series) : indicators[b] = NoFigure}
    IN  [insert |-> new, write |-> [b \in new |-> compute(series, b)]]

(* _persist_one: of the figures there are, those without a row are         *)
(* inserted, and of the others those that differ updated.                  *)
Figures(series) ==
    [insert |-> {b \in Computable(series) : indicators[b] = NoFigure},
     write |-> [b \in {c \in Computable(series) : compute(series, c) # indicators[c]} |-> compute(series, b)]]

(* persist_features: the row at the newest bar.                            *)
Feature(series) ==
    IF Stored(series) = {} THEN [insert |-> {}, write |-> <<>>]
    ELSE LET newest == Max(Stored(series)) IN
         [insert |-> {b \in {newest} : features[b] = NoFeature},
          write |-> [b \in {newest} |-> compute_features(series)]]

Compute(i) ==
    /\ ingestion[i].at = "stored"
    /\ ingestion' = [ingestion EXCEPT ![i] =
           [at |-> "computed", alone |-> @.alone, write |-> @.write,
            figures |-> Figures(Series(i)), feature |-> Feature(Series(i))]]
    /\ UNCHANGED <<feed, revisions, prices, indicators, features, starts, lostRuns, mixed>>

(* The derived rows are flushed and the transaction commits, unless        *)
(* another has inserted one of the rows in the meantime.                   *)
CommitRun(i) ==
    LET f == ingestion[i].figures
        s == ingestion[i].feature
        taken == {b \in f.insert : indicators[b] # NoFigure} \cup {b \in s.insert : features[b] # NoFeature}
    IN
    /\ ingestion[i].at = "computed"
    /\ Ended(i)
    /\ IF taken # {} THEN UNCHANGED <<prices, indicators, features, mixed>>
       ELSE /\ prices' = Series(i)
            /\ indicators' = Written(indicators, f.write)
            /\ features' = Written(features, s.write)
            /\ mixed' = ~ingestion[i].alone
    /\ UNCHANGED <<feed, revisions, starts, lostRuns>>

(* The process dies or the request is cancelled: nothing of it remains.    *)
Abandon(i) ==
    /\ ingestion[i] # NotIngesting
    /\ Ended(i)
    /\ UNCHANGED <<feed, revisions, prices, indicators, features, starts, lostRuns, mixed>>

-----------------------------------------------------------------------------
HistoryNext ==
    \/ \E b \in Slots, close \in Closes : Revise(b, close)
    \/ \E i \in Ingestions :
          \/ \E first \in Ranges : Start(i, first)
          \/ \E caller \in {"job", "route"} : Unavailable(i, caller)
          \/ Store(i) \/ Compute(i) \/ CommitRun(i) \/ Abandon(i)
          \/ /\ ingestion[i].at = "asking"
             /\ \E sent \in Replies(ingestion[i].first) : Reply(i, sent)

HistorySpec == HistoryInit /\ [][HistoryNext]_historyVars

-----------------------------------------------------------------------------
(* Every stored indicator, and the features at the newest bar, are those   *)
(* of the prices that are stored: whatever range an ingestion refreshed,   *)
(* and also after two of them overlapped, once another has run by itself.  *)
DerivedFollowsPrices ==
    ~mixed => /\ \A b \in Slots : indicators[b] = compute(prices, b)
              /\ Stored(prices) # {} =>
                     features[Max(Stored(prices))] = compute_features(prices)

(* Validation takes out exactly the bars that are wrong, and a bar it took *)
(* out does not take others with it, if the first bar of the range is      *)
(* right or is wrong by itself.                                            *)
OnlySlipsRejected ==
    \A i \in Ingestions : ingestion[i].at = "asking" =>
        \A sent \in Replies(ingestion[i].first) :
            (sent[1].slipped => Impossible(sent[1])) =>
                validate_candles(sent) = {k \in DOMAIN sent : ~sent[k].slipped}

(* What is stored of an asset is the provider's bars without the wrong     *)
(* ones, and what is derived is derived from what is stored.               *)
SeriesIsRight == OnlySlipsRejected /\ DerivedFollowsPrices

-----------------------------------------------------------------------------
(* Refuted. *)

(* "one corrupt bar does not drag the bars after it into rejection too"    *)
(* (validation.py): a first bar with a misplaced decimal point does, as    *)
(* nothing precedes it that it could be measured against.                  *)
OneBadBar ==
    \A i \in Ingestions : ingestion[i].at = "asking" =>
        \A sent \in Replies(ingestion[i].first) :
            {k \in DOMAIN sent : ~sent[k].slipped} \subseteq validate_candles(sent)

(* "A record of every Market Data Collector run" (ProviderIngestionRun):   *)
(* the row of a run that failed under the route is rolled back with it.    *)
FailedRunsRecorded == ~lostRuns

(* Two overlapping ingestions of different ranges each compute from their  *)
(* own view, and the later commit leaves figures of prices that are not    *)
(* stored.                                                                 *)
DerivedAlwaysFollows == \A b \in Slots : indicators[b] = compute(prices, b)
=============================================================================
