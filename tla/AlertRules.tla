------------------------------ MODULE AlertRules ------------------------------
(***************************************************************************)
(* Which conditions an observation meets: the rules of                     *)
(* monitoring/alerts.py over a quote, the stored levels and the indicator  *)
(* values of monitoring/signals.py, with the price limits of               *)
(* market/idx_rules.py.  What is stored is kept apart by dedup key, so a   *)
(* condition is a key without its asset: the rule, what it refers to and   *)
(* the session.                                                            *)
(*                                                                         *)
(* Prices are integers and fractions are compared by cross multiplication. *)
(* An indicator is a missing value or the number the rules compare: the    *)
(* averages and the MACD by their distance from the line they cross.       *)
(***************************************************************************)
EXTENDS Integers, FiniteSets, SequencesExt

CONSTANTS
    Prices,         \* quotes
    Levels,         \* [supports, resistances]: what is found among the bars
    StopLevel,  \* the fresh recommendation's stop, or 0
    Peak,           \* the highest bar since the holding was recorded, or 0
    PreviousClose,  \* the provider's, or 0
    Volatility,     \* a typical daily move, in percent
    Indicators,     \* what a bar's indicators may be
    HeldSessions,           \* FALSE_BREAKOUT_SESSIONS
    Baseline,       \* the sessions before a break: 20
    Lookback,       \* DIVERGENCE_LOOKBACK
    FlowSessions,   \* the fewest sessions of foreign flow: 6
    MaxSessions, MaxPolls, MaxBars, MaxRevised \* bounds

VARIABLES
    quotes,     \* the quotes observed, with their session and the levels then
    today,      \* the session
    bars,       \* the indicators of every stored bar, the last one last
    levels,     \* what _levels_and_volatility computes from these bars
    revised,    \* the days whose bar was stored before its session ended
    told        \* keys stored

(* Quotes and closes are above zero.                                       *)
ASSUME RulesAssumption ==
    /\ Prices \subseteq Nat \ {0} /\ MaxBars \in Nat
    /\ Levels \subseteq [supports : SUBSET Nat, resistances : SUBSET Nat]
    /\ \A b \in Indicators :
          /\ b.close \in Nat \ {0}
          /\ {b.averages, b.macd, b.rsi, b.stochastic, b.squeeze, b.open} \subseteq Int

rulesVars == <<quotes, today, bars, levels, revised, told>>

NoLevels == [supports |-> {}, resistances |-> {}]
Missing == -999
Abs(x) == IF x < 0 THEN -x ELSE x
Key(rule, ref, day) == [rule |-> rule, ref |-> ref, day |-> day]

ApproachPercent == 2        \* APPROACH_BAND
LimitProximity == 70        \* LIMIT_PROXIMITY_THRESHOLD
UnusualSigma == 2           \* UNUSUAL_MOVE_SIGMA
TrailingPercent == 15       \* trailing_stop_drop, as an operator might set it
MinRewardToRisk == 2
GapPercent == 2
QuietPercent == 5
ExtremePercent == 2
VolumeSpike == 20           \* in tenths
RangeExpansion == 20        \* in tenths
SqueezePercentile == 10
FlowSpike == 25             \* in tenths

-----------------------------------------------------------------------------
(* Exchange limits *)

LimitPercent(ref) == IF ref < 200 THEN 35 ELSE IF ref < 5000 THEN 25 ELSE 20

(* The day's upward band used so far, in thousandths; no band below 50.    *)
Consumed(ref, price) ==
    LET used == ((price - ref) * 100 * 1000) \div (ref * LimitPercent(ref))
    IN  IF used < 0 THEN 0 ELSE IF used > 1000 THEN 1000 ELSE used

-----------------------------------------------------------------------------
(* evaluate: rules about the quote *)

(* Mutant: a quote that stood on the level has not been below it. *)
CrossedUpStrictly(prev, level, price) == prev # Missing /\ prev < level /\ level < price

CrossedUp(prev, level, price) == prev # Missing /\ prev <= level /\ level < price
CrossedDown(prev, level, price) == prev # Missing /\ prev >= level /\ level > price

Resisted(prev, price, day) ==
    {Key("cross-up", <<l>>, day) : l \in {r \in levels.resistances : CrossedUp(prev, r, price)}}
      \cup {Key("near-resistance", <<l>>, day) :
              l \in {r \in levels.resistances : ~CrossedUp(prev, r, price) /\ r > price
                                           /\ 100 * (r - price) <= ApproachPercent * r}}

Supported(prev, price, day) ==
    {Key("cross-down", <<l>>, day) : l \in {s \in levels.supports : CrossedDown(prev, s, price)}}
      \cup {Key("near-support", <<l>>, day) :
              l \in {s \in levels.supports : ~CrossedDown(prev, s, price) /\ s < price /\ s > 0
                                        /\ 100 * (price - s) <= ApproachPercent * s}}

StopReached(price, day) ==
    {Key("stop", <<s>>, day) : s \in {x \in {StopLevel} : x > 0 /\ price <= x}}

LimitApproached(price, day) ==
    IF PreviousClose < 50 \/ Consumed(PreviousClose, price) < 10 * LimitProximity THEN {}
    ELSE {Key("limit", IF Consumed(PreviousClose, price) >= 999 THEN <<1>> ELSE <<0>>, day)}

UnusualMove(price, day) ==
    IF PreviousClose = 0 \/ Volatility = 0
         \/ 100 * Abs(price - PreviousClose) < UnusualSigma * Volatility * PreviousClose THEN {}
    ELSE {Key("unusual", IF price > PreviousClose THEN <<1>> ELSE <<-1>>, day)}

(* evaluate_trailing_stop: a holder's own peak. *)
TrailingStop(price, day) ==
    IF Peak = 0 \/ 100 * (Peak - price) < TrailingPercent * Peak THEN {}
    ELSE {Key("trailing-stop", <<Peak>>, day)}

(* evaluate_geometry with reward_to_risk: the nearest level on each side.  *)
RewardToRisk(price, day) ==
    LET below == {s \in levels.supports : 0 < s /\ s < price}
        above == {r \in levels.resistances : r > price}
    IN  IF below = {} \/ above = {} THEN {}
        ELSE IF Min(above) - price < MinRewardToRisk * (price - Max(below)) THEN {}
        ELSE {Key("reward-risk", <<Max(below), Min(above)>>, day)}

Evaluate(prev, price, day) ==
    Resisted(prev, price, day) \cup Supported(prev, price, day) \cup StopReached(price, day)
      \cup LimitApproached(price, day) \cup UnusualMove(price, day)
      \cup TrailingStop(price, day) \cup RewardToRisk(price, day)

-----------------------------------------------------------------------------
(* signals.py: the measures that look back over bars *)

AllKnown(values) == Missing \notin values

(* _failed_breakout: the level is the highest close of the baseline before *)
(* the last HeldSessions sessions.                                                 *)
FailedBreakout ==
    LET n == Len(bars)
        level == Max({bars[i].close : i \in (n - HeldSessions - Baseline + 1)..(n - HeldSessions)})
    IN  /\ n >= HeldSessions + Baseline + 1
        /\ bars[n].close < level
        /\ \E i \in (n - HeldSessions + 1)..n : bars[i].close > level

(* _has_bullish_divergence: the halves of the window compared.             *)
BullishDivergence ==
    LET n == Len(bars)
        earlier == (n - Lookback + 1)..(n - Lookback + Lookback \div 2)
        later == (n - Lookback + Lookback \div 2 + 1)..n
        lowest(half) == Min({bars[i].close : i \in half})
        weakest(half) == Min({bars[i].rsi : i \in half})
    IN  /\ n >= Lookback /\ AllKnown({bars[i].rsi : i \in earlier \cup later})
        /\ lowest(later) < lowest(earlier) /\ weakest(later) > weakest(earlier)

(* foreign_flow_ratio: the latest flow in tenths of the mean absolute flow *)
(* of the sessions before it.                                              *)
FlowRatio ==
    LET n == Len(bars)
        size == FoldFunction(LAMBDA bar, sum : Abs(bar.flow) + sum, 0, Front(bars))
    IN  IF n < FlowSessions \/ size = 0 THEN Missing
        ELSE (10 * bars[n].flow * (n - 1)) \div size

-----------------------------------------------------------------------------
(* evaluate_signals: rules about the latest bars *)

Raised(rule, holds, day) == IF holds THEN {Key(rule, <<>>, day)} ELSE {}

(* _crossed_above: the distance from the other line was at most 0 and is   *)
(* above it; with a bar missing, nothing crossed.                          *)
CrossedAbove(before, now) == AllKnown({before, now}) /\ before <= 0 /\ now > 0

(* The band was entered, as opposed to stayed in. *)
Entered(before, now, band) == AllKnown({before, now}) /\ before >= band /\ now < band

Mirror(v) == IF v = Missing THEN Missing ELSE -v

AverageCrossings(b, n, day) ==
    Raised("golden-cross", CrossedAbove(b.averages, n.averages), day)
      \cup Raised("death-cross", CrossedAbove(Mirror(b.averages), Mirror(n.averages)), day)
      \cup Raised("macd-up", CrossedAbove(b.macd, n.macd), day)
      \cup Raised("macd-down", CrossedAbove(Mirror(b.macd), Mirror(n.macd)), day)

Oscillators(b, n, day) ==
    Raised("rsi-oversold", Entered(b.rsi, n.rsi, 30), day)
      \cup Raised("rsi-overbought", Entered(Mirror(b.rsi), Mirror(n.rsi), -70), day)
      \cup Raised("stochastic-oversold", Entered(b.stochastic, n.stochastic, 20), day)
      \cup Raised("stochastic-overbought", Entered(Mirror(b.stochastic), Mirror(n.stochastic), -80), day)
      \cup Raised("squeeze", Entered(b.squeeze, n.squeeze, SqueezePercentile + 1), day)

(* The session's volume, range and opening against their own past; the     *)
(* move is the quote's from the bar before.                                *)
Sizes(b, n, price, day) ==
    Raised("volume-spike", AllKnown({n.volume}) /\ n.volume >= VolumeSpike, day)
      \cup Raised("volume-spike-quiet",
                  AllKnown({n.volume}) /\ n.volume >= VolumeSpike
                    /\ 100 * Abs(price - b.close) < QuietPercent * b.close, day)
      \cup Raised("range-expansion", AllKnown({n.range}) /\ n.range >= RangeExpansion, day)
      \cup Raised("gap-up", AllKnown({n.open}) /\ 100 * (n.open - b.close) >= GapPercent * b.close, day)
      \cup Raised("gap-down", AllKnown({n.open}) /\ 100 * (b.close - n.open) >= GapPercent * b.close, day)

(* The year's extremes, a breakout that failed, and a divergence near a    *)
(* support level (_nearest_support_within_band).                           *)
Places(n, price, day) ==
    Raised("52w-high", AllKnown({n.high}) /\ 100 * Abs(price - n.high) <= ExtremePercent * n.high, day)
      \cup Raised("52w-low", AllKnown({n.low}) /\ 100 * Abs(price - n.low) <= ExtremePercent * n.low, day)
      \cup Raised("false-breakout", FailedBreakout, day)
      \cup Raised("support-divergence",
                  BullishDivergence /\ \E s \in levels.supports : 0 < s /\ s <= price
                                    /\ 100 * (price - s) <= ApproachPercent * s, day)

(* evaluate_foreign_flow, whose key is today's. *)
FlowSpiked ==
    IF FlowRatio = Missing \/ Abs(FlowRatio) < FlowSpike THEN {}
    ELSE {Key("foreign-flow", <<>>, today)}

(* Keys name the bar's own day, so that a bar polled again says nothing.   *)
EvaluateSignals(price) ==
    IF Len(bars) < 2 THEN {}
    ELSE LET n == Last(bars) b == bars[Len(bars) - 1] day == Len(bars) IN
         AverageCrossings(b, n, day) \cup Oscillators(b, n, day) \cup Sizes(b, n, price, day)
           \cup Places(n, price, day)

-----------------------------------------------------------------------------
RulesInit ==
    /\ quotes = <<>> /\ today = 1 /\ bars = <<>> /\ levels = NoLevels
    /\ revised = {} /\ told = {}

(* One poll: the quote is compared with the previous one, whatever session *)
(* that was in, and record keeps the keys that are new.                    *)
Poll(price) ==
    /\ Len(quotes) < MaxPolls
    /\ LET prev == IF quotes = <<>> THEN Missing ELSE Last(quotes).price IN
       told' = told \cup Evaluate(prev, price, today) \cup EvaluateSignals(price)
                        \cup (IF bars = <<>> THEN {} ELSE FlowSpiked)
    /\ quotes' = Append(quotes, [price |-> price, session |-> today, levels |-> levels])
    /\ UNCHANGED <<today, bars, levels, revised>>

NewSession ==
    /\ today < MaxSessions /\ today' = today + 1
    /\ UNCHANGED <<quotes, bars, levels, revised, told>>

(* Other bars, and other levels are found among them.                      *)
NewBar(b) ==
    /\ Len(bars) < MaxBars /\ bars' = Append(bars, b)
    /\ levels' \in Levels
    /\ UNCHANGED <<quotes, today, revised, told>>

(* A fetch finds other figures for the last day and overwrites its bar.    *)
ReviseBar(b) ==
    /\ bars # <<>> /\ b # Last(bars) /\ Cardinality(revised) < MaxRevised
    /\ bars' = Append(Front(bars), b) /\ revised' = revised \cup {Len(bars)}
    /\ levels' \in Levels
    /\ UNCHANGED <<quotes, today, told>>

RulesNext == NewSession \/ (\E p \in Prices : Poll(p)) \/ (\E b \in Indicators : NewBar(b) \/ ReviseBar(b))

RulesSpec == RulesInit /\ [][RulesNext]_rulesVars

-----------------------------------------------------------------------------
(* Properties *)

Supports == UNION {v.supports : v \in Levels}
Resistances == UNION {v.resistances : v \in Levels}

(* A level the quotes of a session went through while it stood, however    *)
(* many polls the move took and wherever the session before left off, is   *)
(* told as crossed, and no other level is: not one that a new bar moved    *)
(* past the quotes.                                                        *)
CrossingsTold ==
    \A d \in 1..today :
        LET seen == {i \in 1..Len(quotes) : quotes[i].session = d}
            from == {i \in 1..Len(quotes) : i \in seen \/ (i + 1) \in seen}
        IN  /\ \A l \in Resistances : Key("cross-up", <<l>>, d) \in told <=>
                  \E i \in from, j \in seen :
                     /\ i < j /\ quotes[i].price <= l /\ l < quotes[j].price
                     /\ \A k \in (i + 1)..j : l \in quotes[k].levels.resistances
            /\ \A l \in Supports : Key("cross-down", <<l>>, d) \in told <=>
                  \E i \in from, j \in seen :
                     /\ i < j /\ quotes[i].price >= l /\ l > quotes[j].price
                     /\ \A k \in (i + 1)..j : l \in quotes[k].levels.supports

Events == {"golden-cross", "death-cross", "macd-up", "macd-down", "rsi-oversold", "rsi-overbought",
           "stochastic-oversold", "stochastic-overbought", "squeeze"}
Opposites == {<<"golden-cross", "death-cross">>, <<"macd-up", "macd-down">>,
              <<"rsi-oversold", "rsi-overbought">>,
              <<"stochastic-oversold", "stochastic-overbought">>, <<"gap-up", "gap-down">>}

(* "Only events are worth an interruption": what is told of one bar is not *)
(* told again of the next one, nor together with its opposite, unless the  *)
(* bars it was read from were stored before their session had ended.       *)
EventsNotStates ==
    \A d \in 1..MaxBars :
        /\ {d - 1, d} \cap revised = {} => \A o \in Opposites :
             ~(Key(o[1], <<>>, d) \in told /\ Key(o[2], <<>>, d) \in told)
        /\ {d - 1, d, d + 1} \cap revised = {} => \A e \in Events :
             ~(Key(e, <<>>, d) \in told /\ Key(e, <<>>, d + 1) \in told)

(* Each level the quotes went through is told once, and an indicator when  *)
(* it turns and not while it stays.                                        *)
AlertsAreEvents == CrossingsTold /\ EventsNotStates
=============================================================================
