----------------------------- MODULE MarketScan -----------------------------
(***************************************************************************)
(* The whole-market scan (aidss/monitoring/scan.py), the session records   *)
(* it reads (collectors/trading_summary.py), the jobs that carry it        *)
(* (jobs/handlers.py) and the screen that ranks what it stored             *)
(* (screener/engine.py, screener/criteria.py).                             *)
(*                                                                         *)
(* An import stores what the exchange reports of one session, or what it   *)
(* has revised of one that is stored.  Of a record it is kept whether it   *)
(* has volume, which is what a plan counts, and whether it has the close,  *)
(* high and low that a bar needs as well.  A plan splits the issuers with  *)
(* enough history into chunks and queues them; a chunk writes one row per  *)
(* issuer under the date on which it runs; the screen ranks the rows of    *)
(* the newest date.  A criterion is a sequence of tests, each needing some *)
(* bars; what a test finds is data.                                        *)
(***************************************************************************)
EXTENDS Integers, SequencesExt

CONSTANTS
    Tickers,        \* naturals: the order of the codes
    Reports,        \* [days -> what the exchange may publish: [issuers -> kinds]]
    Criteria,       \* of one horizon
    WeightOf,         \* [Criteria -> Nat]
    Tests,          \* [Criteria -> Seq([need : Nat, name : test names])]
    Shows,          \* [Tickers -> SUBSET test names]: the tests the chart passes
    MinSessions,    \* MINIMUM_SESSIONS
    Depth,          \* BACKFILL_SESSIONS: the newest records read
    ChunkSize,      \* SCAN_CHUNK
    Minutes,        \* minutes in a day: the resolution of a plan's stamp
    LastMinute,     \* bound: the last instant
    MaxScans     \* bound: scans an administrator asks for

VARIABLES
    minute,         \* the clock
    summaries,      \* daily_trading_summary: [Tickers -> [Days -> a kind, or "none"]]
    planning,       \* a market.scan job is queued
    plans,          \* plans made: their stamp, what they meant to cover and
                    \* whose records were revised since
    queued,         \* market.scan_chunk jobs that have not run
    keys,           \* dedup keys taken: <<stamp, first issuer>>
    rows,           \* rows of market_scan_results
    buried,         \* chunks that failed for good, by stamp
    requests

scanVars == <<minute, summaries, planning, plans, queued, keys, rows, buried, requests>>

ASSUME ScanAssumption ==
    /\ MinSessions \in Nat /\ ChunkSize \in Nat \ {0} /\ Minutes \in Nat \ {0} /\ LastMinute \in Nat
    /\ Tickers \subseteq Nat /\ IsFiniteSet(Tickers) /\ IsFiniteSet(Criteria)
    /\ WeightOf \in [Criteria -> Nat \ {0}]
    /\ \A c \in Criteria : Tests[c] \in Seq([need : Nat, name : STRING])

Today == minute \div Minutes
Days == 0..LastMinute \div Minutes

(* A record without volume; with volume, but without a close, high or low; *)
(* with all of them.                                                       *)
RecordKinds == {"quiet", "partial", "bar"}

ASSUME ReportAssumption ==
    \A d \in Days : Reports[d] \subseteq UNION {[S -> RecordKinds] : S \in SUBSET Tickers}

ScanInit ==
    /\ minute = 0 /\ summaries = [t \in Tickers |-> [d \in Days |-> "none"]]
    /\ planning = FALSE /\ plans = {} /\ queued = {} /\ keys = {}
    /\ rows = {} /\ buried = {} /\ requests = 0

-----------------------------------------------------------------------------
(* Bars and criteria *)

SessionsOf(t) == {d \in Days : summaries[t][d] # "none"}
NewestOf(days) == {d \in days : Cardinality({e \in days : e > d}) < Depth}
TradedOn(t, days) == {d \in days : summaries[t][d] \in {"partial", "bar"}}
BarsOn(t, days) == {d \in days : summaries[t][d] = "bar"}

(* The newest stored records that are bars: what is no bar still counts    *)
(* towards the depth (summaries_for, candles_from_summaries).              *)
Bars(t) == BarsOn(t, NewestOf(SessionsOf(t)))

(* Counted on volume alone and over everything stored, not over the depth  *)
(* that a scan reads.                                                      *)
Scannable == {t \in Tickers : Cardinality(TradedOn(t, SessionsOf(t))) >= MinSessions}

Meets(t, test) == test.name \in Shows[t]
Measured(bars, test) == test.need <= bars

(* Mutant: what could not be checked is reported as checked and false. *)
OutcomeOfTwo(t, bars, c) ==
    IF \A i \in DOMAIN Tests[c] : Measured(bars, Tests[c][i]) /\ Meets(t, Tests[c][i])
    THEN "met" ELSE "unmet"

(* The first test that does not hold decides: it was false, or its input   *)
(* did not exist (Reading returns None and _WatchedReading notes it).      *)
Outcome(t, bars, c) ==
    LET failing == {i \in DOMAIN Tests[c] :
                      ~Measured(bars, Tests[c][i]) \/ ~Meets(t, Tests[c][i])}
    IN IF failing = {} THEN "met"
       ELSE IF Measured(bars, Tests[c][CHOOSE i \in failing : \A j \in failing : i <= j])
            THEN "unmet" ELSE "unevaluable"

HorizonScores(t, bars) ==
    [met |-> {c \in Criteria : Outcome(t, bars, c) = "met"},
     blind |-> {c \in Criteria : Outcome(t, bars, c) = "unevaluable"}]

-----------------------------------------------------------------------------
(* Importing and scanning *)

(* sync_summaries: an issuer that the report does not name keeps its       *)
(* record, one that it names gets a record or a revised one.  Nothing      *)
(* follows from it.                                                        *)
Import(d, report) ==
    LET revised == {t \in DOMAIN report : summaries[t][d] \notin {"none", report[t]}}
    IN /\ d <= Today
       /\ summaries' = [t \in Tickers |-> [summaries[t] EXCEPT
                            ![d] = IF t \in DOMAIN report THEN report[t] ELSE @]]
       /\ plans' = {[p EXCEPT !.revised = @ \cup (revised \cap p.wanted)] : p \in plans}
       /\ UNCHANGED <<minute, planning, queued, keys, rows, buried, requests>>

(* POST /admin/market/scan; within a minute it returns the job queued.     *)
RequestScan ==
    /\ requests < MaxScans /\ requests' = requests + 1
    /\ planning' = TRUE
    /\ UNCHANGED <<minute, summaries, plans, queued, keys, rows, buried>>

(* How many chunks are full before the ticker's turn comes. *)
ChunkOf(S, t) == Cardinality({u \in S : u < t}) \div ChunkSize

(* Mutant: the last, shorter chunk is forgotten. *)
BatchesInFull(S) ==
    {b \in {{u \in S : ChunkOf(S, u) = ChunkOf(S, t)} : t \in S} : Cardinality(b) = ChunkSize}

(* The planned issuers in chunks, in the order of their codes. *)
Batches(S) == {{u \in S : ChunkOf(S, u) = ChunkOf(S, t)} : t \in S}

First(batch) == CHOOSE t \in batch : \A u \in batch : t <= u

(* market.scan: a chunk is queued unless its key is taken, "a scheduler    *)
(* ticking twice queues one set of chunks, not two".                       *)
PlanScan ==
    /\ planning /\ planning' = FALSE
    /\ LET batches == Batches(Scannable)
           new == {b \in batches : <<minute, First(b)>> \notin keys}
       IN /\ queued' = queued \cup {[stamp |-> minute, batch |-> b] : b \in new}
          /\ keys' = keys \cup {<<minute, First(b)>> : b \in new}
          /\ plans' = plans \cup {[stamp |-> minute, wanted |-> Scannable,
                                     whole |-> new = batches, revised |-> {}]}
    /\ UNCHANGED <<minute, summaries, rows, buried, requests>>

RowOf(t) ==
    LET bars == Cardinality(Bars(t)) IN
    [ticker |-> t, date |-> Today, bars |-> bars, scores |-> HorizonScores(t, bars)]

(* market.scan_chunk: each issuer's row of the date on which the chunk     *)
(* runs is written or replaced.                                            *)
ScanChunk(chunk) ==
    /\ queued' = queued \ {chunk}
    /\ LET read == {t \in chunk.batch : Cardinality(Bars(t)) >= MinSessions}
       IN rows' = {r \in rows : ~(r.ticker \in read /\ r.date = Today)} \cup {RowOf(t) : t \in read}
    /\ UNCHANGED <<minute, summaries, planning, plans, keys, buried, requests>>

(* Its retries are used up. *)
BuryChunk(chunk) ==
    /\ queued' = queued \ {chunk} /\ buried' = buried \cup {chunk.stamp}
    /\ UNCHANGED <<minute, summaries, planning, plans, keys, rows, requests>>

ScanTick ==
    /\ minute < LastMinute /\ minute' = minute + 1
    /\ UNCHANGED <<summaries, planning, plans, queued, keys, rows, buried, requests>>

ScanNext ==
    \/ RequestScan \/ PlanScan \/ ScanTick
    \/ \E d \in Days : \E report \in Reports[d] : Import(d, report)
    \/ \E chunk \in queued : ScanChunk(chunk) \/ BuryChunk(chunk)

(* Workers run what is queued. *)
ScanFairness ==
    /\ WF_scanVars(PlanScan)
    /\ WF_scanVars(\E chunk \in queued : ScanChunk(chunk))

ScanSpec == ScanInit /\ [][ScanNext]_scanVars /\ ScanFairness

-----------------------------------------------------------------------------
(* The screen *)

Sum(S) == SumFunctionOnSet(WeightOf, S)

(* The ceiling leaves out what could not be checked. *)
Reachable(row) == Criteria \ row.scores.blind

LatestDate == Max({r.date : r \in rows})

Pick(row) ==
    [ticker |-> row.ticker, score |-> Sum(row.scores.met), outOf |-> Sum(Reachable(row)),
     met |-> row.scores.met, unmet |-> Criteria \ (row.scores.met \cup row.scores.blind)]

Picks == {Pick(r) : r \in {s \in rows : s.date = LatestDate}}

(* "(-p.score, p.ticker)": the ticker breaks ties. *)
Outranks(p, q) == p.score > q.score \/ (p.score = q.score /\ p.ticker < q.ticker)

(* screen_stored over the rows of the newest date, best first. *)
Screen ==
    CHOOSE s \in [1..Cardinality(Picks) -> Picks] :
        \A i, j \in DOMAIN s : i < j => Outranks(s[i], s[j])

-----------------------------------------------------------------------------
(* Properties *)

(* A pick is as good as the data lets one say: a criterion it is said not  *)
(* to meet was false of bars that were there, and an issuer that meets     *)
(* everything that can be checked reaches its ceiling.                     *)
PicksAreHonest ==
    LET screen == Screen IN
    \A i \in DOMAIN screen :
        LET pick == screen[i]
            row == CHOOSE r \in rows : r.ticker = pick.ticker /\ r.date = LatestDate
        IN /\ pick.unmet = {} <=> pick.score = pick.outOf
           /\ \A c \in pick.unmet : \E k \in DOMAIN Tests[c] :
                 Measured(row.bars, Tests[c][k]) /\ ~Meets(pick.ticker, Tests[c][k])

(* Sessions that were stored gave the history, but of the newest of them,  *)
(* which is all a scan reads, fewer are bars: a long suspension, or volume *)
(* that was published without a close, a high or a low.                    *)
Dormant(t) ==
    \E days \in SUBSET SessionsOf(t) :
        /\ Cardinality(TradedOn(t, days)) >= MinSessions
        /\ Cardinality(BarsOn(t, NewestOf(days))) < MinSessions

(* All of a plan's chunks were queued and have run, and midnight has not   *)
(* passed since it was made.                                               *)
RanToday(p) ==
    /\ p.whole /\ p.stamp \notin buried /\ p.stamp \div Minutes = Today
    /\ \A c \in queued : c.stamp # p.stamp

Covered(t) == \E r \in rows : r.ticker = t /\ r.date = Today

(* Such a plan has covered every issuer with the history, however its      *)
(* chunks interleave with imports of sessions and with other plans, but    *)
(* for one whose records a scan cannot read as a plan counts them, and one *)
(* whose records were revised meanwhile.                                   *)
NobodySkipped ==
    \A p \in plans : RanToday(p) =>
        \A t \in p.wanted \ p.revised : Covered(t) \/ Dormant(t)

(* Without these two.  Refuted: an issuer with MinSessions sessions of     *)
(* volume, one of them without a high, is planned and then left out, and   *)
(* only a count in the chunk's log says so.                                *)
EveryPlannedIsCovered ==
    \A p \in plans : RanToday(p) => \A t \in p.wanted : Covered(t)

(* "The scan is chained by the import handler once the rows are in": a     *)
(* session that was imported is scanned.                                   *)
ScanFollowsImport ==
    \A d \in Days, t \in Tickers :
        summaries[t][d] # "none" /\ t \in Scannable ~> \E r \in rows : r.ticker = t

(* "One date for the whole run": the rows of one plan share a date.        *)
OneDatePerRun ==
    \A p \in plans : p.stamp \notin buried /\ (\A c \in queued : c.stamp # p.stamp)
        => \E d \in Days : \A t \in p.wanted : \E r \in rows : r.ticker = t /\ r.date = d
=============================================================================
