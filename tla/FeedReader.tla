------------------------------ MODULE FeedReader ------------------------------
(***************************************************************************)
(* The feeds news is read from: the sources an administrator configures    *)
(* (NewsSource, the news-sources routes of api/routes/admin.py), the RSS   *)
(* provider with its cache (plugins/adapters/news_rss.py), and the two     *)
(* jobs that read with it, the sweep of every feed and the schedule of one *)
(* ticker.                                                                 *)
(*                                                                         *)
(* A job loads the rows of the sources, reads their feeds and commits what *)
(* it records of them at its end; the session then writes the values it    *)
(* computed from what it loaded.  A minute is the lifetime of the cache.   *)
(***************************************************************************)
EXTENDS Integers, FiniteSets

CONSTANTS
    Sources,        \* row ids, never used twice
    Urls,
    FirstUrl,       \* [Sources -> Urls]: the url of a row that is there from the start
    Templated,      \* urls that are searches for one ticker
    Tickers,        \* those with a schedule
    Articles,
    PublishedAt,    \* [Articles -> minutes]
    FeedOf,         \* [Articles -> Urls]
    About,          \* [Articles -> Tickers]
    Readers,        \* worker threads
    DeactivateThreshold, \* FAILURE_DEACTIVATE_THRESHOLD
    CacheTime,      \* CACHE_TTL_SECONDS
    LastMinute, MaxOutages, MaxEdits, MaxJobs \* bounds

(* What the theorems ask of the values. *)
ArticlesAreDated == PublishedAt \in [Articles -> Nat] /\ FeedOf \in [Articles -> Urls]

VARIABLES
    minute,
    down,           \* publishers that do not answer
    sources,        \* rows of news_sources
    cache,          \* per url, when the worker read the entries it remembers
    reading,        \* per reader, the job it runs and the rows it loaded
    window,         \* per ticker, last_fetched_at of its schedule
    newsItems,      \* rows of news_items
    misses,         \* per source, reads that failed since it was created
    passed,         \* articles a window moved past unstored, and why
    spent           \* of the bounds

feedVars == <<minute, down, sources, cache, reading, window, newsItems, misses, passed, spent>>

General == "general"    \* bound to no asset
Absent == [url |-> "none", asset |-> General, active |-> FALSE, failures |-> 0]
Deleted == [url |-> "deleted", asset |-> General, active |-> FALSE, failures |-> 0]
NotReading == [job |-> "none"]
Never == -1

FeedsInit ==
    /\ minute = 0 /\ down = {}
    /\ \E there \in SUBSET Sources :
          sources = [s \in Sources |-> IF s \in there
                        THEN [url |-> FirstUrl[s], asset |-> General, active |-> TRUE, failures |-> 0]
                        ELSE Absent]
    /\ cache = [u \in Urls |-> Never]
    /\ reading = [r \in Readers |-> NotReading]
    /\ window = [t \in Tickers |-> 0] /\ newsItems = {}
    /\ misses = [s \in Sources |-> 0] /\ passed = {}
    /\ spent = [outages |-> 0, edits |-> 0, jobs |-> 0]

Existing == {s \in Sources : sources[s].url \in Urls}

-----------------------------------------------------------------------------
(* The passage of time, and the publishers *)

MinutePasses ==
    /\ minute < LastMinute /\ minute' = minute + 1
    /\ UNCHANGED <<down, sources, cache, reading, window, newsItems, misses, passed, spent>>

FallSilent(u) ==
    /\ u \notin down
    /\ spent.outages < MaxOutages /\ spent' = [spent EXCEPT !.outages = @ + 1]
    /\ down' = down \cup {u}
    /\ UNCHANGED <<minute, sources, cache, reading, window, newsItems, misses, passed>>

Recover(u) ==
    /\ u \in down /\ down' = down \ {u}
    /\ UNCHANGED <<minute, sources, cache, reading, window, newsItems, misses, passed, spent>>

-----------------------------------------------------------------------------
(* RssNewsProvider.fetch *)

Cached(u) == cache[u] # Never /\ minute - cache[u] < CacheTime
Answers(u) == Cached(u) \/ u \notin down
ReadAt(u) == IF Cached(u) THEN cache[u] ELSE minute
Entries(u) == {a \in Articles : FeedOf[a] = u /\ PublishedAt[a] <= ReadAt(u)}

(* record, on the row as the session loaded it: a streak that was loaded   *)
(* as 0 and stays 0 is not written.                                        *)
Recorded(row, loaded, success) ==
    IF success THEN [row EXCEPT !.failures = IF loaded.failures = 0 THEN @ ELSE 0]
    ELSE [row EXCEPT !.failures = loaded.failures + 1,
                     !.active = @ /\ loaded.failures + 1 < DeactivateThreshold]

-----------------------------------------------------------------------------
(* The jobs *)

(* The active sources, and what a schedule was last fetched at.  A sweep   *)
(* has no ticker to search for and passes over templated feeds, a schedule *)
(* over those of other assets; without any source the job fails for good.  *)
Load(r, what) ==
    LET read == {s \in Existing : /\ sources[s].active
                                  /\ IF what = "sweep" THEN sources[s].url \notin Templated
                                     ELSE sources[s].asset \in {General, what}}
    IN /\ reading[r] = NotReading /\ read # {}
       /\ spent.jobs < MaxJobs /\ spent' = [spent EXCEPT !.jobs = @ + 1]
       /\ reading' = [reading EXCEPT ![r] =
              [job |-> what, at |-> minute, known |-> newsItems,
               since |-> IF what = "sweep" THEN 0 ELSE window[what],
               rows |-> [s \in read |-> sources[s]]]]
       /\ UNCHANGED <<minute, down, sources, cache, window, newsItems, misses, passed>>

(* What a schedule keeps of the feeds it read: the window since the last   *)
(* success it knew of, in general feeds what mentions the ticker.          *)
Kept(ticker, since, now, us, targeted) ==
    {a \in UNION {Entries(u) : u \in us} :
        /\ since <= PublishedAt[a] /\ PublishedAt[a] <= now
        /\ About[a] = ticker \/ FeedOf[a] \in targeted}

(* What the window moves past, of the feeds that were to be read.          *)
LeftBehind(ticker, since, now, us, found) ==
    {[article |-> a, why |-> IF ~Answers(FeedOf[a]) THEN "down"
                             ELSE IF PublishedAt[a] > ReadAt(FeedOf[a]) THEN "cached" ELSE "lost"] :
        a \in {b \in Articles \ (newsItems \cup found) : FeedOf[b] \in us /\ About[b] = ticker
                                        /\ since <= PublishedAt[b] /\ PublishedAt[b] < now}}

(* sweep_all_sources and get_news under run_schedule: a feed that fails is *)
(* recorded and passed over; a schedule succeeds unless all of them fail.  *)
(* Only the cache keeps what was read when the transaction fails: for a    *)
(* row that was deleted in the meantime, or for a story that another job   *)
(* stored after this one had looked for its digest.                        *)
Finish(r) ==
    LET job == reading[r].job
        rows == reading[r].rows
        us == {rows[s].url : s \in DOMAIN rows}
        failed == {s \in DOMAIN rows : ~Answers(rows[s].url)}
        good == us \ {rows[s].url : s \in failed}
        targeted == Templated \cup {rows[s].url : s \in {x \in DOMAIN rows : rows[x].asset # General}}
        since == reading[r].since
        found == IF job = "sweep" THEN UNION {Entries(u) : u \in good}
                 ELSE Kept(job, since, reading[r].at, good, targeted)
    IN
    /\ reading[r] # NotReading
    /\ reading' = [reading EXCEPT ![r] = NotReading]
    /\ cache' = [u \in Urls |-> IF u \in good THEN ReadAt(u) ELSE cache[u]]
    /\ \/ /\ DOMAIN rows \subseteq Existing
          /\ sources' = [s \in Sources |-> IF s \in DOMAIN rows
                            THEN Recorded(sources[s], rows[s], s \notin failed) ELSE sources[s]]
          /\ misses' = [s \in Sources |-> IF s \in failed THEN misses[s] + 1 ELSE misses[s]]
          /\ newsItems' = newsItems \cup found
          /\ IF job = "sweep" \/ good = {} THEN UNCHANGED <<window, passed>>
             ELSE /\ window' = [window EXCEPT ![job] = IF reading[r].at = since THEN @ ELSE reading[r].at]
                  /\ passed' = passed \cup LeftBehind(job, since, reading[r].at, us, found)
       \/ /\ ~(DOMAIN rows \subseteq Existing) \/ (found \cap newsItems) \ reading[r].known # {}
          /\ UNCHANGED <<sources, misses, newsItems, window, passed>>
    /\ UNCHANGED <<minute, down, spent>>

(* The worker dies. *)
Die(r) ==
    /\ reading[r] # NotReading
    /\ reading' = [reading EXCEPT ![r] = NotReading]
    /\ cache' = [u \in Urls |-> Never]
    /\ UNCHANGED <<minute, down, sources, window, newsItems, misses, passed, spent>>

-----------------------------------------------------------------------------
(* The administrator: one short transaction each *)

Edit == spent.edits < MaxEdits /\ spent' = [spent EXCEPT !.edits = @ + 1]

UrlTaken(u) == \E s \in Existing : sources[s].url = u

create_news_source(s, u, asset, active) ==
    /\ Edit /\ sources[s] = Absent /\ ~UrlTaken(u)
    /\ sources' = [sources EXCEPT ![s] =
                     [url |-> u, asset |-> asset, active |-> active, failures |-> 0]]
    /\ UNCHANGED <<minute, down, cache, reading, window, newsItems, misses, passed>>

(* Another url leaves the streak of the old one where it is. *)
RedirectSource(s, u) ==
    /\ Edit /\ s \in Existing /\ ~UrlTaken(u)
    /\ sources' = [sources EXCEPT ![s].url = u]
    /\ UNCHANGED <<minute, down, cache, reading, window, newsItems, misses, passed>>

BindSource(s, asset) ==
    /\ Edit /\ s \in Existing
    /\ sources' = [sources EXCEPT ![s].asset = asset]
    /\ UNCHANGED <<minute, down, cache, reading, window, newsItems, misses, passed>>

SwitchSource(s, on) ==
    /\ Edit /\ s \in Existing
    /\ sources' = [sources EXCEPT ![s].active = on, ![s].failures = IF on THEN 0 ELSE @]
    /\ UNCHANGED <<minute, down, cache, reading, window, newsItems, misses, passed>>

delete_news_source(s) ==
    /\ Edit /\ s \in Existing
    /\ sources' = [sources EXCEPT ![s] = Deleted]
    /\ UNCHANGED <<minute, down, cache, reading, window, newsItems, misses, passed>>

(* The API's process remembers what it read itself, so that a probe may    *)
(* succeed at a publisher that is down.                                    *)
Probed(s, ok) == Edit /\ s \in Existing /\ (sources[s].url \notin down => ok)

(* Mutant: a failed probe counts like a failed read.                       *)
test_news_source_counting(s, ok) ==
    /\ Probed(s, ok)
    /\ sources' = [sources EXCEPT ![s] = Recorded(@, @, ok)]
    /\ UNCHANGED <<minute, down, cache, reading, window, newsItems, misses, passed>>

(* The outcome of a probe is recorded, but adds nothing to the streak.     *)
test_news_source(s, ok) ==
    /\ Probed(s, ok)
    /\ sources' = IF ok THEN [sources EXCEPT ![s] = Recorded(@, @, TRUE)] ELSE sources
    /\ UNCHANGED <<minute, down, cache, reading, window, newsItems, misses, passed>>

-----------------------------------------------------------------------------
Bindings == Tickers \cup {General}

FeedsNext ==
    \/ MinutePasses
    \/ \E u \in Urls : FallSilent(u) \/ Recover(u)
    \/ \E r \in Readers : (\E job \in Tickers \cup {"sweep"} : Load(r, job)) \/ Finish(r) \/ Die(r)
    \/ \E s \in Sources :
          \/ \E u \in Urls, asset \in Bindings, active \in BOOLEAN : create_news_source(s, u, asset, active)
          \/ \E u \in Urls : RedirectSource(s, u)
          \/ \E asset \in Bindings : BindSource(s, asset)
          \/ \E on \in BOOLEAN : SwitchSource(s, on) \/ test_news_source(s, on)
          \/ delete_news_source(s)

FeedsSpec == FeedsInit /\ [][FeedsNext]_feedVars

-----------------------------------------------------------------------------
(* A source's streak is made of reads that failed: whatever probes an      *)
(* administrator runs, and whichever stale rows overlapping jobs write.    *)
StreakEarned == \A s \in Existing : sources[s].failures <= misses[s]

(* A schedule moves past an article of a feed it was to read only when the *)
(* feed was down or its cached copy older than the article.                *)
OnlyOutagesSkip == \A p \in passed : p.why # "lost"

(* Neither a feed's way to being switched off nor a gap in what a ticker's *)
(* schedule collected is an accident of stale rows and shared copies.      *)
GapsAndStreaksEarned == StreakEarned /\ OnlyOutagesSkip

-----------------------------------------------------------------------------
(* Refuted. *)

(* "Advanced only on success: on failure the same window is retried, so    *)
(* nothing published during the outage is skipped" (news/collector.py):    *)
(* one feed of several that answers is success, and the window moves past  *)
(* what the others published.                                              *)
OutageSkipsNothing == \A p \in passed : p.why # "down"

(* The same with no publisher down: a copy read for another ticker has no  *)
(* article that was published since.                                       *)
CacheSkipsNothing == \A p \in passed : p.why # "cached"

(* "a publication having a bad afternoon should not need an admin to turn  *)
(* it back on" (FAILURE_DEACTIVATE_THRESHOLD): the streak counts reads and *)
(* not moments, and every schedule reads every general feed.               *)
BadMomentForgiven == \A s \in Existing : sources[s].failures <= minute + 1
=============================================================================
