---------------------------- MODULE NewsPipeline ----------------------------
(***************************************************************************)
(* What happens to a story: news/collector.py stores it for the asset it   *)
(* was fetched for, news/sweep.py stores it out of a feed and attributes   *)
(* it with news/tagging.py, the backfill job attributes what carries no    *)
(* tag, news/agenda_extract.py reads a date out of it, and                 *)
(* monitoring/agenda.py keeps the calendar and tells the followers.        *)
(*                                                                         *)
(* An article is its digest (URL and headline).  Days count from the start *)
(* of year 0; a year has YearDays of them.                                 *)
(***************************************************************************)
EXTENDS Integers, FiniteSets

CONSTANTS
    Articles,
    Published,      \* [Articles -> days]: published_at, no two alike
    Feed,           \* [Articles -> Feeds]: the source that carries it
    Codes,          \* [Articles -> SUBSET Issuers]: ticker codes in the text
    Words,          \* [Articles -> SUBSET CompanyNames]: names in the text, longest first
    Shouting,       \* articles written in capitals throughout
    Says,           \* [Articles -> Seq(StatedDates)]: dates in a story that names an event
    EventKind,      \* [Articles -> kinds]: the event it names
    Issuers, CompanyNames, Feeds,
    Indexed,        \* [Issuers -> SUBSET CompanyNames]: curated and derived aliases
    MaxIssuersPerItem, MaxEntriesPerSource, BackfillLimit, ExtractLimit,
    YearDays, MaxDaysBehind, MaxRolloverDays, MaxDaysAhead,
    Mechanical,     \* MECHANICAL_KINDS, noticed further ahead
    NoticeDays, MechanicalNoticeDays,
    WatchedBy,      \* [Issuers -> SUBSET users]: whose watchlists hold it
    LastDay,        \* bound: days
    MaxEdits        \* bound: edits of the aliases

NoYear == -1
StatedDates == [day : 0..(YearDays - 1), year : {NoYear} \cup Nat]

ASSUME PipelineAssumption ==
    /\ \A a \in Articles : IsFiniteSet(DOMAIN Says[a])
    /\ Published \in [Articles -> Nat] /\ MaxDaysBehind \in Nat /\ MaxDaysAhead \in Nat

VARIABLES
    newsDay,
    extra,          \* aliases an administrator typed, by issuer
    edits,
    stored,         \* rows of news_items
    fetchedFor,     \* their asset_id: the issuer whose schedule stored them, or none
    tags,           \* rows of news_item_issuers: <<article, issuer>>
    sweep,          \* a sweep between its reads and its commit
    calendar,       \* rows of issuer_agenda: ticker, kind, date, the story that wrote it last
    stated,         \* every <<story, date>> the extractor has ever read
    notices         \* alerts: <<follower, <<issuer, kind, date>>>>

pipelineVars == <<newsDay, extra, edits, stored, fetchedFor, tags, sweep, calendar, stated, notices>>

NoSweep == [entries |-> {}, new |-> {}, tags |-> {}, open |-> FALSE]

PipelineInit ==
    /\ newsDay = 0
    /\ extra = [i \in Issuers |-> {}] /\ edits = 0
    /\ stored = {} /\ fetchedFor = [a \in Articles |-> {}]
    /\ tags = {} /\ sweep = NoSweep
    /\ calendar = {} /\ stated = {} /\ notices = {}

Newest(S, n) == {a \in S : Cardinality({b \in S : Published[b] > Published[a]}) < n}

-----------------------------------------------------------------------------
(* Attribution: IssuerMatcher *)

(* effective_aliases: the index, derivation from the registered name, and  *)
(* what an administrator added, resolved when matching.                    *)
EffectiveAliases(i) == Indexed[i] \cup extra[i]

(* Two issuers that answer to one name: it belongs to neither. *)
AliasOwner(n) == {i \in Issuers : n \in EffectiveAliases(i)}

(* match: codes as they are written, unless everything is in capitals;     *)
(* names only one issuer answers to; and nothing at all when the story is  *)
(* a listing.                                                              *)
Match(a) ==
    LET byCode == IF a \in Shouting THEN {} ELSE Codes[a]
        byName == {i \in Issuers : \E n \in Words[a] : AliasOwner(n) = {i}}
        found == byCode \cup byName
    IN IF Cardinality(found) > MaxIssuersPerItem THEN {} ELSE found

TagsOf(a) == {i \in Issuers : <<a, i>> \in tags}

(* tag_item replaces whatever the story was attributed to before. *)
Retagged(S) ==
    {t \in tags : t[1] \notin S} \cup {t \in S \X Issuers : t[2] \in Match(t[1])}

-----------------------------------------------------------------------------
(* sweep_all_sources: one transaction.  What it holds to be new is decided *)
(* while it reads, and a digest another transaction has committed meanwhile*)
(* fails the whole of it; the queue runs it again.                         *)

SweepReads(failed) ==
    /\ ~sweep.open
    /\ failed \subseteq Feeds
    /\ LET on(f) == {a \in Articles : Feed[a] = f /\ Published[a] <= newsDay}
           entries == UNION {Newest(on(f), MaxEntriesPerSource) : f \in Feeds \ failed}
           fresh == entries \ stored
       IN sweep' = [entries |-> entries, new |-> fresh, open |-> TRUE,
                    tags |-> {t \in fresh \X Issuers : t[2] \in Match(t[1])}]
    /\ UNCHANGED <<newsDay, extra, edits, stored, fetchedFor, tags, calendar, stated, notices>>

SweepCommits ==
    /\ sweep.open
    /\ sweep.new \cap stored = {}
    /\ stored' = stored \cup sweep.new
    /\ tags' = tags \cup sweep.tags
    /\ sweep' = NoSweep
    /\ UNCHANGED <<newsDay, extra, edits, fetchedFor, calendar, stated, notices>>

SweepFails ==
    /\ sweep.open
    /\ sweep.new \cap stored # {}
    /\ sweep' = NoSweep
    /\ UNCHANGED <<newsDay, extra, edits, stored, fetchedFor, tags, calendar, stated, notices>>

(* NewsCollector.fetch_and_store for one asset: what is new becomes that   *)
(* asset's; what is known stays as it is.  Nothing attributes it.          *)
ScheduleStores(i) ==
    LET got == {a \in Articles : Published[a] <= newsDay /\ i \in Codes[a]} \ stored IN
    /\ got # {}
    /\ stored' = stored \cup got
    /\ fetchedFor' = [a \in Articles |-> IF a \in got THEN {i} ELSE fetchedFor[a]]
    /\ UNCHANGED <<newsDay, extra, edits, tags, sweep, calendar, stated, notices>>

(* tag_untagged: the newest stories that carry no tag, a bounded number. *)
Untagged == {a \in stored : TagsOf(a) = {}}

BackfillTags ==
    LET batch == Newest(Untagged, BackfillLimit) IN
    /\ tags' = Retagged(batch)
    /\ tags' # tags
    /\ UNCHANGED <<newsDay, extra, edits, stored, fetchedFor, sweep, calendar, stated, notices>>

(* The issuer routes of api/routes/admin.py: the aliases of one issuer. *)
EditAliases(i, names) ==
    /\ edits < MaxEdits /\ edits' = edits + 1
    /\ extra' = [extra EXCEPT ![i] = names]
    /\ extra' # extra
    /\ UNCHANGED <<newsDay, stored, fetchedFor, tags, sweep, calendar, stated, notices>>

-----------------------------------------------------------------------------
(* The calendar *)

Day(year, day) == year * YearDays + day

(* _resolve: an omitted year is inferred from the article's publication:   *)
(* the same year unless the day is well past, the next one only when that  *)
(* is near.                                                                *)
ResolveOn(d, from) ==
    IF d.year # NoYear THEN {Day(d.year, d.day)}
    ELSE LET same == Day(from \div YearDays, d.day)
         IN IF same - from >= -MaxDaysBehind THEN {same}
            ELSE {n \in {same + YearDays} : n - from <= MaxRolloverDays}

(* The mentions that resolve to a believable date, each with its date. *)
Readings(a, from) ==
    {r \in (DOMAIN Says[a]) \X ((from - MaxDaysBehind)..(from + MaxDaysAhead)) :
        r[2] \in ResolveOn(Says[a][r[1]], from)}

(* The same, anchored on the day the extractor runs. *)
ReadingsToday(a) == Readings(a, newsDay)

DatesOf(a) == Readings(a, Published[a])

(* entries_from: a story with one dated mention, for the issuers it is     *)
(* read with.  Two mentions are left to a human, of one date or of two.    *)
EntriesFrom(a, issuers) ==
    LET dates == DatesOf(a)
    IN  IF Cardinality(dates) # 1 THEN {}
        ELSE {[ticker |-> i, kind |-> EventKind[a], date |-> r[2], story |-> a] :
                 i \in issuers, r \in dates}

(* The tags extract reads: those of the newest stories, a bounded number   *)
(* of rows, so that the last story may be cut short.                       *)
IsScanned(rows) ==
    /\ \A t \in rows : {u \in tags : Published[u[1]] > Published[t[1]]} \subseteq rows
    /\ Cardinality(rows) <= ExtractLimit
    /\ rows = tags \/ Cardinality(rows) = ExtractLimit

(* extract and store_entries: every story it read, the newest first, each  *)
(* an upsert on ticker, kind and date, so that the oldest writes last.     *)
Extract(rows) ==
    LET all == UNION {EntriesFrom(a, {t[2] : t \in {u \in rows : u[1] = a}}) : a \in stored}
        Same(e, f) == <<e.ticker, e.kind, e.date>> = <<f.ticker, f.kind, f.date>>
        last == {e \in all : \A f \in all :
                    Same(e, f) => Published[e.story] <= Published[f.story]}
    IN
    /\ IsScanned(rows)
    /\ calendar' = {r \in calendar : \A e \in last : ~Same(r, e)} \cup last
    /\ stated' = stated \cup {<<e.story, e.date>> : e \in all}
    /\ <<calendar, stated>>' # <<calendar, stated>>
    /\ UNCHANGED <<newsDay, extra, edits, stored, fetchedFor, tags, sweep, notices>>

(* raise_notices: what is scheduled within its kind's window, once to each *)
(* follower; the key is the event's, so a moved date is told again.        *)
NoticeWindow(kind) == IF kind \in Mechanical THEN MechanicalNoticeDays ELSE NoticeDays

RaiseNotices ==
    LET due == {r \in calendar : r.date - newsDay \in 0..NoticeWindow(r.kind)} IN
    /\ notices' = notices \cup
           UNION {WatchedBy[r.ticker] \X {<<r.ticker, r.kind, r.date>>} : r \in due}
    /\ notices' # notices
    /\ UNCHANGED <<newsDay, extra, edits, stored, fetchedFor, tags, sweep, calendar, stated>>

DayPasses ==
    /\ newsDay < LastDay
    /\ newsDay' = newsDay + 1
    /\ UNCHANGED <<extra, edits, stored, fetchedFor, tags, sweep, calendar, stated, notices>>

PipelineNext ==
    \/ \E failed \in SUBSET Feeds : SweepReads(failed)
    \/ SweepCommits \/ SweepFails \/ BackfillTags \/ RaiseNotices \/ DayPasses
    \/ \E rows \in SUBSET tags : Extract(rows)
    \/ \E i \in Issuers : ScheduleStores(i) \/ \E names \in SUBSET CompanyNames : EditAliases(i, names)

(* An administrator may ask for the backfill again and again. *)
PipelineSpec == PipelineInit /\ [][PipelineNext]_pipelineVars /\ WF_pipelineVars(BackfillTags)

-----------------------------------------------------------------------------
PipelineTypeOK ==
    /\ newsDay \in 0..LastDay /\ stored \subseteq Articles
    /\ extra \in [Issuers -> SUBSET CompanyNames]
    /\ tags \subseteq stored \X Issuers
    /\ calendar \subseteq [ticker : Issuers, kind : {EventKind[a] : a \in stored}, date : Int, story : stored]

(* A story that omits the year means one day for ever: however late, and   *)
(* however often the extractor reads it again, it finds the date it found  *)
(* first (agenda_extract.py _resolve).                                     *)
OneDatePerStory == \A s, t \in stated : s[1] = t[1] => s[2] = t[2]

(* What sweep.py says of tag_untagged and tag_item: called repeatedly the  *)
(* backfill converges, and a corrected alias undoes the tag it caused.     *)
BackfillConverges == \A a \in Articles : <>[](a \in stored => TagsOf(a) = Match(a))

(* What agenda.py says of store_entries: re-importing corrects the         *)
(* calendar, a meeting that moved does not stand there twice.              *)
MovedEventReplaced ==
    \A r, q \in calendar :
        r.ticker = q.ticker /\ r.kind = q.kind /\ r.date >= newsDay /\ q.date >= newsDay => r = q
=============================================================================
