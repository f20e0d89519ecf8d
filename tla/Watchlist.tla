------------------------------ MODULE Watchlist ------------------------------
(***************************************************************************)
(* The watchlist of one user: categories and the assets in them            *)
(* (api/routes/watchlist.py, Watchlist and WatchlistItem in                *)
(* db/models/user.py).  What is in them is what monitoring polls.          *)
(*                                                                         *)
(* The requests of one user run in a thread pool, each in a transaction of *)
(* its own: a request reads at one moment and commits at a later one, and  *)
(* the constraints of the two tables decide between those that overlap.    *)
(***************************************************************************)
EXTENDS Integers, FiniteSets

CONSTANTS
    Listable,
    Names,          \* of categories, trimmed; one of them is "Default"
    OpenRequests,   \* what the user has open at once
    MaxCategories,  \* bound: rows ever inserted
    MaxItems        \* bound: rows ever inserted

ASSUME WatchlistAssumption == "Default" \in Names /\ MaxCategories \in Nat /\ MaxItems \in Nat

VARIABLES
    categories,     \* rows of watchlists: [id, name]
    items,          \* rows of watchlist_items: [id, category, asset]
    lastCategory, lastItem,
    pending,        \* per request, what it has read
    following,      \* what the user was last told is followed
    late            \* of those, what changed after a deletion had read it

watchlistVars == <<categories, items, lastCategory, lastItem, pending, following, late>>

Unasked == [op |-> "none"]

WatchlistInit ==
    /\ categories = {} /\ items = {} /\ lastCategory = 0 /\ lastItem = 0
    /\ pending = [r \in OpenRequests |-> Unasked]
    /\ following = {} /\ late = {}

Id(name) == IF \E c \in categories : c.name = name
            THEN (CHOOSE c \in categories : c.name = name).id ELSE 0

Exists(id) == \E c \in categories : c.id = id
Inside(id) == {i \in items : i.category = id}
Listed == {i.asset : i \in items}

-----------------------------------------------------------------------------
(* What a request reads, and refuses with a 404, a 409 or a 422 *)

Read(r, q) ==
    /\ pending[r] = Unasked
    /\ pending' = [pending EXCEPT ![r] = q]
    /\ UNCHANGED <<categories, items, lastCategory, lastItem, following, late>>

AskCreate(r, name) == Id(name) = 0 /\ Read(r, [op |-> "create", name |-> name])

AskRename(r, name, target) ==
    /\ Id(name) # 0 /\ Id(target) = 0
    /\ Read(r, [op |-> "rename", id |-> Id(name), name |-> target])

(* The items and, of them, those whose asset is in Default already.        *)
AskDelete(r, name) ==
    /\ name # "Default" /\ Id(name) # 0
    /\ LET there == {i.asset : i \in Inside(Id("Default"))} IN
       Read(r, [op |-> "delete", id |-> Id(name), target |-> Id("Default"), name |-> "Default",
                move |-> {i.id : i \in {j \in Inside(Id(name)) : j.asset \notin there}},
                drop |-> {i.id : i \in {j \in Inside(Id(name)) : j.asset \in there}}])

AskAdd(r, asset, name) ==
    /\ \A i \in Inside(Id(name)) : i.asset # asset
    /\ Read(r, [op |-> "add", target |-> Id(name), name |-> name, asset |-> asset])

AskMove(r, item, name) ==
    /\ item.category # Id(name)
    /\ \A i \in Inside(Id(name)) : i.asset # item.asset
    /\ Read(r, [op |-> "move", id |-> item.id, target |-> Id(name), name |-> name])

AskRemove(r, item) == Read(r, [op |-> "remove", id |-> item.id])

-----------------------------------------------------------------------------
(* What it writes *)

(* _category: the category that was read, or a new one of that name.       *)
Category(q) == IF q.target = 0 THEN lastCategory + 1 ELSE q.target

(* A new category needs the name free, a read one must still be there for  *)
(* a row to refer to (uq_watchlist_user_name, the foreign key).            *)
CategoryStands(q) ==
    IF q.target = 0 THEN Id(q.name) = 0 /\ lastCategory < MaxCategories ELSE Exists(q.target)

WithCategory(q) ==
    /\ categories' = IF q.target # 0 THEN categories
                     ELSE categories \cup {[id |-> lastCategory + 1, name |-> q.name]}
    /\ lastCategory' = IF q.target = 0 THEN lastCategory + 1 ELSE lastCategory

Placed(ids, category) ==
    {IF i.id \in ids THEN [i EXCEPT !.category = category] ELSE i : i \in items}

(* uq_watchlist_item_asset *)
OncePerCategory(rows) ==
    \A i, j \in rows : i.category = j.category /\ i.asset = j.asset => i = j

AllThere(ids) == ids \subseteq {i.id : i \in items}

Answered(r) == pending' = [pending EXCEPT ![r] = Unasked]

(* Mutant: the cascade takes the items that were to be moved. *)
AfterDeletionCascading(q) == {i \in items : i.category # q.id}

(* The items move, except those that are in Default already; what is in    *)
(* the category when its row goes, goes with it.                           *)
AfterDeletion(q) ==
    {i \in Placed(q.move, Category(q)) : i.id \notin q.drop /\ i.category # q.id}

(* What came into the category since it was read, and what it was to share *)
(* with Default and Default has lost since.                                *)
Overtaken(q) ==
    {i.asset : i \in {j \in Inside(q.id) : j.id \notin q.move \cup q.drop}}
    \cup ({i.asset : i \in {j \in items : j.id \in q.drop}}
            \ {i.asset : i \in {j \in Inside(q.target) : j.id \notin q.drop}})

Create(r) ==
    /\ pending[r].op = "create" /\ Id(pending[r].name) = 0 /\ lastCategory < MaxCategories
    /\ categories' = categories \cup {[id |-> lastCategory + 1, name |-> pending[r].name]}
    /\ lastCategory' = lastCategory + 1
    /\ Answered(r)
    /\ UNCHANGED <<items, lastItem, following, late>>

Rename(r) ==
    /\ pending[r].op = "rename" /\ Exists(pending[r].id) /\ Id(pending[r].name) = 0
    /\ categories' = {IF c.id = pending[r].id THEN [c EXCEPT !.name = pending[r].name] ELSE c :
                        c \in categories}
    /\ Answered(r)
    /\ UNCHANGED <<items, lastCategory, lastItem, following, late>>

Delete(r) ==
    LET q == pending[r] IN
    /\ q.op = "delete" /\ CategoryStands(q)
    /\ AllThere(q.move) /\ OncePerCategory(Placed(q.move, Category(q)))
    /\ lastCategory' = IF q.target = 0 THEN lastCategory + 1 ELSE lastCategory
    /\ categories' = {c \in categories : c.id # q.id}
                     \cup (IF q.target = 0 THEN {[id |-> lastCategory + 1, name |-> "Default"]} ELSE {})
    /\ items' = AfterDeletion(q)
    /\ late' = late \cup Overtaken(q)
    /\ Answered(r)
    /\ UNCHANGED <<lastItem, following>>

Add(r) ==
    LET q == pending[r]
        row == [id |-> lastItem + 1, category |-> Category(q), asset |-> q.asset] IN
    /\ q.op = "add" /\ CategoryStands(q) /\ lastItem < MaxItems
    /\ OncePerCategory(items \cup {row})
    /\ WithCategory(q)
    /\ items' = items \cup {row} /\ lastItem' = lastItem + 1
    /\ following' = following \cup {q.asset} /\ late' = late \ {q.asset}
    /\ Answered(r)

Move(r) ==
    LET q == pending[r] IN
    /\ q.op = "move" /\ CategoryStands(q) /\ AllThere({q.id})
    /\ OncePerCategory(Placed({q.id}, Category(q)))
    /\ WithCategory(q)
    /\ items' = Placed({q.id}, Category(q))
    /\ Answered(r)
    /\ UNCHANGED <<lastItem, following, late>>

(* A row that is gone already is removed all the same. *)
RemoveItem(r) ==
    LET gone == {i \in items : i.id = pending[r].id} IN
    /\ pending[r].op = "remove"
    /\ items' = items \ gone
    /\ following' = following \ ({i.asset : i \in gone} \ {i.asset : i \in items'})
    /\ Answered(r)
    /\ UNCHANGED <<categories, lastCategory, lastItem, late>>

(* A constraint, a stale row or the bounds: rolled back and answered 500.  *)
RollBack(r) ==
    /\ pending[r] # Unasked /\ Answered(r)
    /\ UNCHANGED <<categories, items, lastCategory, lastItem, following, late>>

WatchlistNext ==
    \E r \in OpenRequests :
        \/ \E name \in Names : AskCreate(r, name) \/ AskDelete(r, name)
        \/ \E name, target \in Names : AskRename(r, name, target)
        \/ \E asset \in Listable, name \in Names : AskAdd(r, asset, name)
        \/ \E item \in items : AskRemove(r, item) \/ \E name \in Names : AskMove(r, item, name)
        \/ Create(r) \/ Rename(r) \/ Delete(r) \/ Add(r) \/ Move(r) \/ RemoveItem(r) \/ RollBack(r)

WatchlistSpec == WatchlistInit /\ [][WatchlistNext]_watchlistVars

-----------------------------------------------------------------------------
WatchlistTypeOK ==
    /\ categories \subseteq [id : 1..MaxCategories, name : Names]
    /\ items \subseteq [id : 1..MaxItems, category : 1..MaxCategories, asset : Listable]
    /\ following \subseteq Listable /\ late \subseteq Listable

(* "Deleting a grouping is not the same as deciding to stop following":    *)
(* whatever is renamed, moved, deleted and created at once, an asset stays *)
(* on the list, each item in a category that exists, until it is removed,  *)
(* unless another request overtook the deletion of its category.           *)
FollowedUntilRemoved ==
    /\ following \ late \subseteq Listed /\ Listed \subseteq following
    /\ \A i \in items : Exists(i.category)

(* The same of every asset.  Refuted: what is added to a category between  *)
(* the moment its deletion reads the items and the one it deletes the row  *)
(* goes with the row, and both requests are answered with success.         *)
AlwaysFollowed == following \subseteq Listed
=============================================================================
