---------------------------- MODULE People_proofs ----------------------------
(***************************************************************************)
(* Proofs about Accounts for any number of people, analyses and requests,  *)
(* and about Watchlist for any number of requests, categories and items.   *)
(***************************************************************************)
EXTENDS Accounts, Watchlist, TLAPS

-----------------------------------------------------------------------------
(* Accounts: rows and requests *)

Grants == [owner : People, recipient : People, subject : Subjects, live : BOOLEAN]

AccountsTyped ==
    /\ DOMAIN accounts \subseteq People
    /\ accounts \in [DOMAIN accounts -> Account]
    /\ asked \in [People -> AdminRequests \cup {NoRequest}]
    /\ overlapped \in BOOLEAN /\ shellRevoked \in BOOLEAN

(* Every grant, live or withdrawn, is of an analysis of its owner's.       *)
GrantsOwned ==
    grants \subseteq Grants /\ \A g \in grants : g.owner = Author[g.subject]

(* A request that would take the role from its target.                     *)
Reduces(req) == req.op = "delete" \/ (req.op = "role" /\ req.role # "admin")

(* While requests come one after another, the one that is open leaves an   *)
(* administrator besides its target.                                       *)
AdminRemains ==
    ~overlapped /\ ~shellRevoked =>
        /\ Admins # {}
        /\ \A a, b \in People : asked[a] # NoRequest /\ asked[b] # NoRequest => a = b
        /\ \A a \in People :
              asked[a] # NoRequest /\ Reduces(asked[a]) => Admins \ {asked[a].on} # {}

AccountsInv == AccountsTyped /\ GrantsOwned /\ AdminRemains

LEMMA NewAccountTyped ==
  ASSUME NEW r \in Roles
  PROVE  NewAccount(r) \in Account /\ NewAccount(r).role = r
  BY DEF NewAccount, Account

LEMMA RequestKinds ==
  ASSUME NEW req \in AdminRequests
  PROVE  /\ req # NoRequest /\ req.on \in People
         /\ req.op \in {"role", "create", "suspend", "ban", "reinstate", "delete"}
         /\ req.op \in {"role", "create"} => req.role \in Roles
         /\ req.op = "suspend" => req.until \in {"none", "ahead"}
  BY DEF AdminRequests, NoRequest

LEMMA AccountsInitially == AccountsInit => AccountsInv
  <1> SUFFICES ASSUME AccountsInit PROVE AccountsInv
    OBVIOUS
  <1>1. accounts = [u \in {Founder} |-> NewAccount("admin")]
        /\ asked = [u \in People |-> NoRequest] /\ grants = {}
        /\ overlapped = FALSE /\ shellRevoked = FALSE
    BY DEF AccountsInit
  <1>2. NewAccount("admin") \in Account /\ NewAccount("admin").role = "admin"
    BY AccountsAssumption, NewAccountTyped
  <1>3. AccountsTyped
    BY <1>1, <1>2, AccountsAssumption DEF AccountsTyped
  <1>4. Founder \in Admins
    BY <1>1, <1>2 DEF Admins
  <1> QED
    BY <1>1, <1>3, <1>4 DEF AccountsInv, GrantsOwned, AdminRemains

(* Rows change, and nobody with the role loses it.                         *)
LEMMA NobodyDemoted ==
  ASSUME AccountsInv, AccountsTyped', Admins \subseteq Admins',
         UNCHANGED <<asked, grants, overlapped>>, shellRevoked => shellRevoked'
  PROVE  AccountsInv'
  BY DEF AccountsInv, GrantsOwned, AdminRemains

LEMMA RegisterStep ==
  ASSUME AccountsInv, NEW u \in People, Register(u)
  PROVE  AccountsInv'
  <1>1. NewAccount("investor") \in Account
    BY AccountsAssumption, NewAccountTyped
  <1>2. /\ u \notin DOMAIN accounts
        /\ accounts' = [v \in DOMAIN accounts \cup {u} |->
                            IF v = u THEN NewAccount("investor") ELSE accounts[v]]
        /\ UNCHANGED <<asked, grants, overlapped, shellRevoked>>
    BY DEF Register
  <1>3. AccountsTyped'
    BY <1>1, <1>2 DEF AccountsInv, AccountsTyped
  <1>4. Admins \subseteq Admins'
    BY <1>2 DEF Admins
  <1> QED
    BY <1>2, <1>3, <1>4, NobodyDemoted

LEMMA LapseStep ==
  ASSUME AccountsInv, NEW u \in People, SuspensionLapses(u)
  PROVE  AccountsInv'
  <1>1. /\ u \in DOMAIN accounts /\ accounts' = [accounts EXCEPT ![u].until = "past"]
        /\ UNCHANGED <<asked, grants, overlapped, shellRevoked>>
    BY DEF SuspensionLapses
  <1>2. AccountsTyped'
    BY <1>1 DEF AccountsInv, AccountsTyped, Account
  <1>3. Admins \subseteq Admins'
    BY <1>1 DEF Admins, AccountsInv, AccountsTyped, Account
  <1> QED
    BY <1>1, <1>2, <1>3, NobodyDemoted

LEMMA ShellStep ==
  ASSUME AccountsInv, NEW u \in People, NEW r \in Roles, ShellSetRole(u, r)
  PROVE  AccountsInv'
  <1>1. /\ u \in DOMAIN accounts /\ accounts' = [accounts EXCEPT ![u].role = r]
        /\ shellRevoked' = (shellRevoked \/ r # "admin")
        /\ UNCHANGED <<asked, grants, overlapped>>
    BY DEF ShellSetRole
  <1>2. AccountsTyped'
    BY <1>1 DEF AccountsInv, AccountsTyped, Account
  <1>3. CASE r = "admin"
    <2>1. Admins \subseteq Admins'
      BY <1>1, <1>3 DEF Admins, AccountsInv, AccountsTyped, Account
    <2> QED
      BY <1>1, <1>2, <2>1, NobodyDemoted
  <1>4. CASE r # "admin"
    BY <1>1, <1>2, <1>4 DEF AccountsInv, GrantsOwned, AdminRemains
  <1> QED
    BY <1>3, <1>4

LEMMA AskStep ==
  ASSUME AccountsInv, NEW a \in People, NEW req \in AdminRequests, Ask(a, req)
  PROVE  AccountsInv'
  <1>1. /\ MayAdminister(a) /\ asked[a] = NoRequest /\ Allowed(a, req)
        /\ asked' = [asked EXCEPT ![a] = req]
        /\ overlapped' = (overlapped \/ \E b \in People \ {a} : asked[b] # NoRequest)
        /\ UNCHANGED <<accounts, grants, shellRevoked>>
    BY DEF Ask
  <1>2. AccountsTyped'
    BY <1>1 DEF AccountsInv, AccountsTyped
  <1>3. a \in Admins
    BY <1>1 DEF MayAdminister, Authenticated, Admins
  <1>4. Reduces(req) => Admins \ {req.on} # {}
    <2> SUFFICES ASSUME Reduces(req) PROVE Admins \ {req.on} # {}
      OBVIOUS
    <2>1. AnotherAdminRemains(req.on)
      BY <1>1, RequestKinds DEF Reduces, Allowed
    <2>2. CASE req.on \in Admins
      BY <2>1, <2>2 DEF AnotherAdminRemains, Admins
    <2>3. CASE req.on \notin Admins
      BY <1>3, <2>3
    <2> QED
      BY <2>2, <2>3
  <1>5. AdminRemains'
    <2> SUFFICES ASSUME ~overlapped', ~shellRevoked'
                 PROVE  /\ Admins # {}
                        /\ \A b \in People : asked'[b] # NoRequest => b = a
                        /\ asked'[a] = req
      BY <1>1, <1>4 DEF AdminRemains, Admins
    <2> QED
      BY <1>1, <1>3 DEF AccountsInv, AccountsTyped
  <1> QED
    BY <1>1, <1>2, <1>5 DEF AccountsInv, GrantsOwned

LEMMA ChangedRow ==
  ASSUME NEW row \in Account, NEW req \in AdminRequests, req.op \notin {"create", "delete"}
  PROVE  /\ Changed(row, req) \in Account
         /\ Changed(row, req).role = IF req.op = "role" THEN req.role ELSE row.role
  <1>1. CASE req.op = "role"
    BY <1>1, RequestKinds DEF Changed, Account
  <1>2. CASE req.op = "suspend"
    BY <1>2, RequestKinds DEF Changed, Account
  <1>3. CASE req.op = "ban"
    BY <1>3 DEF Changed, Account
  <1>4. CASE req.op = "reinstate"
    BY <1>4 DEF Changed, Account
  <1> QED
    BY <1>1, <1>2, <1>3, <1>4, RequestKinds

(* A request that reduces takes the role from its target alone, and any    *)
(* other request from nobody.                                              *)
LEMMA AnswerChanges ==
  ASSUME AccountsInv, NEW a \in People, Answer(a)
  PROVE  /\ DOMAIN accounts' \subseteq People /\ accounts' \in [DOMAIN accounts' -> Account]
         /\ Admins \ {asked[a].on} \subseteq Admins'
         /\ ~Reduces(asked[a]) => Admins \subseteq Admins'
         /\ grants' \subseteq grants
  <1> DEFINE req == asked[a]
  <1>1. req \in AdminRequests /\ req.on \in People
    BY RequestKinds DEF Answer, AccountsInv, AccountsTyped
  <1>2. DOMAIN accounts \subseteq People /\ accounts \in [DOMAIN accounts -> Account]
    BY DEF AccountsInv, AccountsTyped
  <1>3. CASE /\ req.op = "create" /\ req.on \notin DOMAIN accounts
             /\ accounts' = [v \in DOMAIN accounts \cup {req.on} |->
                               IF v = req.on THEN NewAccount(req.role) ELSE accounts[v]]
             /\ UNCHANGED grants
    <2>1. NewAccount(req.role) \in Account
      BY <1>1, <1>3, RequestKinds, NewAccountTyped
    <2> QED
      BY <1>1, <1>2, <1>3, <2>1 DEF Admins
  <1>4. CASE /\ req.op = "delete" /\ req.on \in DOMAIN accounts
             /\ accounts' = [v \in DOMAIN accounts \ {req.on} |-> accounts[v]]
             /\ grants' = {g \in grants : req.on \notin {g.owner, g.recipient}}
    BY <1>1, <1>2, <1>4 DEF Admins, Reduces
  <1>5. CASE /\ req.op \notin {"create", "delete"} /\ req.on \in DOMAIN accounts
             /\ accounts' = [accounts EXCEPT ![req.on] = Changed(@, req)]
             /\ UNCHANGED grants
    <2>1. /\ Changed(accounts[req.on], req) \in Account
          /\ Changed(accounts[req.on], req).role =
                IF req.op = "role" THEN req.role ELSE accounts[req.on].role
      BY <1>1, <1>2, <1>5, ChangedRow
    <2>2. accounts' = [accounts EXCEPT ![req.on] = Changed(accounts[req.on], req)]
      BY <1>5
    <2>3. accounts' \in [DOMAIN accounts -> Account] /\ DOMAIN accounts' = DOMAIN accounts
      BY <1>2, <1>5, <2>1, <2>2
    <2>4. \A v \in DOMAIN accounts : v # req.on => accounts'[v] = accounts[v]
      BY <1>2, <2>2
    <2>5. Admins \ {req.on} \subseteq Admins'
      BY <2>3, <2>4 DEF Admins
    <2>6. ~Reduces(req) /\ req.on \in Admins => req.on \in Admins'
      BY <1>5, <2>1, <2>2, <2>3 DEF Admins, Reduces
    <2> QED
      BY <1>2, <1>5, <2>3, <2>5, <2>6
  <1>6. CASE UNCHANGED <<accounts, grants>>
    BY <1>2, <1>6 DEF Admins
  <1> QED
    BY <1>3, <1>4, <1>5, <1>6 DEF Answer

LEMMA AnswerStep ==
  ASSUME AccountsInv, NEW a \in People, Answer(a)
  PROVE  AccountsInv'
  <1>1. /\ asked[a] # NoRequest /\ asked' = [asked EXCEPT ![a] = NoRequest]
        /\ UNCHANGED <<overlapped, shellRevoked>>
    BY DEF Answer
  <1>2. AccountsTyped'
    BY <1>1, AnswerChanges DEF AccountsInv, AccountsTyped
  <1>3. GrantsOwned'
    BY AnswerChanges DEF AccountsInv, GrantsOwned
  <1>4. AdminRemains'
    <2> SUFFICES ASSUME ~overlapped, ~shellRevoked
                 PROVE  /\ Admins' # {}
                        /\ \A b \in People : asked'[b] = NoRequest
      BY <1>1 DEF AdminRemains
    <2>1. \A b \in People : asked[b] # NoRequest => b = a
      BY <1>1 DEF AccountsInv, AdminRemains
    <2>2. Admins # {} /\ (Reduces(asked[a]) => Admins \ {asked[a].on} # {})
      BY <1>1 DEF AccountsInv, AdminRemains
    <2>3. Admins' # {}
      BY <2>2, AnswerChanges
    <2> QED
      BY <1>1, <2>1, <2>3 DEF AccountsInv, AccountsTyped
  <1> QED
    BY <1>2, <1>3, <1>4 DEF AccountsInv

LEMMA SharingStep ==
  ASSUME AccountsInv, NEW u \in People,
         \/ \E v \in People, x \in Subjects : Share(u, v, x)
         \/ \E g \in grants : Revoke(u, g)
  PROVE  AccountsInv'
  <1>1. UNCHANGED <<accounts, asked, overlapped, shellRevoked>>
    BY DEF Share, Revoke
  <1>2. ASSUME NEW v \in People, NEW x \in Subjects, Share(u, v, x) PROVE GrantsOwned'
    <2> DEFINE new == [owner |-> u, recipient |-> v, subject |-> x, live |-> TRUE]
    <2>1. new \in Grants /\ new.owner = Author[new.subject]
      BY <1>2 DEF Share, Owns, Grants
    <2>2. grants' \subseteq grants \cup {new}
      BY <1>2 DEF Share
    <2> QED
      BY <2>1, <2>2 DEF AccountsInv, GrantsOwned
  <1>3. ASSUME NEW g \in grants, Revoke(u, g) PROVE GrantsOwned'
    <2> DEFINE new == [g EXCEPT !.live = FALSE]
    <2>1. g \in Grants /\ g.owner = Author[g.subject]
      BY DEF AccountsInv, GrantsOwned
    <2>2. new \in Grants /\ new.owner = Author[new.subject]
      BY <2>1 DEF Grants
    <2>3. grants' \subseteq grants \cup {new}
      BY <1>3 DEF Revoke
    <2> QED
      BY <2>2, <2>3 DEF AccountsInv, GrantsOwned
  <1>4. GrantsOwned'
    BY <1>2, <1>3
  <1> QED
    BY <1>1, <1>4 DEF AccountsInv, AccountsTyped, AdminRemains, Admins

LEMMA AccountsStep ==
  ASSUME AccountsInv, [AccountsNext]_accountVars
  PROVE  AccountsInv'
  <1>1. ASSUME NEW u \in People, Register(u) \/ SuspensionLapses(u) PROVE AccountsInv'
    BY <1>1, RegisterStep, LapseStep
  <1>2. ASSUME NEW u \in People, Answer(u) PROVE AccountsInv'
    BY <1>2, AnswerStep
  <1>3. ASSUME NEW u \in People, SetRegistration(u) PROVE AccountsInv'
    BY <1>3 DEF SetRegistration, AccountsInv, AccountsTyped, GrantsOwned, AdminRemains, Admins
  <1>4. ASSUME NEW u \in People, NEW r \in Roles, ShellSetRole(u, r) PROVE AccountsInv'
    BY <1>4, ShellStep
  <1>5. ASSUME NEW u \in People, NEW req \in AdminRequests, Ask(u, req) PROVE AccountsInv'
    BY <1>5, AskStep
  <1>6. ASSUME NEW u \in People,
               \/ \E v \in People, x \in Subjects : Share(u, v, x)
               \/ \E g \in grants : Revoke(u, g)
        PROVE  AccountsInv'
    BY <1>6, SharingStep
  <1>7. CASE UNCHANGED accountVars
    BY <1>7 DEF accountVars, AccountsInv, AccountsTyped, GrantsOwned, AdminRemains, Admins
  <1> QED
    BY <1>1, <1>2, <1>3, <1>4, <1>5, <1>6, <1>7 DEF AccountsNext

LEMMA AccountsInvariant == AccountsSpec => []AccountsInv
  <1>1. AccountsInit => AccountsInv
    BY AccountsInitially
  <1>2. AccountsInv /\ [AccountsNext]_accountVars => AccountsInv'
    BY AccountsStep
  <1> QED
    BY <1>1, <1>2, PTL DEF AccountsSpec

(* Of any number of administrators and requests, one after another, none   *)
(* takes the last administrator's role away.                               *)
THEOREM AnAdminRemains == AccountsSpec => []AdminRoleSurvives
  <1>1. AccountsInv => AdminRoleSurvives
    BY DEF AccountsInv, AdminRemains, AdminRoleSurvives
  <1> QED
    BY <1>1, AccountsInvariant, PTL

(* Whoever can read an analysis was named by its author, whatever was      *)
(* shown, withdrawn, shown again or deleted in between.                    *)
THEOREM AudienceIsKnown == AccountsSpec => []AudienceIsNamed
  <1>1. AccountsInv => AudienceIsNamed
    BY DEF AccountsInv, GrantsOwned, AudienceIsNamed, Readable
  <1> QED
    BY <1>1, AccountsInvariant, PTL

-----------------------------------------------------------------------------
(* Watchlist: rows, and what an open request has read *)

Categories == [id : 1..MaxCategories, name : Names]
Items == [id : 1..MaxItems, category : 1..MaxCategories, asset : Listable]

Questions ==
         [op : {"create"}, name : Names]
    \cup [op : {"rename"}, id : 1..MaxCategories, name : Names]
    \cup [op : {"delete"}, id : 1..MaxCategories, target : 0..MaxCategories, name : {"Default"},
          move : SUBSET (1..MaxItems), drop : SUBSET (1..MaxItems)]
    \cup [op : {"add"}, target : 0..MaxCategories, name : Names, asset : Listable]
    \cup [op : {"move"}, id : 1..MaxItems, target : 0..MaxCategories, name : Names]
    \cup [op : {"remove"}, id : 1..MaxItems]

WatchlistTyped ==
    /\ categories \subseteq Categories /\ items \subseteq Items
    /\ lastCategory \in 0..MaxCategories /\ lastItem \in 0..MaxItems
    /\ pending \in [OpenRequests -> Questions \cup {Unasked}]
    /\ following \subseteq Listable /\ late \subseteq Listable

(* Ids are given out once, in order.                                       *)
IdsUnique ==
    /\ \A c \in categories : c.id <= lastCategory
    /\ \A i \in items : i.id <= lastItem
    /\ \A c, d \in categories : c.id = d.id => c = d
    /\ \A i, j \in items : i.id = j.id => i = j

(* A deletion moves its items elsewhere, and drops none that it moves.     *)
DeletionsSound ==
    \A r \in OpenRequests : pending[r].op = "delete" =>
        /\ pending[r].id <= lastCategory /\ pending[r].target # pending[r].id
        /\ pending[r].move \cap pending[r].drop = {}

WatchlistInv == WatchlistTyped /\ IdsUnique /\ DeletionsSound /\ FollowedUntilRemoved

LEMMA IdOf ==
  ASSUME WatchlistTyped, NEW name
  PROVE  /\ Id(name) \in 0..MaxCategories
         /\ Id(name) # 0 => \E c \in categories : c.name = name /\ c.id = Id(name)
         /\ Id(name) = 0 => \A c \in categories : c.name # name
  <1>1. CASE \E c \in categories : c.name = name
    <2> DEFINE d == CHOOSE c \in categories : c.name = name
    <2>1. d \in categories /\ d.name = name
      BY <1>1
    <2>2. Id(name) = d.id
      BY <1>1 DEF Id
    <2> HIDE DEF d
    <2>3. d.id \in 1..MaxCategories
      BY <2>1 DEF WatchlistTyped, Categories
    <2> QED
      BY <2>1, <2>2, <2>3, WatchlistAssumption
  <1>2. CASE ~\E c \in categories : c.name = name
    BY <1>2, WatchlistAssumption DEF Id
  <1> QED
    BY <1>1, <1>2

LEMMA WatchlistInitially == WatchlistInit => WatchlistInv
  BY WatchlistAssumption
     DEF WatchlistInit, WatchlistInv, WatchlistTyped, IdsUnique, DeletionsSound,
         FollowedUntilRemoved, Unasked, Listed

(* A request reads.                                                        *)
LEMMA ReadStep ==
  ASSUME WatchlistInv, NEW r \in OpenRequests, NEW q \in Questions, Read(r, q),
         q.op = "delete" => /\ q.id <= lastCategory /\ q.target # q.id
                            /\ q.move \cap q.drop = {}
  PROVE  WatchlistInv'
  <1>1. pending' = [pending EXCEPT ![r] = q]
        /\ UNCHANGED <<categories, items, lastCategory, lastItem, following, late>>
    BY DEF Read
  <1>2. WatchlistTyped'
    BY <1>1 DEF WatchlistInv, WatchlistTyped
  <1>3. DeletionsSound'
    BY <1>1 DEF WatchlistInv, WatchlistTyped, DeletionsSound
  <1> QED
    BY <1>1, <1>2, <1>3
       DEF WatchlistInv, IdsUnique, FollowedUntilRemoved, Listed, Exists

LEMMA AskDeleteStep ==
  ASSUME WatchlistInv, NEW r \in OpenRequests, NEW name \in Names, AskDelete(r, name)
  PROVE  WatchlistInv'
  <1> DEFINE there == {i.asset : i \in Inside(Id("Default"))}
             move == {i.id : i \in {j \in Inside(Id(name)) : j.asset \notin there}}
             drop == {i.id : i \in {j \in Inside(Id(name)) : j.asset \in there}}
             q == [op |-> "delete", id |-> Id(name), target |-> Id("Default"), name |-> "Default",
                   move |-> move, drop |-> drop]
  <1>1. name # "Default" /\ Id(name) # 0 /\ Read(r, q)
    BY DEF AskDelete
  <1>2. WatchlistTyped /\ IdsUnique
    BY DEF WatchlistInv
  <1>3. PICK c \in categories : c.name = name /\ c.id = Id(name)
    BY <1>1, <1>2, IdOf
  <1>4. Id(name) \in 1..MaxCategories /\ Id(name) <= lastCategory
    BY <1>2, <1>3 DEF WatchlistTyped, Categories, IdsUnique
  <1>5. Id("Default") \in 0..MaxCategories /\ Id("Default") # Id(name)
    BY <1>1, <1>2, <1>3, IdOf DEF IdsUnique
  <1>6. \A i \in Inside(Id(name)) : i \in items /\ i.id \in 1..MaxItems
    BY <1>2 DEF Inside, WatchlistTyped, Items
  <1>7. move \subseteq 1..MaxItems /\ drop \subseteq 1..MaxItems /\ move \cap drop = {}
    BY <1>2, <1>6 DEF IdsUnique
  <1> HIDE DEF move, drop
  <1>8. q \in Questions
    BY <1>4, <1>5, <1>7 DEF Questions
  <1> QED
    BY <1>1, <1>4, <1>5, <1>7, <1>8, ReadStep

LEMMA AskStepOfList ==
  ASSUME WatchlistInv, NEW r \in OpenRequests,
         \/ \E name \in Names : AskCreate(r, name)
         \/ \E name, target \in Names : AskRename(r, name, target)
         \/ \E asset \in Listable, name \in Names : AskAdd(r, asset, name)
         \/ \E item \in items : AskRemove(r, item) \/ \E name \in Names : AskMove(r, item, name)
  PROVE  WatchlistInv'
  <1>1. \A name \in Names : Id(name) \in 0..MaxCategories
    BY IdOf DEF WatchlistInv
  <1>2. \A item \in items : item.id \in 1..MaxItems
    BY DEF WatchlistInv, WatchlistTyped, Items
  <1>3. ASSUME NEW name \in Names, AskCreate(r, name) PROVE WatchlistInv'
    <2> DEFINE q == [op |-> "create", name |-> name]
    <2>1. q \in Questions /\ q.op # "delete"
      BY DEF Questions
    <2> QED
      BY <1>3, <2>1, ReadStep DEF AskCreate
  <1>4. ASSUME NEW name \in Names, NEW target \in Names, AskRename(r, name, target)
        PROVE  WatchlistInv'
    <2> DEFINE q == [op |-> "rename", id |-> Id(name), name |-> target]
    <2>1. Id(name) \in 1..MaxCategories
      BY <1>1, <1>4, WatchlistAssumption DEF AskRename
    <2>2. q \in Questions /\ q.op # "delete"
      BY <2>1 DEF Questions
    <2> QED
      BY <1>4, <2>2, ReadStep DEF AskRename
  <1>5. ASSUME NEW asset \in Listable, NEW name \in Names, AskAdd(r, asset, name)
        PROVE  WatchlistInv'
    <2> DEFINE q == [op |-> "add", target |-> Id(name), name |-> name, asset |-> asset]
    <2>1. q \in Questions /\ q.op # "delete"
      BY <1>1 DEF Questions
    <2> QED
      BY <1>5, <2>1, ReadStep DEF AskAdd
  <1>6. ASSUME NEW item \in items, NEW name \in Names, AskMove(r, item, name)
        PROVE  WatchlistInv'
    <2> DEFINE q == [op |-> "move", id |-> item.id, target |-> Id(name), name |-> name]
    <2>1. q \in Questions /\ q.op # "delete"
      BY <1>1, <1>2 DEF Questions
    <2> QED
      BY <1>6, <2>1, ReadStep DEF AskMove
  <1>7. ASSUME NEW item \in items, AskRemove(r, item) PROVE WatchlistInv'
    <2> DEFINE q == [op |-> "remove", id |-> item.id]
    <2>1. q \in Questions /\ q.op # "delete"
      BY <1>2 DEF Questions
    <2> QED
      BY <1>7, <2>1, ReadStep DEF AskRemove
  <1> QED
    BY <1>3, <1>4, <1>5, <1>6, <1>7

-----------------------------------------------------------------------------
(* Watchlist: what the requests write *)

LEMMA AnsweredStands ==
  ASSUME WatchlistInv, NEW r \in OpenRequests, Answered(r),
         lastCategory' \in 0..MaxCategories, lastCategory <= lastCategory'
  PROVE  /\ pending' \in [OpenRequests -> Questions \cup {Unasked}]
         /\ DeletionsSound'
  <1>1. pending' = [pending EXCEPT ![r] = Unasked]
        /\ pending \in [OpenRequests -> Questions \cup {Unasked}]
    BY DEF Answered, WatchlistInv, WatchlistTyped
  <1>2. ASSUME NEW u \in OpenRequests, pending'[u].op = "delete"
        PROVE  /\ pending'[u].id <= lastCategory' /\ pending'[u].target # pending'[u].id
               /\ pending'[u].move \cap pending'[u].drop = {}
    <2>1. u # r
      BY <1>1, <1>2 DEF Unasked
    <2>2. pending'[u] = pending[u] /\ pending[u] \in Questions /\ pending[u].op = "delete"
      BY <1>1, <1>2, <2>1 DEF Unasked
    <2>3. pending[u].id \in 1..MaxCategories
      BY <2>2 DEF Questions
    <2>4. lastCategory \in Int /\ lastCategory' \in Int /\ pending[u].id <= lastCategory
      BY <2>2, WatchlistAssumption DEF WatchlistInv, WatchlistTyped, DeletionsSound
    <2>5. pending[u].id <= lastCategory'
      BY <2>3, <2>4
    <2> QED
      BY <2>2, <2>5 DEF WatchlistInv, DeletionsSound
  <1> QED
    BY <1>1, <1>2 DEF DeletionsSound

(* A row with the next id.                                                 *)
LEMMA NewCategory ==
  ASSUME WatchlistInv, NEW name \in Names, lastCategory < MaxCategories
  PROVE  LET row == [id |-> lastCategory + 1, name |-> name] IN
         /\ row \in Categories /\ lastCategory + 1 \in 1..MaxCategories
         /\ \A c \in categories : c.id \in Int /\ c.id # row.id /\ c.id <= lastCategory + 1
         /\ \A c, d \in categories \cup {row} : c.id = d.id => c = d
  <1>1. lastCategory \in 0..MaxCategories /\ categories \subseteq Categories
    BY DEF WatchlistInv, WatchlistTyped
  <1>2. lastCategory + 1 \in 1..MaxCategories
    BY <1>1, WatchlistAssumption
  <1>3. \A c \in categories : c.id \in Int /\ c.id <= lastCategory
    BY <1>1 DEF WatchlistInv, IdsUnique, Categories
  <1>4. \A c \in categories : c.id # lastCategory + 1 /\ c.id <= lastCategory + 1
    BY <1>1, <1>3
  <1> QED
    BY <1>2, <1>3, <1>4 DEF WatchlistInv, IdsUnique, Categories

(* The category that was read is there, or a new one is made.              *)
LEMMA CategoryMade ==
  ASSUME WatchlistInv, NEW q, q.target \in 0..MaxCategories, q.name \in Names,
         CategoryStands(q), WithCategory(q)
  PROVE  /\ categories' \subseteq Categories /\ lastCategory' \in 0..MaxCategories
         /\ lastCategory <= lastCategory'
         /\ \A c \in categories' : c.id <= lastCategory'
         /\ \A c, d \in categories' : c.id = d.id => c = d
         /\ categories \subseteq categories'
         /\ Category(q) \in 1..MaxCategories /\ \E c \in categories' : c.id = Category(q)
  <1>1. lastCategory \in 0..MaxCategories /\ lastCategory \in Int
        /\ categories \subseteq Categories
    BY WatchlistAssumption DEF WatchlistInv, WatchlistTyped
  <1>2. CASE q.target = 0
    <2> DEFINE row == [id |-> lastCategory + 1, name |-> q.name]
    <2>1. /\ categories' = categories \cup {row} /\ lastCategory' = lastCategory + 1
          /\ lastCategory < MaxCategories /\ Category(q) = lastCategory + 1
      BY <1>2 DEF CategoryStands, WithCategory, Category
    <2>2. /\ row \in Categories /\ lastCategory + 1 \in 1..MaxCategories
          /\ \A c \in categories : c.id # row.id /\ c.id <= lastCategory + 1
          /\ \A c, d \in categories \cup {row} : c.id = d.id => c = d
      BY <2>1, NewCategory
    <2>3. row.id = lastCategory + 1
      OBVIOUS
    <2> HIDE DEF row
    <2> QED
      BY <1>1, <2>1, <2>2, <2>3
  <1>3. CASE q.target # 0
    <2>1. /\ categories' = categories /\ lastCategory' = lastCategory
          /\ Category(q) = q.target /\ Exists(q.target)
      BY <1>3 DEF CategoryStands, WithCategory, Category
    <2> QED
      BY <1>1, <1>3, <2>1, WatchlistAssumption DEF WatchlistInv, IdsUnique, Exists
  <1> QED
    BY <1>2, <1>3

(* Moving items changes where they are and nothing else.                   *)
Moves(i, j, ids, category) ==
    /\ j \in Items /\ j.id = i.id /\ j.asset = i.asset
    /\ j.category = IF i.id \in ids THEN category ELSE i.category

LEMMA PlacedMoves ==
  ASSUME items \subseteq Items, NEW ids, NEW category \in 1..MaxCategories
  PROVE  /\ \A i \in items : \E j \in Placed(ids, category) : Moves(i, j, ids, category)
         /\ \A j \in Placed(ids, category) : \E i \in items : Moves(i, j, ids, category)
  <1> DEFINE m(i) == IF i.id \in ids THEN [i EXCEPT !.category = category] ELSE i
  <1>1. ASSUME NEW i \in items PROVE Moves(i, m(i), ids, category)
    BY DEF Items, Moves
  <1>2. Placed(ids, category) = {m(i) : i \in items}
    BY DEF Placed
  <1> HIDE DEF m
  <1> QED
    BY <1>1, <1>2

LEMMA PlacedRows ==
  ASSUME WatchlistInv, NEW ids, NEW category \in 1..MaxCategories
  PROVE  /\ Placed(ids, category) \subseteq Items
         /\ \A i \in Placed(ids, category) : i.id <= lastItem
         /\ \A i, j \in Placed(ids, category) : i.id = j.id => i = j
         /\ {i.asset : i \in Placed(ids, category)} = Listed
  <1>1. /\ items \subseteq Items /\ \A i \in items : i.id <= lastItem
        /\ \A i, j \in items : i.id = j.id => i = j
    BY DEF WatchlistInv, WatchlistTyped, IdsUnique
  <1>2. /\ \A i \in items : \E j \in Placed(ids, category) : Moves(i, j, ids, category)
        /\ \A j \in Placed(ids, category) : \E i \in items : Moves(i, j, ids, category)
    BY <1>1, PlacedMoves
  <1>3. /\ Placed(ids, category) \subseteq Items
        /\ \A i \in Placed(ids, category) : i.id <= lastItem
    BY <1>1, <1>2 DEF Moves
  <1>4. ASSUME NEW i \in Placed(ids, category), NEW j \in Placed(ids, category), i.id = j.id
        PROVE  i = j
    <2>1. PICK k \in items : Moves(k, i, ids, category)
      BY <1>2
    <2>2. PICK l \in items : Moves(l, j, ids, category)
      BY <1>2
    <2>3. k = l
      BY <1>1, <1>4, <2>1, <2>2 DEF Moves
    <2>4. i.id = j.id /\ i.asset = j.asset /\ i.category = j.category
      BY <2>1, <2>2, <2>3 DEF Moves
    <2> QED
      BY <1>3, <2>4 DEF Items
  <1>5. {i.asset : i \in Placed(ids, category)} = Listed
    BY <1>2 DEF Moves, Listed
  <1> QED
    BY <1>3, <1>4, <1>5

LEMMA OpenRequest ==
  ASSUME WatchlistInv, NEW r \in OpenRequests
  PROVE  LET q == pending[r] IN
         /\ q.op = "create" => q.name \in Names
         /\ q.op = "rename" => q.name \in Names
         /\ q.op = "delete" =>
              /\ q.id \in 1..MaxCategories /\ q.target \in 0..MaxCategories
              /\ q.name = "Default" /\ q.name \in Names
         /\ q.op = "add" =>
              /\ q.target \in 0..MaxCategories /\ q.name \in Names /\ q.asset \in Listable
         /\ q.op = "move" => q.target \in 0..MaxCategories /\ q.name \in Names
  <1>1. pending[r] \in Questions \cup {Unasked}
    BY DEF WatchlistInv, WatchlistTyped
  <1> QED
    BY <1>1, WatchlistAssumption DEF Questions, Unasked

LEMMA CreateStep ==
  ASSUME WatchlistInv, NEW r \in OpenRequests, Create(r)
  PROVE  WatchlistInv'
  <1> DEFINE row == [id |-> lastCategory + 1, name |-> pending[r].name]
  <1>1. /\ pending[r].op = "create" /\ lastCategory < MaxCategories /\ Answered(r)
        /\ categories' = categories \cup {row} /\ lastCategory' = lastCategory + 1
        /\ UNCHANGED <<items, lastItem, following, late>>
    BY DEF Create
  <1>2. /\ row \in Categories /\ lastCategory + 1 \in 1..MaxCategories
        /\ \A c \in categories : c.id <= lastCategory + 1
        /\ \A c, d \in categories \cup {row} : c.id = d.id => c = d
    BY <1>1, OpenRequest, NewCategory
  <1>3. row.id = lastCategory + 1
    OBVIOUS
  <1> HIDE DEF row
  <1>4. lastCategory' \in 0..MaxCategories /\ lastCategory <= lastCategory'
    BY <1>1, <1>2, WatchlistAssumption DEF WatchlistInv, WatchlistTyped
  <1>5. WatchlistTyped' /\ DeletionsSound'
    BY <1>1, <1>2, <1>4, AnsweredStands DEF WatchlistInv, WatchlistTyped
  <1>6. IdsUnique'
    BY <1>1, <1>2, <1>3, <1>4 DEF WatchlistInv, IdsUnique
  <1>7. FollowedUntilRemoved'
    BY <1>1 DEF WatchlistInv, FollowedUntilRemoved, Listed, Exists
  <1> QED
    BY <1>5, <1>6, <1>7 DEF WatchlistInv

LEMMA RenameStep ==
  ASSUME WatchlistInv, NEW r \in OpenRequests, Rename(r)
  PROVE  WatchlistInv'
  <1> DEFINE named(c) == IF c.id = pending[r].id THEN [c EXCEPT !.name = pending[r].name] ELSE c
  <1>1. /\ pending[r].op = "rename" /\ Answered(r)
        /\ categories' = {named(c) : c \in categories}
        /\ UNCHANGED <<items, lastCategory, lastItem, following, late>>
    BY DEF Rename
  <1>2. categories \subseteq Categories /\ pending[r].name \in Names
    BY <1>1, OpenRequest DEF WatchlistInv, WatchlistTyped
  <1>3. ASSUME NEW c \in categories PROVE named(c) \in Categories /\ named(c).id = c.id
    BY <1>2 DEF Categories
  <1> HIDE DEF named
  <1>4. WatchlistTyped' /\ DeletionsSound'
    BY <1>1, <1>3, AnsweredStands, WatchlistAssumption DEF WatchlistInv, WatchlistTyped
  <1>5. IdsUnique'
    BY <1>1, <1>3 DEF WatchlistInv, IdsUnique
  <1>6. FollowedUntilRemoved'
    BY <1>1, <1>3 DEF WatchlistInv, FollowedUntilRemoved, Listed, Exists
  <1> QED
    BY <1>4, <1>5, <1>6 DEF WatchlistInv

LEMMA AddStep ==
  ASSUME WatchlistInv, NEW r \in OpenRequests, Add(r)
  PROVE  WatchlistInv'
  <1> DEFINE q == pending[r]
             row == [id |-> lastItem + 1, category |-> Category(q), asset |-> q.asset]
  <1>1. /\ q.op = "add" /\ CategoryStands(q) /\ lastItem < MaxItems /\ WithCategory(q)
        /\ items' = items \cup {row} /\ lastItem' = lastItem + 1
        /\ following' = following \cup {q.asset} /\ late' = late \ {q.asset}
        /\ Answered(r)
    BY DEF Add
  <1>2. q.target \in 0..MaxCategories /\ q.name \in Names /\ q.asset \in Listable
    BY <1>1, OpenRequest
  <1>3. /\ categories' \subseteq Categories /\ lastCategory' \in 0..MaxCategories
        /\ lastCategory <= lastCategory'
        /\ \A c \in categories' : c.id <= lastCategory'
        /\ \A c, d \in categories' : c.id = d.id => c = d
        /\ categories \subseteq categories'
        /\ Category(q) \in 1..MaxCategories /\ \E c \in categories' : c.id = Category(q)
    BY <1>1, <1>2, CategoryMade
  <1>4. /\ lastItem \in 0..MaxItems /\ items \subseteq Items /\ \A i \in items : i.id <= lastItem
        /\ \A i \in items : i.id \in Int
    BY DEF WatchlistInv, WatchlistTyped, IdsUnique, Items
  <1>5. lastItem + 1 \in 1..MaxItems /\ \A i \in items : i.id < lastItem + 1
    BY <1>1, <1>4, WatchlistAssumption
  <1>6. /\ row.id = lastItem + 1 /\ row.category = Category(q) /\ row.asset = q.asset
        /\ row \in Items
    BY <1>2, <1>3, <1>5 DEF Items
  <1> HIDE DEF row
  <1>7. WatchlistTyped' /\ DeletionsSound'
    <2>1. lastItem' \in 0..MaxItems
      BY <1>1, <1>5
    <2> QED
      BY <1>1, <1>2, <1>3, <1>4, <1>6, <2>1, AnsweredStands DEF WatchlistInv, WatchlistTyped
  <1>8. IdsUnique'
    <2>1. \A i \in items' : i.id <= lastItem'
      BY <1>1, <1>4, <1>5, <1>6
    <2>2. \A i, j \in items' : i.id = j.id => i = j
      BY <1>1, <1>4, <1>5, <1>6 DEF WatchlistInv, IdsUnique
    <2> QED
      BY <1>3, <2>1, <2>2 DEF IdsUnique
  <1>9. FollowedUntilRemoved'
    <2>1. Listed' = Listed \cup {q.asset}
      BY <1>1, <1>6 DEF Listed
    <2>2. \A i \in items' : Exists(i.category)'
      BY <1>1, <1>3, <1>6 DEF WatchlistInv, FollowedUntilRemoved, Exists
    <2> QED
      BY <1>1, <2>1, <2>2 DEF WatchlistInv, FollowedUntilRemoved
  <1> QED
    BY <1>7, <1>8, <1>9 DEF WatchlistInv

LEMMA MoveStep ==
  ASSUME WatchlistInv, NEW r \in OpenRequests, Move(r)
  PROVE  WatchlistInv'
  <1> DEFINE q == pending[r]
             ids == {q.id}
  <1>1. /\ q.op = "move" /\ CategoryStands(q) /\ WithCategory(q)
        /\ items' = Placed(ids, Category(q)) /\ Answered(r)
        /\ UNCHANGED <<lastItem, following, late>>
    BY DEF Move
  <1>2. q.target \in 0..MaxCategories /\ q.name \in Names
    BY <1>1, OpenRequest
  <1>3. /\ categories' \subseteq Categories /\ lastCategory' \in 0..MaxCategories
        /\ lastCategory <= lastCategory'
        /\ \A c \in categories' : c.id <= lastCategory'
        /\ \A c, d \in categories' : c.id = d.id => c = d
        /\ categories \subseteq categories'
        /\ Category(q) \in 1..MaxCategories /\ \E c \in categories' : c.id = Category(q)
    BY <1>1, <1>2, CategoryMade
  <1> HIDE DEF ids
  <1>4. /\ items' \subseteq Items /\ \A i \in items' : i.id <= lastItem
        /\ \A i, j \in items' : i.id = j.id => i = j
        /\ Listed' = Listed
    BY <1>1, <1>3, PlacedRows DEF Listed
  <1>5. WatchlistTyped' /\ DeletionsSound'
    BY <1>1, <1>3, <1>4, AnsweredStands DEF WatchlistInv, WatchlistTyped
  <1>6. IdsUnique'
    BY <1>1, <1>3, <1>4 DEF IdsUnique
  <1>7. FollowedUntilRemoved'
    <2>1. ASSUME NEW j \in items' PROVE \E c \in categories' : c.id = j.category
      <3>1. PICK i \in items : Moves(i, j, ids, Category(q))
        BY <1>1, <1>3, PlacedMoves DEF WatchlistInv, WatchlistTyped
      <3>2. j.category = Category(q) \/ j.category = i.category
        BY <3>1 DEF Moves
      <3> QED
        BY <1>3, <3>2 DEF WatchlistInv, FollowedUntilRemoved, Exists
    <2> QED
      BY <1>1, <1>4, <2>1 DEF WatchlistInv, FollowedUntilRemoved, Exists
  <1> QED
    BY <1>5, <1>6, <1>7 DEF WatchlistInv

LEMMA RemoveStep ==
  ASSUME WatchlistInv, NEW r \in OpenRequests, RemoveItem(r)
  PROVE  WatchlistInv'
  <1> DEFINE gone == {i \in items : i.id = pending[r].id}
  <1>1. /\ items' = items \ gone /\ Answered(r)
        /\ following' = following \ ({i.asset : i \in gone} \ {i.asset : i \in items'})
        /\ UNCHANGED <<categories, lastCategory, lastItem, late>>
    BY DEF RemoveItem
  <1> HIDE DEF gone
  <1>2. WatchlistTyped' /\ DeletionsSound'
    BY <1>1, AnsweredStands, WatchlistAssumption DEF WatchlistInv, WatchlistTyped
  <1>3. IdsUnique'
    BY <1>1 DEF WatchlistInv, IdsUnique
  <1>4. FollowedUntilRemoved'
    <2>1. Listed \subseteq Listed' \cup {i.asset : i \in gone}
      BY <1>1 DEF Listed
    <2>2. Listed' \subseteq Listed /\ Listed' = {i.asset : i \in items'}
      BY <1>1 DEF Listed
    <2> QED
      BY <1>1, <2>1, <2>2 DEF WatchlistInv, FollowedUntilRemoved, Exists
  <1> QED
    BY <1>2, <1>3, <1>4 DEF WatchlistInv

(* A deletion leaves its items' category, with the others that stay.       *)
LEMMA DeleteCategories ==
  ASSUME WatchlistInv, NEW r \in OpenRequests, Delete(r)
  PROVE  LET q == pending[r] IN
         /\ categories' \subseteq Categories /\ lastCategory' \in 0..MaxCategories
         /\ lastCategory <= lastCategory'
         /\ \A c \in categories' : c.id <= lastCategory'
         /\ \A c, d \in categories' : c.id = d.id => c = d
         /\ {c \in categories : c.id # q.id} \subseteq categories'
         /\ Category(q) \in 1..MaxCategories /\ Category(q) # q.id
         /\ q.target # 0 => Category(q) = q.target
         /\ \E c \in categories' : c.id = Category(q)
  <1> DEFINE q == pending[r]
  <1>1. /\ q.op = "delete" /\ CategoryStands(q)
        /\ lastCategory' = IF q.target = 0 THEN lastCategory + 1 ELSE lastCategory
        /\ categories' = {c \in categories : c.id # q.id}
              \cup (IF q.target = 0 THEN {[id |-> lastCategory + 1, name |-> "Default"]} ELSE {})
    BY DEF Delete
  <1>2. /\ q.id \in 1..MaxCategories /\ q.target \in 0..MaxCategories
        /\ q.id <= lastCategory /\ q.target # q.id
    BY <1>1, OpenRequest DEF WatchlistInv, DeletionsSound
  <1>3. /\ lastCategory \in 0..MaxCategories /\ lastCategory \in Int
        /\ categories \subseteq Categories /\ \A c \in categories : c.id <= lastCategory
        /\ \A c, d \in categories : c.id = d.id => c = d
    BY WatchlistAssumption DEF WatchlistInv, WatchlistTyped, IdsUnique
  <1>4. CASE q.target = 0
    <2> DEFINE row == [id |-> lastCategory + 1, name |-> "Default"]
    <2>1. /\ categories' = {c \in categories : c.id # q.id} \cup {row}
          /\ lastCategory' = lastCategory + 1 /\ Category(q) = lastCategory + 1
          /\ lastCategory < MaxCategories
      BY <1>1, <1>4 DEF CategoryStands, Category
    <2>2. /\ row \in Categories /\ lastCategory + 1 \in 1..MaxCategories
          /\ \A c \in categories : c.id <= lastCategory + 1
          /\ \A c, d \in categories \cup {row} : c.id = d.id => c = d
      BY <2>1, NewCategory, WatchlistAssumption
    <2>3. row.id = lastCategory + 1
      OBVIOUS
    <2> HIDE DEF row
    <2>4. lastCategory + 1 # q.id
      BY <1>2, <1>3
    <2> QED
      BY <1>3, <1>4, <2>1, <2>2, <2>3, <2>4
  <1>5. CASE q.target # 0
    <2>1. /\ categories' = {c \in categories : c.id # q.id} /\ lastCategory' = lastCategory
          /\ Category(q) = q.target /\ \E c \in categories : c.id = q.target
      BY <1>1, <1>5 DEF CategoryStands, Category, Exists
    <2>2. q.target \in 1..MaxCategories
      BY <1>2, <1>5, WatchlistAssumption
    <2> QED
      BY <1>2, <1>3, <2>1, <2>2
  <1> QED
    BY <1>4, <1>5

(* What stood before a deletion stands after it, or was overtaken.         *)
LEMMA DeletionKeeps ==
  ASSUME WatchlistInv, NEW r \in OpenRequests, Delete(r), NEW i \in items,
         i.asset \notin Overtaken(pending[r])
  PROVE  \E j \in AfterDeletion(pending[r]) : j.asset = i.asset
  <1> DEFINE q == pending[r]
             there == Category(q)
  <1>1. /\ there \in 1..MaxCategories /\ there # q.id /\ (q.target # 0 => there = q.target)
    BY DeleteCategories
  <1>2. q.move \cap q.drop = {} /\ q.target # q.id /\ items \subseteq Items
    BY DEF Delete, WatchlistInv, DeletionsSound, WatchlistTyped
  <1>3. \A k \in items : \E j \in Placed(q.move, there) : Moves(k, j, q.move, there)
    BY <1>1, <1>2, PlacedMoves
  <1>4. ASSUME NEW k \in items, k.id \notin q.drop, k.id \in q.move \/ k.category # q.id
        PROVE  \E j \in AfterDeletion(q) : j.asset = k.asset
    <2>1. PICK j \in Placed(q.move, there) : Moves(k, j, q.move, there)
      BY <1>3
    <2>2. j.id \notin q.drop /\ j.category # q.id /\ j.asset = k.asset
      BY <1>1, <1>4, <2>1 DEF Moves
    <2> QED
      BY <2>1, <2>2 DEF AfterDeletion
  <1>5. CASE i.id \in q.drop
    <2>1. PICK k \in items : k.category = q.target /\ k.id \notin q.drop /\ k.asset = i.asset
      BY <1>5 DEF Overtaken, Inside
    <2> QED
      BY <1>2, <1>4, <2>1
  <1>6. CASE i.id \notin q.drop
    <2>1. i.id \in q.move \/ i.category # q.id
      BY <1>6 DEF Overtaken, Inside
    <2> QED
      BY <1>4, <1>6, <2>1
  <1> QED
    BY <1>5, <1>6

LEMMA DeleteStep ==
  ASSUME WatchlistInv, NEW r \in OpenRequests, Delete(r)
  PROVE  WatchlistInv'
  <1> DEFINE q == pending[r]
  <1>1. /\ q.op = "delete" /\ items' = AfterDeletion(q) /\ late' = late \cup Overtaken(q)
        /\ Answered(r) /\ UNCHANGED <<lastItem, following>>
    BY DEF Delete
  <1>2. /\ categories' \subseteq Categories /\ lastCategory' \in 0..MaxCategories
        /\ lastCategory <= lastCategory'
        /\ \A c \in categories' : c.id <= lastCategory'
        /\ \A c, d \in categories' : c.id = d.id => c = d
        /\ {c \in categories : c.id # q.id} \subseteq categories'
        /\ Category(q) \in 1..MaxCategories
        /\ \E c \in categories' : c.id = Category(q)
    BY DeleteCategories
  <1>3. /\ items' \subseteq Placed(q.move, Category(q))
        /\ \A j \in items' : j.category # q.id
    BY <1>1 DEF AfterDeletion
  <1>4. /\ items' \subseteq Items /\ \A i \in items' : i.id <= lastItem
        /\ \A i, j \in items' : i.id = j.id => i = j
        /\ Listed' \subseteq Listed
    <2> DEFINE placed == Placed(q.move, Category(q))
    <2>1. /\ placed \subseteq Items /\ \A i \in placed : i.id <= lastItem
          /\ \A i, j \in placed : i.id = j.id => i = j
          /\ {i.asset : i \in placed} = Listed
      BY <1>2, PlacedRows
    <2> HIDE DEF placed
    <2>2. items' \subseteq placed
      BY <1>3 DEF placed
    <2>3. Listed' = {i.asset : i \in items'}
      BY DEF Listed
    <2> QED
      BY <2>1, <2>2, <2>3
  <1>5. Overtaken(q) \subseteq Listable
    BY DEF Overtaken, Inside, WatchlistInv, WatchlistTyped, Items
  <1>6. WatchlistTyped' /\ DeletionsSound'
    BY <1>1, <1>2, <1>4, <1>5, AnsweredStands DEF WatchlistInv, WatchlistTyped
  <1>7. IdsUnique'
    BY <1>1, <1>2, <1>4 DEF IdsUnique
  <1>8. FollowedUntilRemoved'
    <2>1. ASSUME NEW x \in following' \ late' PROVE x \in Listed'
      <3>1. x \in Listed /\ x \notin Overtaken(q)
        BY <1>1 DEF WatchlistInv, FollowedUntilRemoved
      <3>2. PICK i \in items : i.asset = x
        BY <3>1 DEF Listed
      <3> QED
        BY <1>1, <3>1, <3>2, DeletionKeeps DEF Listed
    <2>2. ASSUME NEW j \in items' PROVE \E c \in categories' : c.id = j.category
      <3>1. PICK i \in items : Moves(i, j, q.move, Category(q))
        BY <1>2, <1>3, PlacedMoves DEF WatchlistInv, WatchlistTyped
      <3>2. CASE j.category = Category(q)
        BY <1>2, <3>2
      <3>3. CASE j.category = i.category
        <4>1. PICK c \in categories : c.id = j.category
          BY <3>3 DEF WatchlistInv, FollowedUntilRemoved, Exists
        <4> QED
          BY <1>2, <1>3, <4>1
      <3> QED
        BY <3>1, <3>2, <3>3 DEF Moves
    <2>3. Listed' \subseteq following'
      BY <1>1, <1>4 DEF WatchlistInv, FollowedUntilRemoved
    <2> QED
      BY <2>1, <2>2, <2>3 DEF FollowedUntilRemoved, Exists
  <1> QED
    BY <1>6, <1>7, <1>8 DEF WatchlistInv

LEMMA WatchlistStep ==
  ASSUME WatchlistInv, [WatchlistNext]_watchlistVars
  PROVE  WatchlistInv'
  <1>1. ASSUME NEW r \in OpenRequests,
               \/ \E name \in Names : AskCreate(r, name)
               \/ \E name, target \in Names : AskRename(r, name, target)
               \/ \E asset \in Listable, name \in Names : AskAdd(r, asset, name)
               \/ \E item \in items : \/ AskRemove(r, item)
                                      \/ \E name \in Names : AskMove(r, item, name)
        PROVE  WatchlistInv'
    BY <1>1, AskStepOfList
  <1>2. ASSUME NEW r \in OpenRequests, NEW name \in Names, AskDelete(r, name)
        PROVE  WatchlistInv'
    BY <1>2, AskDeleteStep
  <1>3. ASSUME NEW r \in OpenRequests,
               Create(r) \/ Rename(r) \/ Delete(r) \/ Add(r) \/ Move(r) \/ RemoveItem(r)
        PROVE  WatchlistInv'
    BY <1>3, CreateStep, RenameStep, DeleteStep, AddStep, MoveStep, RemoveStep
  <1>4. ASSUME NEW r \in OpenRequests, RollBack(r) PROVE WatchlistInv'
    <2>1. /\ Answered(r)
          /\ UNCHANGED <<categories, items, lastCategory, lastItem, following, late>>
      BY <1>4 DEF RollBack
    <2>2. lastCategory' \in 0..MaxCategories /\ lastCategory <= lastCategory'
      BY <2>1, WatchlistAssumption DEF WatchlistInv, WatchlistTyped
    <2>3. WatchlistTyped' /\ DeletionsSound'
      BY <2>1, <2>2, AnsweredStands DEF WatchlistInv, WatchlistTyped
    <2> QED
      BY <2>1, <2>3 DEF WatchlistInv, IdsUnique, FollowedUntilRemoved, Listed, Exists
  <1>5. CASE UNCHANGED watchlistVars
    BY <1>5 DEF watchlistVars, WatchlistInv, WatchlistTyped, IdsUnique, DeletionsSound,
                FollowedUntilRemoved, Listed, Exists
  <1> QED
    BY <1>1, <1>2, <1>3, <1>4, <1>5 DEF WatchlistNext

(* Whatever a user has open at once, an asset stays on the list until it   *)
(* is removed, or its category's deletion was overtaken, and every item is *)
(* in a category that exists.                                              *)
THEOREM ListsKeepWhatIsFollowed == WatchlistSpec => []FollowedUntilRemoved
  <1>1. WatchlistInv => FollowedUntilRemoved
    BY DEF WatchlistInv
  <1>2. WatchlistInit => WatchlistInv
    BY WatchlistInitially
  <1>3. WatchlistInv /\ [WatchlistNext]_watchlistVars => WatchlistInv'
    BY WatchlistStep
  <1> QED
    BY <1>1, <1>2, <1>3, PTL DEF WatchlistSpec
=============================================================================
