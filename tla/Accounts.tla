------------------------------ MODULE Accounts ------------------------------
(***************************************************************************)
(* Accounts, their roles and their blocks: api/routes/auth.py, the account *)
(* routes of api/routes/admin.py, api/deps.py, cli.py, and what accounts   *)
(* show to one another, collab/sharing.py.                                 *)
(*                                                                         *)
(* A request is two steps: what it reads and is allowed by, and what it    *)
(* commits.  Other requests, the operator's shell and the clock come in    *)
(* between; nothing in the code locks the rows a guard has counted.        *)
(***************************************************************************)
EXTENDS Naturals

CONSTANTS
    People,
    Founder,        \* the account the operator's shell promoted first
    Subjects,       \* analyses that can be shown to another account
    Author,         \* [Subjects -> People]: whose conversation each came from
    Roles,          \* those of the enumeration that occur: "admin", "investor", "viewer"
    MaxRequests,    \* bound: requests answered, administrators' and shares
    MaxShellUses    \* bound: roles set from the operator's shell

ASSUME AccountsAssumption ==
    /\ Founder \in People /\ Author \in [Subjects -> People]
    /\ {"admin", "investor"} \subseteq Roles

VARIABLES
    accounts,       \* the rows of users, by person; absent when there is none
    registration,   \* the registration_open setting
    asked,          \* an administrator's request between its guards and its commit
    grants,         \* the rows of shared_items: who shows what to whom, and is it live
    answered,       \* requests answered
    shellUses,
    overlapped,     \* whether two administrators' requests have overlapped
    shellRevoked    \* whether the shell has demoted an administrator

accountVars ==
    <<accounts, registration, asked, grants, answered, shellUses, overlapped, shellRevoked>>

Account == [role : Roles, status : {"active", "suspended", "banned"},
            until : {"none", "ahead", "past"}]
NoRequest == [op |-> "none"]
NewAccount(r) == [role |-> r, status |-> "active", until |-> "none"]

(* User.sign_in_block: a suspension whose deadline has passed blocks no    *)
(* more, though the row still says suspended.                              *)
SignInBlock(u) ==
    \/ accounts[u].status = "banned"
    \/ accounts[u].status = "suspended" /\ accounts[u].until # "past"

(* login refuses a blocked account and get_current_user asks again on      *)
(* every request, so a token adds nothing to the row and its block;        *)
(* require_permission(MANAGE_PROVIDERS) asks for the role besides.         *)
Authenticated(u) == u \in DOMAIN accounts /\ ~SignInBlock(u)
MayAdminister(u) == Authenticated(u) /\ accounts[u].role = "admin"

Admins == {u \in DOMAIN accounts : accounts[u].role = "admin"}

(* The guard with the target counted among those who remain. *)
AnotherAdminRemainsCountingIt(t) == accounts[t].role # "admin" \/ Admins # {}

(* _refuse_if_last_admin lets the request pass when the target is not an   *)
(* administrator or another row with that role remains, whatever its       *)
(* status.                                                                 *)
AnotherAdminRemains(t) == accounts[t].role # "admin" \/ Admins \ {t} # {}

AccountsInit ==
    /\ accounts = [u \in {Founder} |-> NewAccount("admin")]
    /\ registration = TRUE
    /\ asked = [u \in People |-> NoRequest]
    /\ grants = {}
    /\ answered = 0 /\ shellUses = 0
    /\ overlapped = FALSE /\ shellRevoked = FALSE

-----------------------------------------------------------------------------
(* Getting in *)

(* POST /auth/register.  An empty platform takes its first account whether *)
(* registration is open or closed.                                         *)
Register(u) ==
    /\ u \notin DOMAIN accounts
    /\ registration \/ accounts = <<>>
    /\ accounts' = [v \in DOMAIN accounts \cup {u} |->
                        IF v = u THEN NewAccount("investor") ELSE accounts[v]]
    /\ UNCHANGED <<registration, asked, grants, answered, shellUses, overlapped, shellRevoked>>

(* The clock reaches a suspension's deadline. *)
SuspensionLapses(u) ==
    /\ u \in DOMAIN accounts
    /\ accounts[u].until = "ahead"
    /\ accounts' = [accounts EXCEPT ![u].until = "past"]
    /\ UNCHANGED <<registration, asked, grants, answered, shellUses, overlapped, shellRevoked>>

(* python -m aidss.cli grant-admin and revoke-admin: no guard at all. *)
ShellSetRole(u, r) ==
    /\ u \in DOMAIN accounts
    /\ r \in {"admin", "investor"} /\ accounts[u].role # r
    /\ shellUses < MaxShellUses /\ shellUses' = shellUses + 1
    /\ accounts' = [accounts EXCEPT ![u].role = r]
    /\ shellRevoked' = (shellRevoked \/ r # "admin")
    /\ UNCHANGED <<registration, asked, grants, answered, overlapped>>

-----------------------------------------------------------------------------
(* Administration *)

(* What a request asks for: a change of role, a suspension with or without *)
(* a deadline, a ban, a reinstatement, a deletion, or an account made on   *)
(* somebody's behalf.                                                      *)
AdminRequests ==
         [op : {"role", "create"}, on : People, role : Roles]
    \cup [op : {"suspend"}, on : People, until : {"none", "ahead"}]
    \cup [op : {"ban", "reinstate", "delete"}, on : People]

(* _target and the guards of each route.  Only a change of role may be     *)
(* one's own; reinstating is never refused.                                *)
Allowed(a, req) ==
    CASE req.op = "create" -> req.on \notin DOMAIN accounts
      [] req.op = "role" -> /\ req.on \in DOMAIN accounts
                            /\ req.role = "admin" \/ AnotherAdminRemains(req.on)
      [] req.op = "reinstate" -> req.on \in DOMAIN accounts /\ req.on # a
      [] OTHER -> /\ req.on \in DOMAIN accounts /\ req.on # a
                  /\ AnotherAdminRemains(req.on)

(* A request passes its guards. *)
Ask(a, req) ==
    /\ MayAdminister(a)
    /\ asked[a] = NoRequest
    /\ answered < MaxRequests
    /\ Allowed(a, req)
    /\ asked' = [asked EXCEPT ![a] = req]
    /\ overlapped' = (overlapped \/ \E b \in People \ {a} : asked[b] # NoRequest)
    /\ UNCHANGED <<accounts, registration, grants, answered, shellUses, shellRevoked>>

Changed(row, req) ==
    CASE req.op = "role" -> [row EXCEPT !.role = req.role]
      [] req.op = "suspend" -> [row EXCEPT !.status = "suspended", !.until = req.until]
      [] req.op = "ban" -> [row EXCEPT !.status = "banned", !.until = "none"]
      [] OTHER -> [row EXCEPT !.status = "active", !.until = "none"]

(* The request commits.  A row another request has meanwhile inserted or   *)
(* deleted fails it, and it changes nothing.  Deleting an account takes    *)
(* what it was shown and what it showed with it.                           *)
Answer(a) ==
    LET req == asked[a] IN
    /\ req # NoRequest
    /\ asked' = [asked EXCEPT ![a] = NoRequest]
    /\ answered' = answered + 1
    /\ \/ /\ req.op = "create" /\ req.on \notin DOMAIN accounts
          /\ accounts' = [v \in DOMAIN accounts \cup {req.on} |->
                            IF v = req.on THEN NewAccount(req.role) ELSE accounts[v]]
          /\ UNCHANGED grants
       \/ /\ req.op = "delete" /\ req.on \in DOMAIN accounts
          /\ accounts' = [v \in DOMAIN accounts \ {req.on} |-> accounts[v]]
          /\ grants' = {g \in grants : req.on \notin {g.owner, g.recipient}}
       \/ /\ req.op \notin {"create", "delete"} /\ req.on \in DOMAIN accounts
          /\ accounts' = [accounts EXCEPT ![req.on] = Changed(@, req)]
          /\ UNCHANGED grants
       \/ /\ (req.op = "create") = (req.on \in DOMAIN accounts)
          /\ UNCHANGED <<accounts, grants>>
    /\ UNCHANGED <<registration, shellUses, overlapped, shellRevoked>>

(* PATCH /admin/settings, its registration_open key. *)
SetRegistration(a) ==
    /\ MayAdminister(a)
    /\ answered < MaxRequests /\ answered' = answered + 1
    /\ registration' = ~registration
    /\ UNCHANGED <<accounts, asked, grants, shellUses, overlapped, shellRevoked>>

-----------------------------------------------------------------------------
(* Showing an analysis to another account *)

(* readable: a live grant. *)
Readable(u, x) == \E g \in grants : g.recipient = u /\ g.subject = x /\ g.live

(* The test with what was merely shown to the sender let through. *)
OwnsOrReads(u, x) == Author[x] = u \/ Readable(u, x)

(* _owns: ownership, not readability, or an audience would stop being      *)
(* knowable.                                                               *)
Owns(u, x) == Author[x] = u

(* share: the recipient's row must say active, an ended suspension does    *)
(* not count as that; a grant withdrawn before comes back.                 *)
Share(u, v, x) ==
    /\ Authenticated(u) /\ answered < MaxRequests /\ answered' = answered + 1
    /\ v \in DOMAIN accounts \ {u}
    /\ accounts[v].status = "active"
    /\ Owns(u, x)
    /\ grants' = {g \in grants : <<g.owner, g.recipient, g.subject>> # <<u, v, x>>}
                   \cup {[owner |-> u, recipient |-> v, subject |-> x, live |-> TRUE]}
    /\ UNCHANGED <<accounts, registration, asked, shellUses, overlapped, shellRevoked>>

(* revoke: withdrawn, not erased. *)
Revoke(u, g) ==
    /\ Authenticated(u) /\ answered < MaxRequests /\ answered' = answered + 1
    /\ g.owner = u /\ g.live
    /\ grants' = (grants \ {g}) \cup {[g EXCEPT !.live = FALSE]}
    /\ UNCHANGED <<accounts, registration, asked, shellUses, overlapped, shellRevoked>>

AccountsNext ==
    \/ \E u \in People : \/ Register(u) \/ SuspensionLapses(u)
                         \/ Answer(u) \/ SetRegistration(u)
                         \/ \E r \in Roles : ShellSetRole(u, r)
                         \/ \E req \in AdminRequests : Ask(u, req)
                         \/ \E v \in People, x \in Subjects : Share(u, v, x)
                         \/ \E g \in grants : Revoke(u, g)

AccountsSpec == AccountsInit /\ [][AccountsNext]_accountVars

-----------------------------------------------------------------------------
AccountsTypeOK ==
    /\ DOMAIN accounts \subseteq People /\ \A u \in DOMAIN accounts : accounts[u] \in Account
    /\ registration \in BOOLEAN
    /\ asked \in [People -> AdminRequests \cup {NoRequest}]
    /\ grants \subseteq [owner : People, recipient : People, subject : Subjects, live : BOOLEAN]

(* Requests made one after another never leave the platform without a row  *)
(* that has the administrator's role: only two that overlap can (each      *)
(* counts the other as remaining, admin.py _refuse_if_last_admin), or the  *)
(* operator's shell, which asks nothing.                                   *)
AdminRoleSurvives == ~overlapped /\ ~shellRevoked => Admins # {}

(* The audience of an analysis is those its author named and has not       *)
(* withdrawn it from, through every chain of shares, withdrawals, blocks   *)
(* and deletions (collab/sharing.py _owns).                                *)
AudienceIsNamed ==
    \A u \in People, x \in Subjects :
        Readable(u, x) => \E g \in grants : g.live /\ g.recipient = u
                                            /\ g.subject = x /\ g.owner = Author[x]

(* What admin.py promises of its guards, overlapping requests and the      *)
(* shell aside: somebody can still administer the platform.                *)
SomeoneCanAdminister ==
    ~overlapped /\ ~shellRevoked =>
        \E u \in Admins : ~SignInBlock(u) \/ accounts[u].until = "ahead"
=============================================================================
