------------------------------- MODULE Access -------------------------------
(***************************************************************************)
(* Sessions and the authenticated API: who gets a token pair (auth), what  *)
(* the middleware and the services let its holder do, and what the answer  *)
(* says, while the accounts the decision rests on change (Accounts).       *)
(*                                                                         *)
(* One request at a time is followed through the plan of its endpoint      *)
(* (Endpoints), statement by statement; any other request, of those that   *)
(* Accounts models, may run between two of them.                           *)
(*                                                                         *)
(* A definition whose name is another's with a suffix (RefreshUnchecked)   *)
(* is a faulty variant of it that no run uses: put in its place, it shows  *)
(* that a property would notice the fault.                                 *)
(***************************************************************************)
EXTENDS Accounts, Endpoints

CONSTANTS AccessTTL,  \* how many clock ticks an access token is good for
          RefreshTTL  \* how many a refresh token is

(***************************************************************************)
(* A row is a unit or what hangs on it: the building it is in and, when it *)
(* is let, the tenant.  A story also says which rows there are, which      *)
(* endpoints are called, how many token pairs may be about, whether time   *)
(* passes, and the roles the organization may be registered with.          *)
(***************************************************************************)
Row   == [building: Buildings \cup {Elsewhere}, tenant: TenantIds \cup {None}]
NoRow == [building |-> Elsewhere, tenant |-> None]

AccessStory == [rows: SUBSET Row, endpoints: SUBSET DOMAIN Routes, sessions: Nat,
                clock: BOOLEAN, founders: SUBSET UserRole]

ASSUME AccessStoriesAssumption ==
    \A s \in DOMAIN Stories :
        /\ DOMAIN Stories[s] = {"actors", "newUsers", "patches", "tokens", "tenants",
                                "emails", "serial", "failures", "rows", "endpoints",
                                "sessions", "clock", "founders"}
        /\ Stories[s].rows \subseteq Row /\ Stories[s].endpoints \subseteq DOMAIN Routes

ASSUME TTLAssumption ==
    AccessTTL \in Nat \ {0} /\ RefreshTTL \in Nat /\ AccessTTL <= RefreshTTL

VARIABLES
    sessions, \* token pairs handed out whose refresh token has not expired
    lately,   \* history: who stopped being an active user in a role, and when
    ask       \* the authenticated request being served

accessVars == <<sessions, lately, ask, vars>>

Session == [user: UserIds, role: UserRole, age: 0..RefreshTTL - 1]

(***************************************************************************)
(* The request: the claims of its token, the organization in its path, the *)
(* row it names, the next statement, what ReadIds and TenantIDByUser       *)
(* returned, the rows of the answer and its code; whether it has stored    *)
(* something, dropped an error, or has one to look at later.  The last     *)
(* four are history: the claims were true lately, the buildings the caller *)
(* had at some time of the request and throughout, the tenants linked to   *)
(* it at some time.                                                        *)
(***************************************************************************)
Ask == [pc: {"idle", "serve", "answered"}, endpoint: DOMAIN Routes \cup {None},
        user: UserIds \cup {None}, role: UserRole, path: {"own", "elsewhere"},
        row: Row, at: Nat, ids: SUBSET Buildings, own: TenantIds \cup {None},
        seen: SUBSET Row, code: Nat, stored: BOOLEAN, lost: BOOLEAN, late: BOOLEAN,
        recent: BOOLEAN, held: SUBSET Buildings, kept: SUBSET Buildings,
        linked: SUBSET TenantIds]

NoAsk == [pc |-> "idle", endpoint |-> None, user |-> None, role |-> "staff",
          path |-> "own", row |-> NoRow, at |-> 1, ids |-> {}, own |-> None,
          seen |-> {}, code |-> 0, stored |-> FALSE, lost |-> FALSE, late |-> FALSE,
          recent |-> TRUE, held |-> {}, kept |-> {}, linked |-> {}]

AccessTypeOK ==
    /\ TypeOK
    /\ sessions \subseteq Session
    /\ lately \subseteq [user: UserIds, role: UserRole, ago: 0..AccessTTL - 1]
    /\ ask \in Ask

AccessInit == Init /\ sessions = {} /\ lately = {} /\ ask = NoAsk

-----------------------------------------------------------------------------
(***************************************************************************)
(* Sessions.                                                               *)
(***************************************************************************)
isBootstrapRole == {"admin", "landlord", "manager"}
isLoginRole     == UserRole

ActiveAs(u, role) == users[u].status = "active" /\ users[u].role = role

ActiveLately(u, role) ==
    ActiveAs(u, role) \/ \E l \in lately : l.user = u /\ l.role = role

\* IssueTokenPair: the claims are the row's as it was read just before.
IssueTokenPair(u, role) ==
    /\ Cardinality(sessions) < Scene.sessions
    /\ sessions' = sessions \cup {[user |-> u, role |-> role, age |-> 0]}

\* The organization and its first user, in one transaction.
CreateOrganizationAndUser(u, role, email) ==
    /\ \A v \in UserIds : ~Exists(v)
    /\ users' = [users EXCEPT ![u] =
          [NoUser EXCEPT !.status = "active", !.role = role, !.email = email]]
    /\ stranded' = [stranded EXCEPT ![u] = TRUE]

Register ==
    /\ \E u \in UserIds, role \in Scene.founders \cap isBootstrapRole, e \in Scene.emails :
          /\ CreateOrganizationAndUser(u, role, e)
          /\ IssueTokenPair(u, role)
    /\ UNCHANGED <<story, assignments, tokens, tenants, req, scope, lately, ask>>

Login ==
    /\ \E u \in UserIds :
          /\ users[u].status = "active" /\ users[u].role \in isLoginRole
          /\ IssueTokenPair(u, users[u].role)
    /\ UNCHANGED <<vars, lately, ask>>

RefreshUnchecked ==
    /\ \E s \in sessions : IssueTokenPair(s.user, users[s.user].role)
    /\ UNCHANGED <<vars, lately, ask>>

\* Refresh: the user is read again; the pair that was presented stays good.
Refresh ==
    /\ \E s \in sessions :
          /\ users[s.user].role \in isLoginRole
          /\ users[s.user].status = "active"
          /\ IssueTokenPair(s.user, users[s.user].role)
    /\ UNCHANGED <<vars, lately, ask>>

\* Signature aside, a token is good until it expires.
ParseAccessTokenExpired(s) == TRUE

ParseAccessToken(s)  == s.age < AccessTTL
ParseRefreshToken(s) == s.age < RefreshTTL

Older(s) == [s EXCEPT !.age = @ + 1]

\* External: time passes.
Tick ==
    /\ Scene.clock /\ sessions \cup lately # {}
    /\ sessions' = {t \in {Older(s) : s \in sessions} : ParseRefreshToken(t)}
    /\ lately' = {[l EXCEPT !.ago = @ + 1] : l \in {m \in lately : m.ago < AccessTTL - 1}}
    /\ UNCHANGED <<vars, ask>>

-----------------------------------------------------------------------------
(***************************************************************************)
(* From the request to its service function.                               *)
(***************************************************************************)
Linked(u) == {n \in TenantIds : tenants[n].user = u}

\* The plan looks for the row its path or body names; one that does not may name
\* what the row hangs on.
Finds(plan) == \E i \in 1..Len(plan.steps) : plan.steps[i].does = "find"
Names(plan) ==
    Finds(plan) \/ \E i \in 1..Len(plan.steps) : plan.steps[i].does \in {"own", "assigned"}

assertOrgScope(role, path) == role = "admin" \/ path = "own"

RequireOrganizationParam(h, role, path) == h.tree => role = "admin" \/ path = "own"

RequireRoles(h, role) == h.plan.admits = isAdmin => role \in isAdmin

\* A body that cannot be bound is answered 400.
BindJSON(h) == IF h.binds THEN {400} ELSE {}

\* The codes a request may be refused with before its first statement; Admitted
\* if it may get there.  In the order of the code: the middleware, the body, the
\* organization of the path again, the role.
Admitted == 0

Screen(h, role, path) ==
    IF ~RequireOrganizationParam(h, role, path) \/ ~RequireRoles(h, role) THEN {403}
    ELSE BindJSON(h) \cup
         (IF (h.plan.asserts => assertOrgScope(role, path)) /\ role \in h.plan.admits
          THEN {Admitted} ELSE {403})

\* A request with the claims of s, answered with the code unless admitted.
Received(s, e, path, row, code) ==
    [NoAsk EXCEPT !.pc = IF code = Admitted THEN "serve" ELSE "answered",
                  !.endpoint = e, !.user = s.user, !.role = s.role, !.path = path,
                  !.row = row, !.code = code, !.recent = ActiveLately(s.user, s.role),
                  !.held = assignments[s.user], !.kept = assignments[s.user],
                  !.linked = Linked(s.user)]

\* JWTAuth and the handler, up to its first statement.
Receive ==
    /\ ask.pc = "idle"
    /\ \E s \in sessions, e \in Scene.endpoints, path \in {"own", "elsewhere"} :
          /\ ParseAccessToken(s)
          /\ \E row \in (IF Names(Routes[e].plan) THEN Scene.rows ELSE {NoRow}),
                code \in Screen(Routes[e], s.role, path) :
                ask' = Received(s, e, path, row, code)
    /\ UNCHANGED <<vars, sessions, lately>>

-----------------------------------------------------------------------------
(***************************************************************************)
(* Statements.                                                             *)
(***************************************************************************)
Applies(s, role, plan) ==
    CASE s.does \in {"ids", "inIds", "assigned", "rowsInIds"} -> role \in plan.managers
      [] s.does \in {"ownId", "own", "rowsOfOwn"}             -> role = "tenant"
      [] OTHER                                                -> TRUE

\* The statement the request has come to, while there is one.
InPlan == ask.pc = "serve" /\ ask.at <= Len(Routes[ask.endpoint].plan.steps)
Now    == Routes[ask.endpoint].plan.steps[ask.at]

ForCaller == Applies(Now, ask.role, Routes[ask.endpoint].plan)

Statement(does) == InPlan /\ ForCaller /\ Now.does = does

Onward(a) == ask' = [a EXCEPT !.at = @ + 1]
Answer(a, code) == ask' = [a EXCEPT !.pc = "answered", !.code = code]

\* A statement that is not for the caller's role is passed over.
PassOver == InPlan /\ ~ForCaller /\ Onward(ask)

InPath(row) == (row.building = Elsewhere) <=> (ask.path = "elsewhere")
PathRows    == {r \in Scene.rows : InPath(r)}

\* TenantIDByUser: LIMIT 1 without an order.
TenantIDByUser(n) == IF Linked(ask.user) = {} THEN n = None ELSE n \in Linked(ask.user)

FindNamed ==
    /\ Statement("find")
    /\ \/ InPath(ask.row) /\ Onward(ask)
       \/ Answer(ask, 404)

ListManagerBuildingIDs == Statement("ids") /\ Onward([ask EXCEPT !.ids = assignments[ask.user]])

UnitInBuildings ==
    /\ Statement("inIds")
    /\ IF ask.row.building \in ask.ids THEN Onward(ask) ELSE Answer(ask, 403)

isAssignedBuilding ==
    /\ Statement("assigned")
    /\ IF ask.row.building \in assignments[ask.user] THEN Onward(ask) ELSE Answer(ask, 403)

OwnTenant ==
    /\ Statement("ownId")
    /\ \E n \in TenantIds \cup {None} : TenantIDByUser(n) /\ Onward([ask EXCEPT !.own = n])

NamedIsOwn ==
    /\ Statement("own")
    /\ \E n \in TenantIds \cup {None} :
          /\ TenantIDByUser(n)
          /\ IF n # None /\ n = ask.row.tenant THEN Onward(ask) ELSE Answer(ask, 403)

SelfIsActive ==
    /\ Statement("self")
    /\ IF users[ask.user].status = "active" THEN Onward(ask) ELSE Answer(ask, 403)

\* The rows a query of the plan returns.
Returned(does) ==
    CASE does = "rows"       -> PathRows
      [] does = "rowsInIds"  -> {r \in PathRows : r.building \in ask.ids}
      [] does = "rowsOfOwn"  -> {r \in PathRows : r.tenant = ask.own /\ ask.own # None}
      [] does = "rowsScoped" ->
            {r \in PathRows :
                /\ ask.role \in Routes[ask.endpoint].plan.managers => r.building \in ask.ids
                /\ ask.role = "tenant" => r.tenant = ask.own /\ ask.own # None}
      [] does = "rowsOfNamed" ->
            {r \in PathRows :
                CASE ask.endpoint = "UnitsList"     -> r.building = ask.row.building
                  [] ask.endpoint = "LeasesHistory" -> r = ask.row
                  [] OTHER                          -> r.tenant = ask.row.tenant}

Query(does) == Statement(does) /\ Onward([ask EXCEPT !.seen = Returned(does)])

QueryOwn ==
    /\ Statement("rowsOfOwn")
    /\ Answer([ask EXCEPT !.seen = Returned("rowsOfOwn")], Routes[ask.endpoint].code)

\* A check of values may refuse; one that is a query (Vacant) may fail as well.
Check ==
    /\ Statement("check")
    /\ \/ Onward(ask) \/ Answer(ask, Now.fails)
       \/ Scene.failures /\ Now.fails = 409 /\ Answer(ask, 500)

EmptyPatch ==
    /\ Statement("unchanged")
    /\ Onward(ask) \/ Answer(ask, Routes[ask.endpoint].code)

StoreRow == Statement("store") /\ Onward([ask EXCEPT !.stored = TRUE])

Read == Statement("read") /\ Onward(ask)

\* A statement fails.  An error that is dropped leaves the query's rows empty;
\* so does one that is looked at later.
StatementFails ==
    /\ Scene.failures
    /\ InPlan /\ ForCaller /\ Now.does \notin {"check", "unchanged"}
    /\ LET seen == IF Now.does \in {"rows", "rowsInIds"} THEN {} ELSE ask.seen
       IN  CASE Now.fails = Unheeded -> Onward([ask EXCEPT !.lost = TRUE, !.seen = seen])
             [] Now.fails = Late     -> Onward([ask EXCEPT !.late = TRUE, !.seen = seen])
             [] OTHER                -> Answer(ask, Now.fails)

Finish ==
    /\ ask.pc = "serve" /\ ~InPlan
    /\ Answer(ask, IF ask.late THEN 500 ELSE Routes[ask.endpoint].code)

Done == ask.pc = "answered" /\ ask' = NoAsk

Serve ==
    /\ \/ FindNamed \/ ListManagerBuildingIDs \/ UnitInBuildings \/ isAssignedBuilding
       \/ OwnTenant \/ NamedIsOwn \/ SelfIsActive
       \/ \E does \in {"rows", "rowsInIds", "rowsScoped", "rowsOfNamed"} : Query(does)
       \/ PassOver \/ QueryOwn \/ Check \/ EmptyPatch \/ StoreRow \/ Read
       \/ StatementFails \/ Finish \/ Done
    /\ UNCHANGED <<vars, sessions, lately>>

\* History: what a step of Accounts changes for the request in progress and for
\* the claims that are about.
Watch ==
    /\ ask' = IF ask.pc # "serve" THEN ask
              ELSE [ask EXCEPT !.held = @ \cup assignments'[ask.user],
                               !.kept = @ \cap assignments'[ask.user],
                               !.linked = @ \cup {n \in TenantIds : tenants'[n].user = ask.user}]
    /\ lately' = IF Scene.sessions = 0 THEN {}
                 ELSE lately \cup
                      {[user |-> u, role |-> users[u].role, ago |-> 0] :
                          u \in {v \in UserIds : /\ users[v].status = "active"
                                                 /\ \/ users'[v].status # "active"
                                                    \/ users'[v].role # users[v].role}}

AccountsStep == Next /\ Watch /\ UNCHANGED sessions

AccessNext ==
    \/ Register \/ Login \/ Refresh \/ Tick
    \/ Receive \/ Serve
    \/ AccountsStep

AccessSpec == AccessInit /\ [][AccessNext]_accessVars

-----------------------------------------------------------------------------
(***************************************************************************)
(* Properties.                                                             *)
(***************************************************************************)

\* JWTAuth believes a token's role without a look at the users table, and the
\* table may have changed.  It is wrong for AccessTTL at most: an access token
\* that would be accepted names a role its user has, or had and was active in
\* when the token was issued or later, and so did the token of every request
\* that gets past the middleware.
StaleClaimsAreBounded ==
    /\ \A s \in sessions : s.age < AccessTTL =>
          \/ ActiveAs(s.user, s.role)
          \/ \E l \in lately : l.user = s.user /\ l.role = s.role /\ l.ago <= s.age
    /\ ask.recent

\* Endpoints that show or write what is the organization's, whoever asks: the
\* managers' payment pages and tenant statements, and the administration.
OrganizationWide(role) ==
    {"PaymentsSummary", "PaymentsMethodSplit", "PaymentsReminderCandidates",
     "PaymentsReminderHistory", "PaymentsSendReminders", "UsersList", "UsersPatch",
     "OrganizationsGet", "OrganizationsPatch"}
    \cup (IF role = "tenant" THEN {}
          ELSE {"LeasesTenantStatement", "LeasesTenantStatementExport"})
    \cup (IF role = "property_manager" THEN {"PaymentsInitiate", "PaymentsRecordManual"}
          ELSE {})

Succeeded == ask.pc = "answered" /\ ask.code \in 200..299

\* The rows the answer shows, and the one the request names if it was read or
\* written for the caller.
Touched ==
    (IF Succeeded THEN ask.seen ELSE {}) \cup
    (IF Finds(Routes[ask.endpoint].plan) /\ (Succeeded \/ ask.stored) THEN {ask.row} ELSE {})

\* The services check the organization, a manager's buildings and a tenant's
\* link in statements of their own, while an administrator may be changing
\* them.  Whatever is shown or written was in the caller's scope at some time
\* of the request, and a manager's list misses nothing that was in it
\* throughout (unless the error of the query was dropped).
RowsWereInScope ==
    ask.pc = "answered" =>
        /\ \A r \in Touched :
              /\ InPath(r) /\ assertOrgScope(ask.role, ask.path)
              /\ ask.endpoint \notin OrganizationWide(ask.role) =>
                    /\ ask.role \in {"manager", "property_manager"} => r.building \in ask.held
                    /\ ask.role = "tenant" => r.tenant \in ask.linked
        /\ Succeeded /\ ask.role = "manager" /\ ~ask.lost
           /\ ask.endpoint \in {"BuildingsList", "TenantsList", "LeasesList"}
           => {r \in PathRows : r.building \in ask.kept} \subseteq ask.seen

\* Answers are true.  A success has passed over no error, but for a manager's
\* list of buildings, a tenant whose login is not linked, the old lease of an
\* accepted renewal, which may fail to be ended, the last reload of either
\* decision of an offer, in whose place the offer loaded before is shown with
\* the decision, and the bookkeeping around the payment gateway; a request that
\* is refused has stored nothing, but for a tenant without a login and a
\* user whose list of buildings is refused.
AnswersAreTrue ==
    ask.pc = "answered" =>
        /\ Succeeded /\ ask.lost =>
              ask.endpoint \in {"BuildingsList", "TenantsCreate", "LeasesAcceptRenewalOffer",
                                "LeasesRejectRenewalOffer", "PaymentsInitiate",
                                "PaymentsGetTransactionStatus"}
        /\ ask.code \in 400..499 /\ ask.stored =>
              ask.endpoint \in {"TenantsCreate", "UsersCreate", "UsersPatch"}
=============================================================================
