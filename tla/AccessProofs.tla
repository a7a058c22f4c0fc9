----------------------------- MODULE AccessProofs -----------------------------
(***************************************************************************)
(* Proofs about Access, for any lifetimes of the tokens, any number of     *)
(* them and any rows: the claims of the sessions, the order each endpoint  *)
(* keeps its statements in, and from both what a request shows, stores and *)
(* answers.  What the accounts contribute is proved in AccountsProofs.     *)
(***************************************************************************)
EXTENDS AccountsProofs, FiniteSetTheorems

Claims == [user: UserIds, role: UserRole, age: Nat]
Former == [user: UserIds, role: UserRole, ago: Nat]

\* The role is the user's, or was when the token was issued or later.
Covered(s) == s.age < AccessTTL =>
                 \/ ActiveAs(s.user, s.role)
                 \/ \E l \in lately : l.user = s.user /\ l.role = s.role /\ l.ago <= s.age

ClaimsInv ==
    /\ sessions \subseteq Claims /\ lately \subseteq Former
    /\ Scene.sessions = 0 => sessions = {}
    /\ \A s \in sessions : Covered(s)

RecentInv == "recent" \in DOMAIN ask /\ ask.recent

LEMMA ClaimsInit == AccessInit => ClaimsInv /\ RecentInv
BY DEF AccessInit, ClaimsInv, RecentInv, NoAsk

\* A pair that is issued with the row's own role is covered.
LEMMA Issued0 ==
    ASSUME ClaimsInv, NEW u \in UserIds, NEW role \in UserRole,
           IssueTokenPair(u, role), ActiveAs(u, role)', UNCHANGED <<story, lately>>,
           \A s \in sessions : ActiveAs(s.user, s.role) => ActiveAs(s.user, s.role)'
    PROVE  ClaimsInv'
<1> DEFINE new == [user |-> u, role |-> role, age |-> 0]
<1>1. sessions' = sessions \cup {new} /\ Cardinality(sessions) < Scene.sessions
  BY DEF IssueTokenPair
<1>2. new \in Claims
  BY DEF Claims
<1>3. Scene.sessions # 0
  <2> SUFFICES ASSUME Scene.sessions = 0 PROVE FALSE
    OBVIOUS
  <2>1. Cardinality(sessions) = 0
    BY FS_EmptySet DEF ClaimsInv
  <2> QED
    BY <1>1, <2>1
<1>4. Scene' = Scene
  BY DEF Scene
<1>5. ASSUME NEW s \in sessions' PROVE Covered(s)'
  BY <1>1, <1>5 DEF ClaimsInv, Covered
<1> QED
  BY <1>1, <1>2, <1>3, <1>4, <1>5 DEF ClaimsInv

LEMMA TickClaims == ASSUME ClaimsInv, Tick PROVE ClaimsInv'
<1>1. /\ sessions' = {t \in {Older(s) : s \in sessions} : ParseRefreshToken(t)}
      /\ lately' = {[l EXCEPT !.ago = @ + 1] : l \in {m \in lately : m.ago < AccessTTL - 1}}
      /\ sessions \subseteq Claims /\ lately \subseteq Former
      /\ UNCHANGED <<users, story>>
  BY DEF Tick, ClaimsInv, vars
<1>2. ASSUME NEW t \in sessions'
      PROVE  \E s \in sessions : /\ t = [s EXCEPT !.age = @ + 1] /\ t \in Claims
                                 /\ t.user = s.user /\ t.role = s.role /\ t.age = s.age + 1
  BY <1>1 DEF Older, Claims
<1>3. ASSUME NEW l \in lately, l.ago < AccessTTL - 1
      PROVE  \E k \in lately' : k.user = l.user /\ k.role = l.role /\ k.ago = l.ago + 1
  <2> DEFINE k == [l EXCEPT !.ago = @ + 1]
  <2>1. k \in lately'
    BY <1>1, <1>3
  <2>2. k.user = l.user /\ k.role = l.role /\ k.ago = l.ago + 1
    BY <1>1 DEF Former
  <2> QED
    BY <2>1, <2>2
<1>4. lately' \subseteq Former
  BY <1>1 DEF Former
<1>5. ASSUME NEW t \in sessions' PROVE Covered(t)'
  <2>1. PICK s \in sessions : t.user = s.user /\ t.role = s.role /\ t.age = s.age + 1
    BY <1>2
  <2> SUFFICES ASSUME t.age < AccessTTL, ~ActiveAs(s.user, s.role)
               PROVE  \E k \in lately' : k.user = t.user /\ k.role = t.role /\ k.ago <= t.age
    BY <1>1, <2>1 DEF Covered, ActiveAs
  <2>2. s.age \in Nat /\ AccessTTL \in Nat
    BY <1>1, TTLAssumption DEF Claims
  <2>3. PICK l \in lately : l.user = s.user /\ l.role = s.role /\ l.ago <= s.age
    BY <2>1, <2>2 DEF ClaimsInv, Covered
  <2>4. l.ago \in Nat
    BY <1>1 DEF Former
  <2>5. l.ago < AccessTTL - 1
    BY <2>1, <2>2, <2>3, <2>4
  <2>6. PICK k \in lately' : k.user = l.user /\ k.role = l.role /\ k.ago = l.ago + 1
    BY <1>3, <2>5
  <2>7. k.ago <= t.age
    BY <2>1, <2>2, <2>3, <2>4, <2>6
  <2> QED
    BY <2>1, <2>3, <2>6, <2>7
<1>6. Scene.sessions = 0 => sessions' = {}
  BY <1>1 DEF ClaimsInv
<1>7. Scene' = Scene
  BY <1>1 DEF Scene
<1> QED
  BY <1>2, <1>4, <1>5, <1>6, <1>7 DEF ClaimsInv

\* Who stops being an active user in a role is remembered.
LEMMA WatchClaims ==
    ASSUME BaseInv, ClaimsInv, AccountsStep PROVE ClaimsInv'
<1>1. /\ UNCHANGED <<sessions, story>> /\ users \in [UserIds -> User]
      /\ lately' = IF Scene.sessions = 0 THEN {}
                   ELSE lately \cup
                        {[user |-> u, role |-> users[u].role, ago |-> 0] :
                            u \in {v \in UserIds : /\ users[v].status = "active"
                                                   /\ \/ users'[v].status # "active"
                                                      \/ users'[v].role # users[v].role}}
  BY BaseFacts DEF AccountsStep, Watch, Next
<1>2. Scene' = Scene
  BY <1>1 DEF Scene
<1>3. lately' \subseteq Former
  BY <1>1 DEF ClaimsInv, Former, User
<1>4. ASSUME NEW s \in sessions PROVE Covered(s)'
  <2> SUFFICES ASSUME s.age < AccessTTL, ~ActiveAs(s.user, s.role)'
               PROVE  \E l \in lately' : l.user = s.user /\ l.role = s.role /\ l.ago <= s.age
    BY DEF Covered
  <2>1. s \in Claims /\ Covered(s) /\ Scene.sessions # 0
    BY DEF ClaimsInv
  <2>2. CASE ActiveAs(s.user, s.role)
    <3> DEFINE l == [user |-> s.user, role |-> users[s.user].role, ago |-> 0]
    <3>1. l \in lately'
      BY <1>1, <2>1, <2>2 DEF ActiveAs, Claims
    <3>2. l.user = s.user /\ l.role = s.role /\ l.ago <= s.age
      BY <2>1, <2>2 DEF ActiveAs, Claims
    <3> QED
      BY <3>1, <3>2
  <2>3. CASE ~ActiveAs(s.user, s.role)
    BY <1>1, <2>1, <2>3 DEF Covered
  <2> QED
    BY <2>2, <2>3
<1> QED
  BY <1>1, <1>2, <1>3, <1>4 DEF ClaimsInv

LEMMA RegisterClaims == ASSUME BaseInv, ClaimsInv, Register PROVE ClaimsInv'
<1>1. PICK u \in UserIds, role \in Scene.founders \cap isBootstrapRole, e \in Scene.emails :
        CreateOrganizationAndUser(u, role, e) /\ IssueTokenPair(u, role)
  BY DEF Register
<1>2. UNCHANGED <<story, lately>> /\ role \in UserRole
  BY <1>1 DEF Register, isBootstrapRole, UserRole
<1>3. ActiveAs(u, role)'
  BY <1>1, BaseFacts DEF CreateOrganizationAndUser, ActiveAs, NoUser
<1>4. \A s \in sessions : ~ActiveAs(s.user, s.role)
  BY <1>1 DEF CreateOrganizationAndUser, Exists, ActiveAs, ClaimsInv, Claims
<1> QED
  BY <1>1, <1>2, <1>3, <1>4, Issued0

LEMMA IssueClaims == ASSUME BaseInv, ClaimsInv, Login \/ Refresh PROVE ClaimsInv'
<1>1. PICK u \in UserIds : ActiveAs(u, users[u].role) /\ IssueTokenPair(u, users[u].role)
  BY DEF Login, Refresh, ActiveAs, ClaimsInv, Claims
<1>2. UNCHANGED <<users, story, lately>> /\ users[u].role \in UserRole
  BY BaseFacts DEF Login, Refresh, vars, User
<1> QED
  BY <1>1, <1>2, Issued0 DEF ActiveAs

LEMMA ClaimsStep ==
    ASSUME BaseInv, ClaimsInv, [AccessNext]_accessVars PROVE ClaimsInv'
<1>1. CASE UNCHANGED <<users, story, sessions, lately>>
  BY <1>1 DEF ClaimsInv, Covered, ActiveAs, Scene
<1>2. CASE Receive \/ Serve \/ UNCHANGED accessVars
  <2>1. UNCHANGED <<vars, sessions, lately>>
    BY <1>2, Zenon DEF Receive, Serve, accessVars
  <2> QED
    BY <1>1, <2>1 DEF vars
<1> QED
  BY <1>2, TickClaims, WatchClaims, RegisterClaims, IssueClaims DEF AccessNext

-----------------------------------------------------------------------------
\* The middleware lets a request through with recent claims only; nothing that
\* is done for it afterwards changes that.
LEMMA RecentStep ==
    ASSUME ClaimsInv, RecentInv, [AccessNext]_accessVars PROVE RecentInv'
<1>1. CASE UNCHANGED ask
  BY <1>1 DEF RecentInv
<1>2. CASE Receive
  <2>1. PICK s \in sessions : ParseAccessToken(s) /\ ask'.recent = ActiveLately(s.user, s.role)
                              /\ "recent" \in DOMAIN ask'
    <3>1. PICK s, e, path, row, code :
            s \in sessions /\ ParseAccessToken(s) /\ ask' = Received(s, e, path, row, code)
      BY <1>2, Zenon DEF Receive
    <3>2. ask'.recent = ActiveLately(s.user, s.role)
      BY <3>1, SMT DEF Received, NoAsk
    <3>3. "recent" \in DOMAIN ask'
      BY <3>1, Zenon DEF Received, NoAsk
    <3> QED
      BY <3>1, <3>2, <3>3
  <2>2. ActiveLately(s.user, s.role)
    BY <2>1 DEF ClaimsInv, Covered, ParseAccessToken, ActiveLately
  <2> QED
    BY <2>1, <2>2 DEF RecentInv
<1>3. CASE Serve
  <2>1. CASE Done
    BY <2>1 DEF Done, NoAsk, RecentInv
  <2>2. CASE FindNamed \/ UnitInBuildings \/ isAssignedBuilding \/ NamedIsOwn \/ SelfIsActive
    BY ZenonT(40), <2>2 DEF FindNamed, UnitInBuildings, isAssignedBuilding, NamedIsOwn,
                SelfIsActive, Onward, Answer, RecentInv
  <2>3. CASE ListManagerBuildingIDs \/ OwnTenant \/ StoreRow
    <3>1. CASE ListManagerBuildingIDs
      BY <3>1 DEF ListManagerBuildingIDs, Onward, RecentInv
    <3>2. CASE OwnTenant
      BY <3>2 DEF OwnTenant, Onward, RecentInv
    <3>3. CASE StoreRow
      BY <3>3 DEF StoreRow, Onward, RecentInv
    <3> QED
      BY <2>3, <3>1, <3>2, <3>3
  <2>4. CASE Read \/ PassOver
    <3>1. Onward(ask)
      BY <2>4, Zenon DEF Read, PassOver
    <3> QED
      BY <3>1, Zenon DEF Onward, RecentInv
  <2>5. CASE (\E does : Query(does)) \/ QueryOwn
    BY <2>5, Zenon DEF Query, QueryOwn, Onward, Answer, RecentInv
  <2>6. CASE Check
    <3>1. Onward(ask) \/ \E code : Answer(ask, code)
      BY <2>6 DEF Check
    <3>2. \A code : Answer(ask, code) => RecentInv'
      BY DEF Answer, RecentInv
    <3>3. Onward(ask) => RecentInv'
      BY DEF Onward, RecentInv
    <3> QED
      BY <3>1, <3>2, <3>3
  <2>7. CASE EmptyPatch
    <3>1. PICK code : Onward(ask) \/ Answer(ask, code)
      BY <2>7 DEF EmptyPatch
    <3> QED
      BY <3>1 DEF Onward, Answer, RecentInv
  <2>8. CASE Finish
    <3>1. PICK code : Answer(ask, code)
      BY <2>8 DEF Finish
    <3> QED
      BY <3>1 DEF Answer, RecentInv
  <2>9. CASE StatementFails
    BY <2>9 DEF StatementFails, Onward, Answer, RecentInv
  <2> QED
    BY <1>3, <2>1, <2>2, <2>3, <2>4, <2>5, <2>6, <2>7, <2>8, <2>9 DEF Serve
<1>4. CASE AccountsStep
  BY <1>4 DEF AccountsStep, Watch, RecentInv
<1> QED
  BY <1>1, <1>2, <1>3, <1>4 DEF AccessNext, accessVars, Register, Login, Refresh, Tick

-----------------------------------------------------------------------------
\* JWTAuth trusts the role in a token for AccessTTL and no longer: an access
\* token that is still good names a role its user has, or had and was active in
\* since the token was issued, and so did the token of the request being served.
THEOREM StaleClaimsEnd == AccessSpec => []StaleClaimsAreBounded
<1> DEFINE Inv == BaseInv /\ ClaimsInv /\ RecentInv
<1>1. AccessInit => Inv
  BY BaseInvInit, ClaimsInit
<1>2. Inv /\ [AccessNext]_accessVars => Inv'
  BY BaseInvStep, ClaimsStep, RecentStep
<1>3. Inv => StaleClaimsAreBounded
  BY DEF ClaimsInv, RecentInv, Covered, StaleClaimsAreBounded
<1> QED
  BY <1>1, <1>2, <1>3, PTL DEF AccessSpec

-----------------------------------------------------------------------------
(***************************************************************************)
(* The plans.  What keeps a request in its caller's scope is a matter of   *)
(* order: a guard (find, own, inIds, assigned) comes before whatever tells *)
(* of the row it guards, the query that counts is the last one and a       *)
(* narrowed one, and nothing that refuses comes after a store.  Each of    *)
(* the endpoints is shown to keep that order, as far as it is bound to.    *)
(***************************************************************************)
Queries == {"rows", "rowsInIds", "rowsScoped", "rowsOfNamed", "rowsOfOwn"}

\* Statements that store, or that a request may be answered at with a success.
Telling == {"store", "unchanged", "rowsOfOwn"}

Managing == {"manager", "property_manager"}

StmtOK(t) ==
    /\ t.fails \in {Unheeded, Late, 400, 403, 404, 409, 500}
    /\ t.fails \in {Unheeded, Late} => t.does \in {"rows", "rowsInIds", "store", "read"}

Has(s, does) == \E i \in 1..Len(s) : s[i].does \in does

\* One of the statements comes before anything is told.
Gate(s, does) ==
    \E g \in 1..Len(s) :
        /\ s[g].does \in does
        /\ \A i \in 1..g : s[i].does \notin Telling \cup {"rowsOfNamed"}

\* One of the queries comes before anything is told, and after all the rows.
Narrowed(s, does) ==
    \E q \in 1..Len(s) :
        /\ s[q].does \in does
        /\ \A i \in 1..Len(s) : /\ i < q => s[i].does \notin Telling
                                /\ i > q => s[i].does # "rows"

\* What comes after the first store does not refuse.
StoresLast(s) ==
    \E g \in 1..Len(s) : \A i \in 1..Len(s) :
        /\ i < g => s[i].does # "store"
        /\ i > g => s[i].does \in {"store", "read"} /\ s[i].fails \in {Unheeded, 500}

\* The third statement is the query, after the manager's buildings are read.
Whole(s) ==
    /\ Len(s) >= 3 /\ s[3].does \in {"rowsInIds", "rowsScoped"}
    /\ s[1].does = "ids" \/ s[2].does = "ids"
    /\ \A i \in 1..Len(s) : IF i <= 3 THEN s[i].does \notin Telling
                             ELSE s[i].does \in {"ownId", "rowsOfOwn"}

\* The lists RowsWereInScope says are complete, and those of a named row.
Complete == {"BuildingsList", "TenantsList", "LeasesList"}

NamedLists == {"UnitsList", "LeasesHistory", "LeasesTenantStatement",
               "LeasesTenantStatementExport"}

\* The endpoints whose answers AnswersAreTrue makes an exception of.
Dropping == {"BuildingsList", "TenantsCreate", "LeasesAcceptRenewalOffer",
             "LeasesRejectRenewalOffer", "PaymentsInitiate", "PaymentsGetTransactionStatus"}

RefusingLate == {"TenantsCreate", "UsersCreate", "UsersPatch"}

\* The endpoint with statements s, for the roles of admits; reach: the
\* organization of its path is compared with the caller's.
Ordered(e, reach, admits, managers, s) ==
    /\ Len(s) \in Nat /\ \A i \in 1..Len(s) : StmtOK(s[i])
    /\ "tenant" \notin managers
    /\ Has(s, Queries \cup {"find"}) => reach
    /\ e \notin Dropping => \A i \in 1..Len(s) : s[i].fails # Unheeded
    /\ e \notin RefusingLate => StoresLast(s)
    /\ Has(s, {"rowsScoped"}) => Managing \subseteq managers
    /\ Has(s, {"rowsOfNamed"}) =>
          /\ e \in NamedLists /\ Has(s, {"find", "own", "assigned"})
          /\ e = "UnitsList" => "tenant" \notin admits
    /\ e \in Complete => Whole(s)
    /\ Has(s, {"find"}) => Gate(s, {"find"})
    /\ \A role \in Managing \cap admits : e \notin OrganizationWide(role) =>
          /\ Has(s, {"find", "own", "assigned"}) =>
                role \in managers /\ Gate(s, {"inIds", "assigned"})
          /\ Has(s, Queries) =>
                role \in managers /\ Narrowed(s, {"rowsInIds", "rowsScoped", "rowsOfNamed"})
    /\ "tenant" \in admits /\ e \notin OrganizationWide("tenant") =>
          /\ Has(s, {"find", "own", "assigned"}) => Gate(s, {"own"})
          /\ Has(s, Queries) => Narrowed(s, {"rowsOfOwn", "rowsScoped", "rowsOfNamed"})

HandlerOK(e, h) ==
    /\ h.code \in {200, 201, 204}
    /\ Ordered(e, h.tree \/ h.plan.asserts, h.plan.admits, h.plan.managers, h.plan.steps)

LEMMA Kinds ==
    /\ Unheeded = 0 /\ Late = 1
    /\ Find = [does |-> "find", fails |-> 500]
    /\ GetLeaseScope = [does |-> "find", fails |-> 404]
    /\ ReadIds = [does |-> "ids", fails |-> 500]
    /\ InIds = [does |-> "inIds", fails |-> 500]
    /\ Assigned = [does |-> "assigned", fails |-> 500]
    /\ OwnId = [does |-> "ownId", fails |-> 500]
    /\ Own = [does |-> "own", fails |-> 500]
    /\ Self = [does |-> "self", fails |-> 500]
    /\ Rows = [does |-> "rows", fails |-> 500]
    /\ RowsLate = [does |-> "rows", fails |-> 1]
    /\ RowsInIds = [does |-> "rowsInIds", fails |-> 500]
    /\ RowsUnheeded = [does |-> "rowsInIds", fails |-> 0]
    /\ RowsOfOwn = [does |-> "rowsOfOwn", fails |-> 500]
    /\ RowsScoped = [does |-> "rowsScoped", fails |-> 500]
    /\ RowsOfNamed = [does |-> "rowsOfNamed", fails |-> 500]
    /\ Valid = [does |-> "check", fails |-> 400]
    /\ Governed = [does |-> "check", fails |-> 403]
    /\ Vacant = [does |-> "check", fails |-> 409]
    /\ Unchanged = [does |-> "unchanged", fails |-> 500]
    /\ Store = [does |-> "store", fails |-> 500]
    /\ StoreNew = [does |-> "store", fails |-> 409]
    /\ StoreUnheeded = [does |-> "store", fails |-> 0]
    /\ Reload = [does |-> "read", fails |-> 500]
    /\ ReloadUnheeded = [does |-> "read", fails |-> 0]
    /\ CallGateway = [does |-> "read", fails |-> 500]
BY DEF Unheeded, Late, Stmt, Find, GetLeaseScope, ReadIds, InIds, Assigned,
       OwnId, Own, Self, Rows, RowsLate, RowsInIds, RowsUnheeded, RowsOfOwn,
       RowsScoped, RowsOfNamed, Valid, Governed, Vacant, Unchanged, Store,
       StoreNew, StoreUnheeded, Reload, ReloadUnheeded, CallGateway

LEMMA BuildingsListOK == HandlerOK("BuildingsList", BuildingsListHandler)
<1> DEFINE s == BuildingsList.steps
<1>1. Len(s) = 3 /\ s[1] = RowsLate /\ s[2] = ReadIds /\ s[3] = RowsUnheeded
  BY DEF BuildingsList, Plan
<1>2. Ordered("BuildingsList", TRUE, canReadBuildings, isManager, s)
  <2> HIDE DEF s
  <2> QED
    BY <1>1, Kinds DEF Ordered, Has, Gate, Narrowed, StoresLast, Whole, StmtOK,
           Queries, Telling, Managing, Complete, NamedLists, Dropping,
           RefusingLate, OrganizationWide, canReadBuildings, isManager
<1> QED
  BY <1>2 DEF HandlerOK, BuildingsListHandler, Handler, BuildingsList, Plan

LEMMA BuildingsCreateOK == HandlerOK("BuildingsCreate", BuildingsCreateHandler)
<1> DEFINE s == BuildingsCreate.steps
<1>1. Len(s) = 1 /\ s[1] = Store
  BY DEF BuildingsCreate, Plan
<1>2. Ordered("BuildingsCreate", TRUE, canMutateBuildings \ isManager, isManager, s)
  <2> HIDE DEF s
  <2> QED
    BY <1>1, Kinds DEF Ordered, Has, Gate, Narrowed, StoresLast, Whole, StmtOK,
           Queries, Telling, Managing, Complete, NamedLists, Dropping,
           RefusingLate, OrganizationWide, canMutateBuildings, isManager
<1> QED
  BY <1>2 DEF HandlerOK, BuildingsCreateHandler, Handler, BuildingsCreate, Plan

LEMMA BuildingsGetOK == HandlerOK("BuildingsGet", BuildingsGetHandler)
<1> DEFINE s == BuildingsGet.steps
<1>1. Len(s) = 2 /\ s[1] = Find /\ s[2] = Assigned
  BY DEF BuildingsGet, Plan
<1>2. Ordered("BuildingsGet", TRUE, canReadBuildings, isManager, s)
  <2> HIDE DEF s
  <2> QED
    BY <1>1, Kinds DEF Ordered, Has, Gate, Narrowed, StoresLast, Whole, StmtOK,
           Queries, Telling, Managing, Complete, NamedLists, Dropping,
           RefusingLate, OrganizationWide, canReadBuildings, isManager
<1> QED
  BY <1>2 DEF HandlerOK, BuildingsGetHandler, Handler, BuildingsGet, Plan

LEMMA BuildingsPatchOK == HandlerOK("BuildingsPatch", BuildingsPatchHandler)
<1> DEFINE s == BuildingsPatch.steps
<1>1. Len(s) = 6 /\ s[1] = Find /\ s[2] = Assigned /\ s[3] = Valid
      /\ s[4] = Unchanged /\ s[5] = Store /\ s[6] = Reload
  BY DEF BuildingsPatch, Plan
<1>2. Ordered("BuildingsPatch", TRUE, canMutateBuildings, isManager, s)
  <2> HIDE DEF s
  <2>1. StoresLast(s)
    BY <1>1, Kinds DEF StoresLast
  <2>2. Gate(s, {"find"}) /\ Gate(s, {"inIds", "assigned"})
    BY <1>1, Kinds DEF Gate, Telling
  <2>3. /\ \A i \in 1..Len(s) : StmtOK(s[i]) /\ s[i].fails # Unheeded
        /\ ~Has(s, Queries) /\ ~Has(s, {"rowsScoped"}) /\ ~Has(s, {"rowsOfNamed"})
    BY <1>1, Kinds DEF Has, Queries, StmtOK
  <2> QED
    BY <1>1, <2>1, <2>2, <2>3 DEF Ordered, Managing, Complete, canMutateBuildings, isManager
<1>3. /\ BuildingsPatchHandler.plan = BuildingsPatch /\ BuildingsPatchHandler.tree = TRUE
      /\ BuildingsPatchHandler.code = 200
      /\ BuildingsPatch.admits = canMutateBuildings /\ BuildingsPatch.managers = isManager
  BY DEF BuildingsPatchHandler, Handler, BuildingsPatch, Plan
<1> QED
  BY <1>2, <1>3 DEF HandlerOK

LEMMA BuildingsDeleteOK == HandlerOK("BuildingsDelete", BuildingsDeleteHandler)
<1> DEFINE s == BuildingsDelete.steps
<1>1. Len(s) = 4 /\ s[1] = Find /\ s[2] = Assigned /\ s[3] = Vacant
      /\ s[4] = Store
  BY DEF BuildingsDelete, Plan
<1>2. Ordered("BuildingsDelete", TRUE, canMutateBuildings, isManager, s)
  <2> HIDE DEF s
  <2> QED
    BY <1>1, Kinds DEF Ordered, Has, Gate, Narrowed, StoresLast, Whole, StmtOK,
           Queries, Telling, Managing, Complete, NamedLists, Dropping,
           RefusingLate, OrganizationWide, canMutateBuildings, isManager
<1> QED
  BY <1>2 DEF HandlerOK, BuildingsDeleteHandler, Handler, BuildingsDelete, Plan

LEMMA UnitsListOK == HandlerOK("UnitsList", UnitsListHandler)
<1> DEFINE s == UnitsList.steps
<1>1. Len(s) = 3 /\ s[1] = Find /\ s[2] = Assigned /\ s[3] = RowsOfNamed
  BY DEF UnitsList, Plan, InBuilding, ensureBuilding, ensureManagerBuildingAccess
<1>2. Ordered("UnitsList", TRUE, canReadUnits, isManager, s)
  <2> HIDE DEF s
  <2> QED
    BY <1>1, Kinds DEF Ordered, Has, Gate, Narrowed, StoresLast, Whole, StmtOK,
           Queries, Telling, Managing, Complete, NamedLists, Dropping,
           RefusingLate, OrganizationWide, canReadUnits, isManager
<1> QED
  BY <1>2 DEF HandlerOK, UnitsListHandler, Handler, UnitsList, Plan

LEMMA UnitsCreateOK == HandlerOK("UnitsCreate", UnitsCreateHandler)
<1> DEFINE s == UnitsCreate.steps
<1>1. Len(s) = 3 /\ s[1] = Find /\ s[2] = Assigned /\ s[3] = StoreNew
  BY DEF UnitsCreate, Plan, InBuilding, ensureBuilding, ensureManagerBuildingAccess
<1>2. Ordered("UnitsCreate", TRUE, canMutateUnits, isManager, s)
  <2> HIDE DEF s
  <2> QED
    BY <1>1, Kinds DEF Ordered, Has, Gate, Narrowed, StoresLast, Whole, StmtOK,
           Queries, Telling, Managing, Complete, NamedLists, Dropping,
           RefusingLate, OrganizationWide, canMutateUnits, isManager
<1> QED
  BY <1>2 DEF HandlerOK, UnitsCreateHandler, Handler, UnitsCreate, Plan

LEMMA UnitsGetOK == HandlerOK("UnitsGet", UnitsGetHandler)
<1> DEFINE s == UnitsGet.steps
<1>1. Len(s) = 3 /\ s[1] = Find /\ s[2] = Assigned /\ s[3] = Find
  BY DEF UnitsGet, Plan, InBuilding, ensureBuilding, ensureManagerBuildingAccess
<1>2. Ordered("UnitsGet", TRUE, canReadUnits, isManager, s)
  <2> HIDE DEF s
  <2> QED
    BY <1>1, Kinds DEF Ordered, Has, Gate, Narrowed, StoresLast, Whole, StmtOK,
           Queries, Telling, Managing, Complete, NamedLists, Dropping,
           RefusingLate, OrganizationWide, canReadUnits, isManager
<1> QED
  BY <1>2 DEF HandlerOK, UnitsGetHandler, Handler, UnitsGet, Plan

LEMMA UnitsPatchOK == HandlerOK("UnitsPatch", UnitsPatchHandler)
<1> DEFINE s == UnitsPatch.steps
<1>1. Len(s) = 7 /\ s[1] = Find /\ s[2] = Assigned /\ s[3] = Find
      /\ s[4] = Valid /\ s[5] = Unchanged /\ s[6] = Store /\ s[7] = Reload
  BY DEF UnitsPatch, Plan, InBuilding, ensureBuilding, ensureManagerBuildingAccess
<1>2. Ordered("UnitsPatch", TRUE, canMutateUnits, isManager, s)
  <2> HIDE DEF s
  <2>1. StoresLast(s)
    BY <1>1, Kinds DEF StoresLast
  <2>2. Gate(s, {"find"}) /\ Gate(s, {"inIds", "assigned"})
    BY <1>1, Kinds DEF Gate, Telling
  <2>3. /\ \A i \in 1..Len(s) : StmtOK(s[i]) /\ s[i].fails # Unheeded
        /\ ~Has(s, Queries) /\ ~Has(s, {"rowsScoped"}) /\ ~Has(s, {"rowsOfNamed"})
    BY <1>1, Kinds DEF Has, Queries, StmtOK
  <2> QED
    BY <1>1, <2>1, <2>2, <2>3 DEF Ordered, Managing, Complete, canMutateUnits, isManager
<1>3. /\ UnitsPatchHandler.plan = UnitsPatch /\ UnitsPatchHandler.tree = TRUE
      /\ UnitsPatchHandler.code = 200
      /\ UnitsPatch.admits = canMutateUnits /\ UnitsPatch.managers = isManager
  BY DEF UnitsPatchHandler, Handler, UnitsPatch, Plan
<1> QED
  BY <1>2, <1>3 DEF HandlerOK

LEMMA UnitsDeleteOK == HandlerOK("UnitsDelete", UnitsDeleteHandler)
<1> DEFINE s == UnitsDelete.steps
<1>1. Len(s) = 5 /\ s[1] = Find /\ s[2] = Assigned /\ s[3] = Find
      /\ s[4] = Vacant /\ s[5] = Store
  BY DEF UnitsDelete, Plan, InBuilding, ensureBuilding, ensureManagerBuildingAccess
<1>2. Ordered("UnitsDelete", TRUE, canMutateUnits, isManager, s)
  <2> HIDE DEF s
  <2> QED
    BY <1>1, Kinds DEF Ordered, Has, Gate, Narrowed, StoresLast, Whole, StmtOK,
           Queries, Telling, Managing, Complete, NamedLists, Dropping,
           RefusingLate, OrganizationWide, canMutateUnits, isManager
<1> QED
  BY <1>2 DEF HandlerOK, UnitsDeleteHandler, Handler, UnitsDelete, Plan

LEMMA TenantsListOK == HandlerOK("TenantsList", TenantsListHandler)
<1> DEFINE s == TenantsList.steps
<1>1. Len(s) = 5 /\ s[1] = RowsLate /\ s[2] = ReadIds /\ s[3] = RowsInIds
      /\ s[4] = OwnId /\ s[5] = RowsOfOwn
  BY DEF TenantsList, Plan
<1>2. Ordered("TenantsList", TRUE, canReadTenants, isManager, s)
  <2> HIDE DEF s
  <2> QED
    BY <1>1, Kinds DEF Ordered, Has, Gate, Narrowed, StoresLast, Whole, StmtOK,
           Queries, Telling, Managing, Complete, NamedLists, Dropping,
           RefusingLate, OrganizationWide, canReadTenants, isManager
<1> QED
  BY <1>2 DEF HandlerOK, TenantsListHandler, Handler, TenantsList, Plan

LEMMA TenantsCreateOK == HandlerOK("TenantsCreate", TenantsCreateHandler)
<1> DEFINE s == TenantsCreate.steps
<1>1. Len(s) = 5 /\ s[1] = Store /\ s[2] = Vacant /\ s[3] = Store
      /\ s[4] = Store /\ s[5] = StoreUnheeded
  BY DEF TenantsCreate, Plan
<1>2. Ordered("TenantsCreate", TRUE, canMutateTenants, isManager, s)
  <2> HIDE DEF s
  <2> QED
    BY <1>1, Kinds DEF Ordered, Has, Gate, Narrowed, StoresLast, Whole, StmtOK,
           Queries, Telling, Managing, Complete, NamedLists, Dropping,
           RefusingLate, OrganizationWide, canMutateTenants, isManager
<1> QED
  BY <1>2 DEF HandlerOK, TenantsCreateHandler, Handler, TenantsCreate, Plan

LEMMA TenantsGetOK == HandlerOK("TenantsGet", TenantsGetHandler)
<1> DEFINE s == TenantsGet.steps
<1>1. Len(s) = 4 /\ s[1] = Find /\ s[2] = ReadIds /\ s[3] = InIds /\ s[4] = Own
  BY DEF TenantsGet, Plan
<1>2. Ordered("TenantsGet", TRUE, canReadTenants, isManager, s)
  <2> HIDE DEF s
  <2> QED
    BY <1>1, Kinds DEF Ordered, Has, Gate, Narrowed, StoresLast, Whole, StmtOK,
           Queries, Telling, Managing, Complete, NamedLists, Dropping,
           RefusingLate, OrganizationWide, canReadTenants, isManager
<1> QED
  BY <1>2 DEF HandlerOK, TenantsGetHandler, Handler, TenantsGet, Plan

LEMMA TenantsPatchOK == HandlerOK("TenantsPatch", TenantsPatchHandler)
<1> DEFINE s == TenantsPatch.steps
<1>1. Len(s) = 5 /\ s[1] = Find /\ s[2] = Valid /\ s[3] = Unchanged
      /\ s[4] = Store /\ s[5] = Reload
  BY DEF TenantsPatch, Plan
<1>2. Ordered("TenantsPatch", TRUE, canMutateTenants, isManager, s)
  <2> HIDE DEF s
  <2> QED
    BY <1>1, Kinds DEF Ordered, Has, Gate, Narrowed, StoresLast, Whole, StmtOK,
           Queries, Telling, Managing, Complete, NamedLists, Dropping,
           RefusingLate, OrganizationWide, canMutateTenants, isManager
<1> QED
  BY <1>2 DEF HandlerOK, TenantsPatchHandler, Handler, TenantsPatch, Plan

LEMMA TenantsDeleteOK == HandlerOK("TenantsDelete", TenantsDeleteHandler)
<1> DEFINE s == TenantsDelete.steps
<1>1. Len(s) = 3 /\ s[1] = Find /\ s[2] = Vacant /\ s[3] = Store
  BY DEF TenantsDelete, Plan
<1>2. Ordered("TenantsDelete", TRUE, canMutateTenants, isManager, s)
  <2> HIDE DEF s
  <2> QED
    BY <1>1, Kinds DEF Ordered, Has, Gate, Narrowed, StoresLast, Whole, StmtOK,
           Queries, Telling, Managing, Complete, NamedLists, Dropping,
           RefusingLate, OrganizationWide, canMutateTenants, isManager
<1> QED
  BY <1>2 DEF HandlerOK, TenantsDeleteHandler, Handler, TenantsDelete, Plan

LEMMA UsersListOK == HandlerOK("UsersList", UsersListHandler)
<1> DEFINE s == UsersList.steps
<1>1. Len(s) = 1 /\ s[1] = Rows
  BY DEF UsersList, Plan
<1>2. Ordered("UsersList", TRUE, canManageUsers, {}, s)
  <2> HIDE DEF s
  <2> QED
    BY <1>1, Kinds DEF Ordered, Has, Gate, Narrowed, StoresLast, Whole, StmtOK,
           Queries, Telling, Managing, Complete, NamedLists, Dropping,
           RefusingLate, OrganizationWide, canManageUsers
<1> QED
  BY <1>2 DEF HandlerOK, UsersListHandler, Handler, UsersList, Plan

LEMMA UsersCreateOK == HandlerOK("UsersCreate", UsersCreateHandler)
<1> DEFINE s == UsersCreate.steps
<1>1. Len(s) = 6 /\ s[1] = Valid /\ s[2] = Governed /\ s[3] = Vacant
      /\ s[4] = StoreNew /\ s[5] = Valid /\ s[6] = Store
  BY DEF UsersCreate, Plan
<1>2. Ordered("UsersCreate", TRUE, canManageUsers, {}, s)
  <2> HIDE DEF s
  <2> QED
    BY <1>1, Kinds DEF Ordered, Has, Gate, Narrowed, StoresLast, Whole, StmtOK,
           Queries, Telling, Managing, Complete, NamedLists, Dropping,
           RefusingLate, OrganizationWide, canManageUsers
<1> QED
  BY <1>2 DEF HandlerOK, UsersCreateHandler, Handler, UsersCreate, Plan

LEMMA UsersPatchOK == HandlerOK("UsersPatch", UsersPatchHandler)
<1> DEFINE s == UsersPatch.steps
<1>1. Len(s) = 9 /\ s[1] = Find /\ s[2] = Governed /\ s[3] = Vacant
      /\ s[4] = Valid /\ s[5] = Unchanged /\ s[6] = Store /\ s[7] = Reload
      /\ s[8] = Valid /\ s[9] = Store
  BY DEF UsersPatch, Plan
<1>2. Ordered("UsersPatch", TRUE, canManageUsers, {}, s)
  <2> HIDE DEF s
  <2>1. Gate(s, {"find"})
    BY <1>1, Kinds DEF Gate, Telling
  <2>2. /\ \A i \in 1..Len(s) : StmtOK(s[i]) /\ s[i].fails # Unheeded
        /\ ~Has(s, Queries) /\ ~Has(s, {"rowsScoped"}) /\ ~Has(s, {"rowsOfNamed"})
    BY <1>1, Kinds DEF Has, Queries, StmtOK
  <2> QED
    BY <1>1, <2>1, <2>2 DEF Ordered, RefusingLate, Complete, OrganizationWide, canManageUsers
<1>3. /\ UsersPatchHandler.plan = UsersPatch /\ UsersPatchHandler.tree = TRUE
      /\ UsersPatchHandler.code = 200
      /\ UsersPatch.admits = canManageUsers /\ UsersPatch.managers = {}
  BY DEF UsersPatchHandler, Handler, UsersPatch, Plan
<1> QED
  BY <1>2, <1>3 DEF HandlerOK

LEMMA OrganizationsCreateOK ==
    HandlerOK("OrganizationsCreate", OrganizationsCreateHandler)
<1> DEFINE s == OrganizationsCreate.steps
<1>1. Len(s) = 3 /\ s[1] = Valid /\ s[2] = Vacant /\ s[3] = StoreNew
  BY DEF OrganizationsCreate, Plan
<1>2. Ordered("OrganizationsCreate", FALSE, isAdmin, {}, s)
  <2> HIDE DEF s
  <2> QED
    BY <1>1, Kinds DEF Ordered, Has, Gate, Narrowed, StoresLast, Whole, StmtOK,
           Queries, Telling, Managing, Complete, NamedLists, Dropping,
           RefusingLate, OrganizationWide, isAdmin
<1> QED
  BY <1>2 DEF HandlerOK, OrganizationsCreateHandler, Handler,
         OrganizationsCreate, Plan

LEMMA OrganizationsGetOK == HandlerOK("OrganizationsGet", OrganizationsGetHandler)
<1> DEFINE s == OrganizationsGet.steps
<1>1. Len(s) = 1 /\ s[1] = Find
  BY DEF OrganizationsGet, Plan
<1>2. Ordered("OrganizationsGet", TRUE, AllRoles, {}, s)
  <2> HIDE DEF s
  <2> QED
    BY <1>1, Kinds DEF Ordered, Has, Gate, Narrowed, StoresLast, Whole, StmtOK,
           Queries, Telling, Managing, Complete, NamedLists, Dropping,
           RefusingLate, OrganizationWide, AllRoles
<1> QED
  BY <1>2 DEF HandlerOK, OrganizationsGetHandler, Handler, OrganizationsGet,
         Plan

LEMMA OrganizationsPatchOK == HandlerOK("OrganizationsPatch", OrganizationsPatchHandler)
<1> DEFINE s == OrganizationsPatch.steps
<1>1. Len(s) = 5 /\ s[1] = Find /\ s[2] = Valid /\ s[3] = Unchanged
      /\ s[4] = Store /\ s[5] = Reload
  BY DEF OrganizationsPatch, Plan
<1>2. Ordered("OrganizationsPatch", TRUE, canPatchOrganization, {}, s)
  <2> HIDE DEF s
  <2> QED
    BY <1>1, Kinds DEF Ordered, Has, Gate, Narrowed, StoresLast, Whole, StmtOK,
           Queries, Telling, Managing, Complete, NamedLists, Dropping,
           RefusingLate, OrganizationWide, canPatchOrganization
<1> QED
  BY <1>2 DEF HandlerOK, OrganizationsPatchHandler, Handler, OrganizationsPatch,
         Plan

LEMMA MeOK == HandlerOK("Me", MeHandler)
<1> DEFINE s == Me.steps
<1>1. Len(s) = 1 /\ s[1] = Self
  BY DEF Me, Plan
<1>2. Ordered("Me", FALSE, AllRoles, {}, s)
  <2> HIDE DEF s
  <2> QED
    BY <1>1, Kinds DEF Ordered, Has, Gate, Narrowed, StoresLast, Whole, StmtOK,
           Queries, Telling, Managing, Complete, NamedLists, Dropping,
           RefusingLate, OrganizationWide, AllRoles
<1> QED
  BY <1>2 DEF HandlerOK, MeHandler, Handler, Me, Plan

LEMMA LeasesListOK == HandlerOK("LeasesList", LeasesListHandler)
<1> DEFINE s == LeasesList.steps
<1>1. Len(s) = 3 /\ s[1] = ReadIds /\ s[2] = OwnId /\ s[3] = RowsScoped
  BY DEF LeasesList, Plan
<1>2. Ordered("LeasesList", TRUE, canReadLeases, isManagerRole, s)
  <2> HIDE DEF s
  <2> QED
    BY <1>1, Kinds DEF Ordered, Has, Gate, Narrowed, StoresLast, Whole, StmtOK,
           Queries, Telling, Managing, Complete, NamedLists, Dropping,
           RefusingLate, OrganizationWide, canReadLeases, isManagerRole,
           AllRoles
<1> QED
  BY <1>2 DEF HandlerOK, LeasesListHandler, Handler, LeasesList, Plan

LEMMA LeasesCreateOK == HandlerOK("LeasesCreate", LeasesCreateHandler)
<1> DEFINE s == LeasesCreate.steps
<1>1. Len(s) = 7 /\ s[1] = Valid /\ s[2] = Find /\ s[3] = ReadIds
      /\ s[4] = InIds /\ s[5] = Vacant /\ s[6] = Store /\ s[7] = Store
  BY DEF LeasesCreate, Plan, managerCanAccessUnit, syncUnitOccupancy
<1>2. Ordered("LeasesCreate", TRUE, canMutateLeases, isManagerRole, s)
  <2> HIDE DEF s
  <2>1. StoresLast(s)
    BY <1>1, Kinds DEF StoresLast
  <2>2. Gate(s, {"find"}) /\ Gate(s, {"inIds", "assigned"})
    BY <1>1, Kinds DEF Gate, Telling
  <2>3. /\ \A i \in 1..Len(s) : StmtOK(s[i]) /\ s[i].fails # Unheeded
        /\ ~Has(s, Queries) /\ ~Has(s, {"rowsScoped"}) /\ ~Has(s, {"rowsOfNamed"})
    BY <1>1, Kinds DEF Has, Queries, StmtOK
  <2> QED
    BY <1>1, <2>1, <2>2, <2>3 DEF Ordered, Managing, Complete, canMutateLeases, isManagerRole
<1>3. /\ LeasesCreateHandler.plan = LeasesCreate /\ LeasesCreateHandler.tree = TRUE
      /\ LeasesCreateHandler.code = 201
      /\ LeasesCreate.admits = canMutateLeases /\ LeasesCreate.managers = isManagerRole
  BY DEF LeasesCreateHandler, Handler, LeasesCreate, Plan
<1> QED
  BY <1>2, <1>3 DEF HandlerOK

LEMMA LeasesGetOK == HandlerOK("LeasesGet", LeasesGetHandler)
<1> DEFINE s == LeasesGet.steps
<1>1. Len(s) = 4 /\ s[1] = Find /\ s[2] = ReadIds /\ s[3] = InIds /\ s[4] = Own
  BY DEF LeasesGet, Plan, managerCanAccessUnit
<1>2. Ordered("LeasesGet", TRUE, canReadLeases, isManagerRole, s)
  <2> HIDE DEF s
  <2> QED
    BY <1>1, Kinds DEF Ordered, Has, Gate, Narrowed, StoresLast, Whole, StmtOK,
           Queries, Telling, Managing, Complete, NamedLists, Dropping,
           RefusingLate, OrganizationWide, canReadLeases, isManagerRole,
           AllRoles
<1> QED
  BY <1>2 DEF HandlerOK, LeasesGetHandler, Handler, LeasesGet, Plan

LEMMA LeasesPatchOK == HandlerOK("LeasesPatch", LeasesPatchHandler)
<1> DEFINE s == LeasesPatch.steps
<1>1. Len(s) = 13 /\ s[1] = Find /\ s[2] = ReadIds /\ s[3] = InIds
      /\ s[4] = Valid /\ s[5] = ReadIds /\ s[6] = InIds /\ s[7] = Valid
      /\ s[8] = Vacant /\ s[9] = Unchanged /\ s[10] = Store /\ s[11] = Reload
      /\ s[12] = Store /\ s[13] = Store
  BY DEF LeasesPatch, Plan, managerCanAccessUnit, syncUnitOccupancy
<1>2. Ordered("LeasesPatch", TRUE, canMutateLeases, isManagerRole, s)
  <2> HIDE DEF s
  <2>1. StoresLast(s)
    <3>1. \A i \in 1..Len(s) :
            /\ i < 10 => s[i].does # "store"
            /\ i > 10 => s[i].does \in {"store", "read"} /\ s[i].fails \in {Unheeded, 500}
      BY <1>1, Kinds
    <3>2. 10 \in 1..Len(s)
      BY <1>1
    <3> QED
      BY <3>1, <3>2 DEF StoresLast
  <2>2. Gate(s, {"find"}) /\ Gate(s, {"inIds", "assigned"})
    <3>1. Gate(s, {"find"})
      BY <1>1, Kinds DEF Gate, Telling
    <3>2. Gate(s, {"inIds", "assigned"})
      BY <1>1, Kinds DEF Gate, Telling
    <3> QED
      BY <3>1, <3>2
  <2>3. /\ \A i \in 1..Len(s) : StmtOK(s[i]) /\ s[i].fails # Unheeded
        /\ ~Has(s, Queries) /\ ~Has(s, {"rowsScoped"}) /\ ~Has(s, {"rowsOfNamed"})
    BY <1>1, Kinds DEF Has, Queries, StmtOK
  <2> QED
    BY <1>1, <2>1, <2>2, <2>3 DEF Ordered, Managing, Complete, canMutateLeases, isManagerRole
<1>3. /\ LeasesPatchHandler.plan = LeasesPatch /\ LeasesPatchHandler.tree = TRUE
      /\ LeasesPatchHandler.code = 200
      /\ LeasesPatch.admits = canMutateLeases /\ LeasesPatch.managers = isManagerRole
  BY DEF LeasesPatchHandler, Handler, LeasesPatch, Plan
<1> QED
  BY <1>2, <1>3 DEF HandlerOK

LEMMA LeasesEndOK == HandlerOK("LeasesEnd", LeasesEndHandler)
<1> DEFINE s == LeasesEnd.steps
<1>1. Len(s) = 7 /\ s[1] = Find /\ s[2] = ReadIds /\ s[3] = InIds
      /\ s[4] = Valid /\ s[5] = Store /\ s[6] = Reload /\ s[7] = Store
  BY DEF LeasesEnd, Plan, managerCanAccessUnit, syncUnitOccupancy
<1>2. Ordered("LeasesEnd", TRUE, canMutateLeases, isManagerRole, s)
  <2> HIDE DEF s
  <2>1. StoresLast(s)
    BY <1>1, Kinds DEF StoresLast
  <2>2. Gate(s, {"find"}) /\ Gate(s, {"inIds", "assigned"})
    BY <1>1, Kinds DEF Gate, Telling
  <2>3. /\ \A i \in 1..Len(s) : StmtOK(s[i]) /\ s[i].fails # Unheeded
        /\ ~Has(s, Queries) /\ ~Has(s, {"rowsScoped"}) /\ ~Has(s, {"rowsOfNamed"})
    BY <1>1, Kinds DEF Has, Queries, StmtOK
  <2> QED
    BY <1>1, <2>1, <2>2, <2>3 DEF Ordered, Managing, Complete, canMutateLeases, isManagerRole
<1>3. /\ LeasesEndHandler.plan = LeasesEnd /\ LeasesEndHandler.tree = TRUE
      /\ LeasesEndHandler.code = 200
      /\ LeasesEnd.admits = canMutateLeases /\ LeasesEnd.managers = isManagerRole
  BY DEF LeasesEndHandler, Handler, LeasesEnd, Plan
<1> QED
  BY <1>2, <1>3 DEF HandlerOK

LEMMA LeasesApproveOK == HandlerOK("LeasesApprove", LeasesApproveHandler)
<1> DEFINE s == LeasesApprove.steps
<1>1. Len(s) = 5 /\ s[1] = Find /\ s[2] = Own /\ s[3] = Store /\ s[4] = Reload
      /\ s[5] = Store
  BY DEF LeasesApprove, Plan, syncUnitOccupancy
<1>2. Ordered("LeasesApprove", TRUE, isTenantRole, isManagerRole, s)
  <2> HIDE DEF s
  <2> QED
    BY <1>1, Kinds DEF Ordered, Has, Gate, Narrowed, StoresLast, Whole, StmtOK,
           Queries, Telling, Managing, Complete, NamedLists, Dropping,
           RefusingLate, OrganizationWide, isTenantRole, isManagerRole
<1> QED
  BY <1>2 DEF HandlerOK, LeasesApproveHandler, Handler, LeasesApprove, Plan

LEMMA LeasesRejectOK == HandlerOK("LeasesReject", LeasesRejectHandler)
<1> DEFINE s == LeasesReject.steps
<1>1. Len(s) = 5 /\ s[1] = Find /\ s[2] = Own /\ s[3] = Store /\ s[4] = Reload
      /\ s[5] = Store
  BY DEF LeasesReject, Plan, syncUnitOccupancy
<1>2. Ordered("LeasesReject", TRUE, isTenantRole, isManagerRole, s)
  <2> HIDE DEF s
  <2> QED
    BY <1>1, Kinds DEF Ordered, Has, Gate, Narrowed, StoresLast, Whole, StmtOK,
           Queries, Telling, Managing, Complete, NamedLists, Dropping,
           RefusingLate, OrganizationWide, isTenantRole, isManagerRole
<1> QED
  BY <1>2 DEF HandlerOK, LeasesRejectHandler, Handler, LeasesReject, Plan

LEMMA LeasesHistoryOK == HandlerOK("LeasesHistory", LeasesHistoryHandler)
<1> DEFINE s == LeasesHistory.steps
<1>1. Len(s) = 5 /\ s[1] = Find /\ s[2] = ReadIds /\ s[3] = InIds /\ s[4] = Own
      /\ s[5] = RowsOfNamed
  BY DEF LeasesHistory, Plan, managerCanAccessUnit
<1>2. Ordered("LeasesHistory", TRUE, canReadLeases, isManagerRole, s)
  <2> HIDE DEF s
  <2>1. StoresLast(s) /\ Gate(s, {"find"})
    BY <1>1, Kinds DEF StoresLast, Gate, Telling
  <2>2. Gate(s, {"inIds", "assigned"}) /\ Gate(s, {"own"})
    BY <1>1, Kinds DEF Gate, Telling
  <2>3. /\ Narrowed(s, {"rowsInIds", "rowsScoped", "rowsOfNamed"})
        /\ Narrowed(s, {"rowsOfOwn", "rowsScoped", "rowsOfNamed"})
    BY <1>1, Kinds DEF Narrowed, Telling
  <2>4. /\ \A i \in 1..Len(s) : StmtOK(s[i]) /\ s[i].fails # Unheeded
        /\ ~Has(s, {"rowsScoped"}) /\ Has(s, {"find", "own", "assigned"})
    BY <1>1, Kinds DEF Has, StmtOK
  <2> QED
    BY <1>1, <2>1, <2>2, <2>3, <2>4
    DEF Ordered, Managing, Complete, NamedLists, canReadLeases, isManagerRole
<1>3. /\ LeasesHistoryHandler.plan = LeasesHistory /\ LeasesHistoryHandler.tree = TRUE
      /\ LeasesHistoryHandler.code = 200
      /\ LeasesHistory.admits = canReadLeases /\ LeasesHistory.managers = isManagerRole
  BY DEF LeasesHistoryHandler, Handler, LeasesHistory, Plan
<1> QED
  BY <1>2, <1>3 DEF HandlerOK

LEMMA LeasesCreateRenewalOfferOK ==
    HandlerOK("LeasesCreateRenewalOffer", LeasesCreateRenewalOfferHandler)
<1> DEFINE s == LeasesCreateRenewalOffer.steps
<1>1. Len(s) = 4 /\ s[1] = Find /\ s[2] = ReadIds /\ s[3] = InIds
      /\ s[4] = Store
  BY DEF LeasesCreateRenewalOffer, Plan, managerCanAccessUnit
<1>2. Ordered("LeasesCreateRenewalOffer", TRUE, canMutateLeases, isManagerRole, s)
  <2> HIDE DEF s
  <2> QED
    BY <1>1, Kinds DEF Ordered, Has, Gate, Narrowed, StoresLast, Whole, StmtOK,
           Queries, Telling, Managing, Complete, NamedLists, Dropping,
           RefusingLate, OrganizationWide, canMutateLeases, isManagerRole
<1> QED
  BY <1>2 DEF HandlerOK, LeasesCreateRenewalOfferHandler, Handler,
         LeasesCreateRenewalOffer, Plan

LEMMA LeasesAcceptRenewalOfferOK ==
    HandlerOK("LeasesAcceptRenewalOffer", LeasesAcceptRenewalOfferHandler)
<1> DEFINE s == LeasesAcceptRenewalOffer.steps
<1>1. Len(s) = 9 /\ s[1] = Find /\ s[2] = Own /\ s[3] = Find /\ s[4] = Valid
      /\ s[5] = Store /\ s[6] = StoreUnheeded /\ s[7] = Store /\ s[8] = Store
      /\ s[9] = ReloadUnheeded
  BY DEF LeasesAcceptRenewalOffer, Plan, syncUnitOccupancy
<1>2. Ordered("LeasesAcceptRenewalOffer", TRUE, isTenantRole, isManagerRole, s)
  <2> HIDE DEF s
  <2>1. StoresLast(s)
    BY <1>1, Kinds DEF StoresLast
  <2>2. Gate(s, {"find"}) /\ Gate(s, {"own"})
    BY <1>1, Kinds DEF Gate, Telling
  <2>3. /\ \A i \in 1..Len(s) : StmtOK(s[i])
        /\ ~Has(s, Queries) /\ ~Has(s, {"rowsScoped"}) /\ ~Has(s, {"rowsOfNamed"})
    BY <1>1, Kinds DEF Has, Queries, StmtOK
  <2> QED
    BY <1>1, <2>1, <2>2, <2>3 DEF Ordered, Managing, Complete, Dropping,
           isTenantRole, isManagerRole
<1>3. /\ LeasesAcceptRenewalOfferHandler.plan = LeasesAcceptRenewalOffer
      /\ LeasesAcceptRenewalOfferHandler.tree = TRUE
      /\ LeasesAcceptRenewalOfferHandler.code = 200
      /\ LeasesAcceptRenewalOffer.admits = isTenantRole
      /\ LeasesAcceptRenewalOffer.managers = isManagerRole
  BY DEF LeasesAcceptRenewalOfferHandler, Handler, LeasesAcceptRenewalOffer, Plan
<1> QED
  BY <1>2, <1>3 DEF HandlerOK

LEMMA LeasesRejectRenewalOfferOK ==
    HandlerOK("LeasesRejectRenewalOffer", LeasesRejectRenewalOfferHandler)
<1> DEFINE s == LeasesRejectRenewalOffer.steps
<1>1. Len(s) = 5 /\ s[1] = Find /\ s[2] = Own /\ s[3] = Find /\ s[4] = Store
      /\ s[5] = ReloadUnheeded
  BY DEF LeasesRejectRenewalOffer, Plan
<1>2. Ordered("LeasesRejectRenewalOffer", TRUE, isTenantRole, isManagerRole, s)
  <2> HIDE DEF s
  <2>1. StoresLast(s)
    BY <1>1, Kinds DEF StoresLast
  <2>2. Gate(s, {"find"}) /\ Gate(s, {"own"})
    BY <1>1, Kinds DEF Gate, Telling
  <2>3. /\ \A i \in 1..Len(s) : StmtOK(s[i])
        /\ ~Has(s, Queries) /\ ~Has(s, {"rowsScoped"}) /\ ~Has(s, {"rowsOfNamed"})
    BY <1>1, Kinds DEF Has, Queries, StmtOK
  <2> QED
    BY <1>1, <2>1, <2>2, <2>3 DEF Ordered, Managing, Complete, Dropping,
           isTenantRole, isManagerRole
<1>3. /\ LeasesRejectRenewalOfferHandler.plan = LeasesRejectRenewalOffer
      /\ LeasesRejectRenewalOfferHandler.tree = TRUE
      /\ LeasesRejectRenewalOfferHandler.code = 200
      /\ LeasesRejectRenewalOffer.admits = isTenantRole
      /\ LeasesRejectRenewalOffer.managers = isManagerRole
  BY DEF LeasesRejectRenewalOfferHandler, Handler, LeasesRejectRenewalOffer, Plan
<1> QED
  BY <1>2, <1>3 DEF HandlerOK

LEMMA LeasesCloseoutOK == HandlerOK("LeasesCloseout", LeasesCloseoutHandler)
<1> DEFINE s == LeasesCloseout.steps
<1>1. Len(s) = 6 /\ s[1] = Find /\ s[2] = ReadIds /\ s[3] = InIds
      /\ s[4] = Store /\ s[5] = Store /\ s[6] = Store
  BY DEF LeasesCloseout, Plan, managerCanAccessUnit, syncUnitOccupancy
<1>2. Ordered("LeasesCloseout", TRUE, canMutateLeases, isManagerRole, s)
  <2> HIDE DEF s
  <2>1. StoresLast(s)
    BY <1>1, Kinds DEF StoresLast
  <2>2. Gate(s, {"find"}) /\ Gate(s, {"inIds", "assigned"})
    BY <1>1, Kinds DEF Gate, Telling
  <2>3. /\ \A i \in 1..Len(s) : StmtOK(s[i]) /\ s[i].fails # Unheeded
        /\ ~Has(s, Queries) /\ ~Has(s, {"rowsScoped"}) /\ ~Has(s, {"rowsOfNamed"})
    BY <1>1, Kinds DEF Has, Queries, StmtOK
  <2> QED
    BY <1>1, <2>1, <2>2, <2>3 DEF Ordered, Managing, Complete, canMutateLeases, isManagerRole
<1>3. /\ LeasesCloseoutHandler.plan = LeasesCloseout /\ LeasesCloseoutHandler.tree = TRUE
      /\ LeasesCloseoutHandler.code = 201
      /\ LeasesCloseout.admits = canMutateLeases /\ LeasesCloseout.managers = isManagerRole
  BY DEF LeasesCloseoutHandler, Handler, LeasesCloseout, Plan
<1> QED
  BY <1>2, <1>3 DEF HandlerOK

LEMMA LeasesTenantStatementOK ==
    HandlerOK("LeasesTenantStatement", LeasesTenantStatementHandler)
<1> DEFINE s == LeasesTenantStatement.steps
<1>1. Len(s) = 2 /\ s[1] = Own /\ s[2] = RowsOfNamed
  BY DEF LeasesTenantStatement, Plan
<1>2. Ordered("LeasesTenantStatement", TRUE, canReadLeases, isManagerRole, s)
  <2> HIDE DEF s
  <2> QED
    BY <1>1, Kinds DEF Ordered, Has, Gate, Narrowed, StoresLast, Whole, StmtOK,
           Queries, Telling, Managing, Complete, NamedLists, Dropping,
           RefusingLate, OrganizationWide, canReadLeases, isManagerRole,
           AllRoles
<1> QED
  BY <1>2 DEF HandlerOK, LeasesTenantStatementHandler, Handler,
         LeasesTenantStatement, Plan

LEMMA LeasesTenantStatementExportOK ==
    HandlerOK("LeasesTenantStatementExport", LeasesTenantStatementExportHandler)
<1> DEFINE s == LeasesTenantStatement.steps
<1>1. Len(s) = 2 /\ s[1] = Own /\ s[2] = RowsOfNamed
  BY DEF LeasesTenantStatement, Plan
<1>2. Ordered("LeasesTenantStatementExport", TRUE, canReadLeases, isManagerRole, s)
  <2> HIDE DEF s
  <2> QED
    BY <1>1, Kinds DEF Ordered, Has, Gate, Narrowed, StoresLast, Whole, StmtOK,
           Queries, Telling, Managing, Complete, NamedLists, Dropping,
           RefusingLate, OrganizationWide, canReadLeases, isManagerRole,
           AllRoles
<1> QED
  BY <1>2 DEF HandlerOK, LeasesTenantStatementExportHandler, Handler,
         LeasesTenantStatement, Plan

LEMMA PaymentsInitiateOK == HandlerOK("PaymentsInitiate", PaymentsInitiateHandler)
<1> DEFINE s == PaymentsInitiate.steps
<1>1. Len(s) = 6 /\ s[1] = GetLeaseScope /\ s[2] = Own /\ s[3] = ReadIds
      /\ s[4] = InIds /\ s[5] = Store /\ s[6] = StoreUnheeded
  BY DEF PaymentsInitiate, Plan
<1>2. Ordered("PaymentsInitiate", TRUE, canInitiatePayments, isManager, s)
  <2> HIDE DEF s
  <2>1. StoresLast(s)
    BY <1>1, Kinds DEF StoresLast
  <2>2. Gate(s, {"find"}) /\ Gate(s, {"inIds", "assigned"}) /\ Gate(s, {"own"})
    BY <1>1, Kinds DEF Gate, Telling
  <2>3. /\ \A i \in 1..Len(s) : StmtOK(s[i])
        /\ ~Has(s, Queries) /\ ~Has(s, {"rowsScoped"}) /\ ~Has(s, {"rowsOfNamed"})
    BY <1>1, Kinds DEF Has, Queries, StmtOK
  <2> QED
    BY <1>1, <2>1, <2>2, <2>3 DEF Ordered, Managing, Complete, Dropping,
           OrganizationWide, canInitiatePayments, isManager
<1>3. /\ PaymentsInitiateHandler.plan = PaymentsInitiate /\ PaymentsInitiateHandler.tree = TRUE
      /\ PaymentsInitiateHandler.code = 201
      /\ PaymentsInitiate.admits = canInitiatePayments /\ PaymentsInitiate.managers = isManager
  BY DEF PaymentsInitiateHandler, Handler, PaymentsInitiate, Plan
<1> QED
  BY <1>2, <1>3 DEF HandlerOK

LEMMA PaymentsRecordManualOK ==
    HandlerOK("PaymentsRecordManual", PaymentsRecordManualHandler)
<1> DEFINE s == PaymentsRecordManual.steps
<1>1. Len(s) = 4 /\ s[1] = GetLeaseScope /\ s[2] = ReadIds /\ s[3] = InIds
      /\ s[4] = Store
  BY DEF PaymentsRecordManual, Plan
<1>2. Ordered("PaymentsRecordManual", TRUE, canMutatePayments, isManager, s)
  <2> HIDE DEF s
  <2> QED
    BY <1>1, Kinds DEF Ordered, Has, Gate, Narrowed, StoresLast, Whole, StmtOK,
           Queries, Telling, Managing, Complete, NamedLists, Dropping,
           RefusingLate, OrganizationWide, canMutatePayments, isManager
<1> QED
  BY <1>2 DEF HandlerOK, PaymentsRecordManualHandler, Handler,
         PaymentsRecordManual, Plan

LEMMA PaymentsSummaryOK == HandlerOK("PaymentsSummary", PaymentsSummaryHandler)
<1> DEFINE s == PaymentsSummary.steps
<1>1. Len(s) = 1 /\ s[1] = Rows
  BY DEF PaymentsSummary, Plan
<1>2. Ordered("PaymentsSummary", TRUE, canReadPayments, isManager, s)
  <2> HIDE DEF s
  <2> QED
    BY <1>1, Kinds DEF Ordered, Has, Gate, Narrowed, StoresLast, Whole, StmtOK,
           Queries, Telling, Managing, Complete, NamedLists, Dropping,
           RefusingLate, OrganizationWide, canReadPayments, isManager
<1> QED
  BY <1>2 DEF HandlerOK, PaymentsSummaryHandler, Handler, PaymentsSummary, Plan

LEMMA PaymentsMethodSplitOK ==
    HandlerOK("PaymentsMethodSplit", PaymentsMethodSplitHandler)
<1> DEFINE s == PaymentsMethodSplit.steps
<1>1. Len(s) = 1 /\ s[1] = Rows
  BY DEF PaymentsMethodSplit, Plan
<1>2. Ordered("PaymentsMethodSplit", TRUE, canReadPayments, isManager, s)
  <2> HIDE DEF s
  <2> QED
    BY <1>1, Kinds DEF Ordered, Has, Gate, Narrowed, StoresLast, Whole, StmtOK,
           Queries, Telling, Managing, Complete, NamedLists, Dropping,
           RefusingLate, OrganizationWide, canReadPayments, isManager
<1> QED
  BY <1>2 DEF HandlerOK, PaymentsMethodSplitHandler, Handler,
         PaymentsMethodSplit, Plan

LEMMA PaymentsReminderCandidatesOK ==
    HandlerOK("PaymentsReminderCandidates", PaymentsReminderCandidatesHandler)
<1> DEFINE s == PaymentsReminderCandidates.steps
<1>1. Len(s) = 1 /\ s[1] = Rows
  BY DEF PaymentsReminderCandidates, Plan
<1>2. Ordered("PaymentsReminderCandidates", TRUE, canReadPayments, isManager, s)
  <2> HIDE DEF s
  <2> QED
    BY <1>1, Kinds DEF Ordered, Has, Gate, Narrowed, StoresLast, Whole, StmtOK,
           Queries, Telling, Managing, Complete, NamedLists, Dropping,
           RefusingLate, OrganizationWide, canReadPayments, isManager
<1> QED
  BY <1>2 DEF HandlerOK, PaymentsReminderCandidatesHandler, Handler,
         PaymentsReminderCandidates, Plan

LEMMA PaymentsReminderHistoryOK ==
    HandlerOK("PaymentsReminderHistory", PaymentsReminderHistoryHandler)
<1> DEFINE s == PaymentsReminderHistory.steps
<1>1. Len(s) = 1 /\ s[1] = Rows
  BY DEF PaymentsReminderHistory, Plan
<1>2. Ordered("PaymentsReminderHistory", TRUE, canReadPayments, isManager, s)
  <2> HIDE DEF s
  <2> QED
    BY <1>1, Kinds DEF Ordered, Has, Gate, Narrowed, StoresLast, Whole, StmtOK,
           Queries, Telling, Managing, Complete, NamedLists, Dropping,
           RefusingLate, OrganizationWide, canReadPayments, isManager
<1> QED
  BY <1>2 DEF HandlerOK, PaymentsReminderHistoryHandler, Handler,
         PaymentsReminderHistory, Plan

LEMMA PaymentsSendRemindersOK ==
    HandlerOK("PaymentsSendReminders", PaymentsSendRemindersHandler)
<1> DEFINE s == PaymentsSendReminders.steps
<1>1. Len(s) = 2 /\ s[1] = Rows /\ s[2] = Store
  BY DEF PaymentsSendReminders, Plan
<1>2. Ordered("PaymentsSendReminders", TRUE, canMutatePayments, isManager, s)
  <2> HIDE DEF s
  <2> QED
    BY <1>1, Kinds DEF Ordered, Has, Gate, Narrowed, StoresLast, Whole, StmtOK,
           Queries, Telling, Managing, Complete, NamedLists, Dropping,
           RefusingLate, OrganizationWide, canMutatePayments, isManager
<1> QED
  BY <1>2 DEF HandlerOK, PaymentsSendRemindersHandler, Handler,
         PaymentsSendReminders, Plan

LEMMA PaymentsListPesapalIPNOK ==
    HandlerOK("PaymentsListPesapalIPN", PaymentsListPesapalIPNHandler)
<1> DEFINE s == PaymentsListPesapalIPN.steps
<1>1. Len(s) = 1 /\ s[1] = CallGateway
  BY DEF PaymentsListPesapalIPN, Plan
<1>2. Ordered("PaymentsListPesapalIPN", FALSE, canReadPayments, isManager, s)
  <2> HIDE DEF s
  <2> QED
    BY <1>1, Kinds DEF Ordered, Has, Gate, Narrowed, StoresLast, Whole, StmtOK,
           Queries, Telling, Managing, Complete, NamedLists, Dropping,
           RefusingLate, OrganizationWide, canReadPayments, isManager
<1> QED
  BY <1>2 DEF HandlerOK, PaymentsListPesapalIPNHandler, Handler,
         PaymentsListPesapalIPN, Plan

LEMMA PaymentsRegisterPesapalIPNOK ==
    HandlerOK("PaymentsRegisterPesapalIPN", PaymentsRegisterPesapalIPNHandler)
<1> DEFINE s == PaymentsRegisterPesapalIPN.steps
<1>1. Len(s) = 1 /\ s[1] = CallGateway
  BY DEF PaymentsRegisterPesapalIPN, Plan
<1>2. Ordered("PaymentsRegisterPesapalIPN", FALSE, canMutatePayments, isManager, s)
  <2> HIDE DEF s
  <2> QED
    BY <1>1, Kinds DEF Ordered, Has, Gate, Narrowed, StoresLast, Whole, StmtOK,
           Queries, Telling, Managing, Complete, NamedLists, Dropping,
           RefusingLate, OrganizationWide, canMutatePayments, isManager
<1> QED
  BY <1>2 DEF HandlerOK, PaymentsRegisterPesapalIPNHandler, Handler,
         PaymentsRegisterPesapalIPN, Plan

LEMMA PaymentsGetTransactionStatusOK ==
    HandlerOK("PaymentsGetTransactionStatus", PaymentsGetTransactionStatusHandler)
<1> DEFINE s == PaymentsGetTransactionStatus.steps
<1>1. Len(s) = 3 /\ s[1] = CallGateway /\ s[2] = StoreUnheeded
      /\ s[3] = StoreUnheeded
  BY DEF PaymentsGetTransactionStatus, Plan
<1>2. Ordered("PaymentsGetTransactionStatus", FALSE, canReadPayments, isManager, s)
  <2> HIDE DEF s
  <2> QED
    BY <1>1, Kinds DEF Ordered, Has, Gate, Narrowed, StoresLast, Whole, StmtOK,
           Queries, Telling, Managing, Complete, NamedLists, Dropping,
           RefusingLate, OrganizationWide, canReadPayments, isManager
<1> QED
  BY <1>2 DEF HandlerOK, PaymentsGetTransactionStatusHandler, Handler,
         PaymentsGetTransactionStatus, Plan

\* Every endpoint keeps the order.
LEMMA RoutesOK == \A e \in DOMAIN Routes : HandlerOK(e, Routes[e])
BY BuildingsListOK, BuildingsCreateOK, BuildingsGetOK, BuildingsPatchOK,
   BuildingsDeleteOK, UnitsListOK, UnitsCreateOK, UnitsGetOK, UnitsPatchOK,
   UnitsDeleteOK, TenantsListOK, TenantsCreateOK, TenantsGetOK, TenantsPatchOK,
   TenantsDeleteOK, UsersListOK, UsersCreateOK, UsersPatchOK,
   OrganizationsCreateOK, OrganizationsGetOK, OrganizationsPatchOK, MeOK,
   LeasesListOK, LeasesCreateOK, LeasesGetOK, LeasesPatchOK, LeasesEndOK,
   LeasesApproveOK, LeasesRejectOK, LeasesHistoryOK, LeasesCreateRenewalOfferOK,
   LeasesAcceptRenewalOfferOK, LeasesRejectRenewalOfferOK, LeasesCloseoutOK,
   LeasesTenantStatementOK, LeasesTenantStatementExportOK, PaymentsInitiateOK,
   PaymentsRecordManualOK, PaymentsSummaryOK, PaymentsMethodSplitOK,
   PaymentsReminderCandidatesOK, PaymentsReminderHistoryOK,
   PaymentsSendRemindersOK, PaymentsListPesapalIPNOK,
   PaymentsRegisterPesapalIPNOK, PaymentsGetTransactionStatusOK DEF Routes

-----------------------------------------------------------------------------
(***************************************************************************)
(* The request in progress.  Serving says what has been established by the *)
(* statements that ran: of the row that is named, of the rows found, and   *)
(* of what was stored or lost on the way.                                  *)
(***************************************************************************)
Called == Routes[ask.endpoint]
Steps  == Routes[ask.endpoint].plan.steps

Ran(i) == i \in 1..Len(Steps) /\ i < ask.at /\ Applies(Steps[i], ask.role, Called.plan)

\* The endpoint keeps its caller to a scope of its own.
Bound == ask.endpoint \notin OrganizationWide(ask.role)

InScope(r) ==
    /\ ask.role \in Managing => r.building \in ask.held
    /\ ask.role = "tenant" => r.tenant \in ask.linked

Kept(rows) == {r \in PathRows : r.building \in ask.kept} \subseteq rows

Caller ==
    /\ ask.endpoint \in DOMAIN Routes /\ ask.user \in UserIds
    /\ ask.at \in 1..Len(Steps) + 1
    /\ ask.role \in Called.plan.admits
    /\ Called.tree \/ Called.plan.asserts => assertOrgScope(ask.role, ask.path)
    /\ ask.kept \subseteq assignments[ask.user] /\ assignments[ask.user] \subseteq ask.held
    /\ Linked(ask.user) \subseteq ask.linked
    /\ ask.ids \subseteq ask.held /\ ask.own \in ask.linked \cup {None}

Passed ==
    \A i : Ran(i) =>
        /\ Steps[i].does = "find" => InPath(ask.row)
        /\ Steps[i].does \in {"inIds", "assigned"} => ask.row.building \in ask.held
        /\ Steps[i].does = "own" => ask.row.tenant \in ask.linked
        /\ Steps[i].does = "ids" => ask.kept \subseteq ask.ids
        /\ Steps[i].does # "rowsOfOwn"

Seen ==
    /\ ask.seen \subseteq PathRows
    /\ ask.seen # {} => Has(Steps, Queries)
    /\ Bound =>
          \A i : /\ Ran(i) /\ Steps[i].does \in {"rowsInIds", "rowsScoped", "rowsOfNamed"}
                 /\ \A j \in 1..Len(Steps) : i < j /\ j < ask.at => Steps[j].does # "rows"
                 => \A r \in ask.seen : InScope(r)
    /\ ask.endpoint \in Complete /\ ask.role = "manager" /\ ask.at > 3 =>
          ask.lost \/ ask.late \/ Kept(ask.seen)

Noted ==
    /\ ask.stored => \E i \in 1..Len(Steps) : i < ask.at /\ Steps[i].does = "store"
    /\ ask.lost => \E i \in 1..Len(Steps) : Steps[i].fails = Unheeded

Serving == Caller /\ Passed /\ Seen /\ Noted

AskInv ==
    /\ ask \in Ask /\ (ask.pc = "serve" => Serving)
    /\ RowsWereInScope /\ AnswersAreTrue

LEMMA AskInvInit == AccessInit => AskInv
<1> SUFFICES ASSUME AccessInit PROVE AskInv
  OBVIOUS
<1>1. NoAsk \in Ask
  BY DEF NoAsk, Ask, UserRole, Row, NoRow
<1>2. ask = NoAsk /\ ask.pc = "idle"
  BY DEF AccessInit, NoAsk
<1> QED
  BY <1>1, <1>2 DEF AskInv, RowsWereInScope, AnswersAreTrue

\* What the plans were shown to keep, for the one that is followed.
LEMMA CalledOK ==
    ASSUME AskInv, ask.pc = "serve"
    PROVE  /\ Ordered(ask.endpoint, Called.tree \/ Called.plan.asserts,
                      Called.plan.admits, Called.plan.managers, Steps)
           /\ Called.code \in {200, 201, 204}
BY RoutesOK DEF AskInv, Serving, Caller, Called, Steps, HandlerOK

\* The guards a plan has are behind a request that comes to a statement that
\* tells of the row, or has stored something.
LEMMA GatePassed ==
    ASSUME AskInv, ask.pc = "serve", NEW does, Gate(Steps, does),
           \/ ask.at > Len(Steps)
           \/ Steps[ask.at].does \in Telling \cup {"rowsOfNamed"}
           \/ ask.stored
    PROVE  \E g \in 1..Len(Steps) : g < ask.at /\ Steps[g].does \in does
<1>1. PICK g \in 1..Len(Steps) :
        /\ Steps[g].does \in does
        /\ \A i \in 1..g : Steps[i].does \notin Telling \cup {"rowsOfNamed"}
  BY DEF Gate
<1>2. ask.at \in Nat /\ ask.at >= 1 /\ Len(Steps) \in Nat
  BY CalledOK DEF AskInv, Serving, Caller, Ordered
<1>3. CASE ~(g < ask.at)
  <2>1. ask.at <= g /\ ask.at \in 1..g /\ ~(ask.at > Len(Steps))
    BY <1>2, <1>3
  <2>2. ask.stored
    BY <1>1, <2>1
  <2>3. PICK i \in 1..Len(Steps) : i < ask.at /\ Steps[i].does = "store"
    BY <2>2 DEF AskInv, Serving, Noted
  <2>4. i \in 1..g
    BY <1>2, <2>1, <2>3
  <2> QED
    BY <1>1, <2>3, <2>4 DEF Telling
<1> QED
  BY <1>1, <1>3

\* So the row was in the path, and in the caller's scope where there is one.
LEMMA RowGuarded ==
    ASSUME AskInv, ask.pc = "serve", Has(Steps, {"find", "own", "assigned"}),
           \/ ask.at > Len(Steps)
           \/ Steps[ask.at].does \in Telling \cup {"rowsOfNamed"}
           \/ ask.stored
    PROVE  /\ Has(Steps, {"find"}) => InPath(ask.row)
           /\ Bound => InScope(ask.row)
<1> USE CalledOK DEF Ordered
<1>1. Passed /\ Caller
  BY DEF AskInv, Serving
<1>2. ASSUME Has(Steps, {"find"}) PROVE InPath(ask.row)
  <2>1. PICK g \in 1..Len(Steps) : g < ask.at /\ Steps[g].does \in {"find"}
    BY <1>2, GatePassed
  <2>2. Ran(g)
    BY <2>1 DEF Ran, Applies
  <2> QED
    BY <1>1, <2>1, <2>2 DEF Passed
<1>3. ASSUME Bound, ask.role \in Managing PROVE ask.row.building \in ask.held
  <2>1. ask.role \in Called.plan.managers /\ Gate(Steps, {"inIds", "assigned"})
    BY <1>1, <1>3 DEF Caller, Bound
  <2>2. PICK g \in 1..Len(Steps) : g < ask.at /\ Steps[g].does \in {"inIds", "assigned"}
    BY <2>1, GatePassed
  <2>3. Ran(g)
    BY <2>1, <2>2 DEF Ran, Applies
  <2> QED
    BY <1>1, <2>2, <2>3 DEF Passed
<1>4. ASSUME Bound, ask.role = "tenant" PROVE ask.row.tenant \in ask.linked
  <2>1. Gate(Steps, {"own"})
    BY <1>1, <1>4 DEF Caller, Bound
  <2>2. PICK g \in 1..Len(Steps) : g < ask.at /\ Steps[g].does \in {"own"}
    BY <2>1, GatePassed
  <2>3. Ran(g)
    BY <1>4, <2>2 DEF Ran, Applies
  <2> QED
    BY <1>1, <2>2, <2>3 DEF Passed
<1> QED
  BY <1>2, <1>3, <1>4 DEF InScope

\* A success but for a tenant's own list comes after the last query, which
\* has narrowed the rows.
LEMMA SeenNarrowed ==
    ASSUME AskInv, ask.pc = "serve", Bound,
           ask.at > Len(Steps) \/ Steps[ask.at].does = "unchanged"
    PROVE  \A r \in ask.seen : InScope(r)
<1> USE CalledOK DEF Ordered
<1>1. Caller /\ Passed /\ Seen /\ Len(Steps) \in Nat
  BY DEF AskInv, Serving
<1> DEFINE narrow == {"rowsInIds", "rowsScoped", "rowsOfNamed"}
<1>2. ASSUME NEW does, Narrowed(Steps, does), "unchanged" \notin does,
             \A q \in 1..Len(Steps) : Steps[q].does \in does /\ q < ask.at =>
                 Ran(q) /\ Steps[q].does \in narrow
      PROVE  \A r \in ask.seen : InScope(r)
  <2>1. PICK q \in 1..Len(Steps) :
          /\ Steps[q].does \in does
          /\ \A i \in 1..Len(Steps) : /\ i < q => Steps[i].does \notin Telling
                                      /\ i > q => Steps[i].does # "rows"
    BY <1>2 DEF Narrowed
  <2>2. q < ask.at
    <3>1. CASE ask.at > Len(Steps)
      BY <1>1, <3>1 DEF Caller
    <3>2. CASE ask.at <= Len(Steps)
      <4>1. ask.at \in 1..Len(Steps) /\ Steps[ask.at].does = "unchanged" /\ ask.at # q
        BY <1>1, <1>2, <2>1, <3>2 DEF Caller
      <4> QED
        BY <1>1, <2>1, <4>1 DEF Telling
    <3> QED
      BY <1>1, <3>1, <3>2 DEF Caller
  <2> QED
    BY <1>1, <1>2, <2>1, <2>2 DEF Seen
<1>3. CASE ~Has(Steps, Queries)
  BY <1>1, <1>3 DEF Seen
<1>4. CASE Has(Steps, Queries) /\ ask.role \in Managing
  <2>1. ask.role \in Called.plan.managers /\ Narrowed(Steps, narrow)
    BY <1>1, <1>4 DEF Caller, Bound
  <2>2. \A q \in 1..Len(Steps) : Steps[q].does \in narrow /\ q < ask.at => Ran(q)
    BY <2>1 DEF Ran, Applies
  <2> QED
    BY <1>2, <2>1, <2>2
<1>5. CASE Has(Steps, Queries) /\ ask.role = "tenant"
  <2> DEFINE own == {"rowsOfOwn", "rowsScoped", "rowsOfNamed"}
  <2>1. Narrowed(Steps, own)
    BY <1>1, <1>5 DEF Caller, Bound
  <2>2. \A q \in 1..Len(Steps) : Steps[q].does \in own /\ q < ask.at => Ran(q)
    BY <1>5 DEF Ran, Applies
  <2>3. \A q \in 1..Len(Steps) : Steps[q].does \in own /\ q < ask.at =>
            Steps[q].does \in narrow
    BY <1>1, <2>2 DEF Passed
  <2> QED
    BY <1>2, <2>1, <2>2, <2>3
<1> QED
  BY <1>3, <1>4, <1>5 DEF InScope, Managing

LEMMA PathRowsType == ASSUME story \in DOMAIN Stories PROVE PathRows \subseteq Row
BY AccessStoriesAssumption DEF PathRows, Scene

\* A request is answered.  What the answer says is right if a refusal has
\* stored nothing and a success comes at the end of its statements, or where
\* one answers at once, with rows in scope and no list cut short.
LEMMA Answered ==
    ASSUME AskInv, ask.pc = "serve", story \in DOMAIN Stories, UNCHANGED story,
           NEW code \in Nat, NEW rows \in SUBSET PathRows,
           ask' = [ask EXCEPT !.seen = rows, !.pc = "answered", !.code = code],
           rows # {} => Has(Steps, Queries),
           code \in 400..499 /\ ask.stored => ask.endpoint \in RefusingLate,
           code \in 200..299 =>
               /\ ask.at > Len(Steps) \/ Steps[ask.at].does \in Telling
               /\ Bound => \A r \in rows : InScope(r)
               /\ ask.endpoint \in Complete /\ ask.role = "manager" => ask.lost \/ Kept(rows)
    PROVE  AskInv'
<1>1. ask \in Ask /\ Caller /\ Noted
  BY DEF AskInv, Serving
<1>2. /\ ask'.pc = "answered" /\ ask'.seen = rows /\ ask'.code = code
      /\ ask'.endpoint = ask.endpoint /\ ask'.role = ask.role /\ ask'.path = ask.path
      /\ ask'.row = ask.row /\ ask'.held = ask.held /\ ask'.kept = ask.kept
      /\ ask'.linked = ask.linked /\ ask'.lost = ask.lost /\ ask'.stored = ask.stored
  BY <1>1 DEF Ask
<1>3. ask' \in Ask
  <2>1. rows \in SUBSET Row
    BY PathRowsType
  <2> QED
    BY <1>1, <2>1 DEF Ask
<1>4. PathRows' = PathRows /\ (\A r : InPath(r)' <=> InPath(r))
  BY <1>2 DEF PathRows, InPath, Scene
<1>5. Ordered(ask.endpoint, Called.tree \/ Called.plan.asserts,
              Called.plan.admits, Called.plan.managers, Steps)
  BY CalledOK
<1>6. Finds(Routes[ask.endpoint].plan) <=> Has(Steps, {"find"})
  BY DEF Finds, Has, Steps
<1>7. Touched' = (IF code \in 200..299 THEN rows ELSE {}) \cup
                 (IF Has(Steps, {"find"}) /\ (code \in 200..299 \/ ask.stored)
                  THEN {ask.row} ELSE {})
  BY <1>2, <1>6 DEF Touched, Succeeded
<1>8. ASSUME NEW r \in Touched'
      PROVE  InPath(r) /\ assertOrgScope(ask.role, ask.path) /\ (Bound => InScope(r))
  <2>1. CASE r \in rows /\ code \in 200..299
    <3>1. InPath(r) /\ (Bound => InScope(r))
      BY <2>1 DEF PathRows
    <3>2. Has(Steps, Queries \cup {"find"})
      BY <2>1 DEF Has
    <3> QED
      BY <1>1, <1>5, <3>1, <3>2 DEF Ordered, Caller
  <2>2. CASE r = ask.row /\ Has(Steps, {"find"}) /\ (code \in 200..299 \/ ask.stored)
    <3>1. Has(Steps, Queries \cup {"find"}) /\ Has(Steps, {"find", "own", "assigned"})
      BY <2>2 DEF Has
    <3>2. InPath(ask.row) /\ (Bound => InScope(ask.row))
      BY <2>2, <3>1, RowGuarded
    <3> QED
      BY <1>1, <1>5, <2>2, <3>1, <3>2 DEF Ordered, Caller
  <2> QED
    BY <1>7, <1>8, <2>1, <2>2
<1>9. RowsWereInScope'
  <2>1. ASSUME NEW r \in Touched'
        PROVE  /\ InPath(r)' /\ assertOrgScope(ask'.role, ask'.path)
               /\ ask'.endpoint \notin OrganizationWide(ask'.role) =>
                     /\ ask'.role \in {"manager", "property_manager"} =>
                            r.building \in ask'.held
                     /\ ask'.role = "tenant" => r.tenant \in ask'.linked
    BY <1>2, <1>4, <1>8 DEF Bound, InScope, Managing
  <2>2. Succeeded' /\ ask'.role = "manager" /\ ~ask'.lost
           /\ ask'.endpoint \in {"BuildingsList", "TenantsList", "LeasesList"}
        => {r \in PathRows' : r.building \in ask'.kept} \subseteq ask'.seen
    BY <1>2, <1>4 DEF Succeeded, Complete, Kept
  <2> QED
    BY <2>1, <2>2, Zenon DEF RowsWereInScope
<1>10. AnswersAreTrue'
  <2>1. ask.lost => ask.endpoint \in Dropping
    BY <1>1, <1>5 DEF Noted, Ordered
  <2> QED
    BY <1>2, <2>1 DEF AnswersAreTrue, Succeeded, Dropping, RefusingLate
<1> QED
  BY <1>2, <1>3, <1>9, <1>10 DEF AskInv

Same ==
    /\ ask'.endpoint = ask.endpoint /\ ask'.user = ask.user /\ ask'.role = ask.role
    /\ ask'.path = ask.path /\ ask'.row = ask.row /\ ask'.held = ask.held
    /\ ask'.kept = ask.kept /\ ask'.linked = ask.linked

\* What a statement that was not passed over has established.
Established ==
    /\ Now.does = "find" => InPath(ask.row)
    /\ Now.does \in {"inIds", "assigned"} => ask.row.building \in ask.held
    /\ Now.does = "own" => ask.row.tenant \in ask.linked
    /\ Now.does = "ids" => ask.kept \subseteq ask'.ids
    /\ Now.does # "rowsOfOwn"

LEMMA SameTerms ==
    ASSUME Same, UNCHANGED <<story, assignments, tenants>>
    PROVE  /\ Called' = Called /\ Steps' = Steps /\ (Bound' <=> Bound)
           /\ Linked(ask.user)' = Linked(ask.user) /\ PathRows' = PathRows
           /\ \A r : (InScope(r)' <=> InScope(r)) /\ (InPath(r)' <=> InPath(r))
           /\ \A rows : Kept(rows)' <=> Kept(rows)
<1>1. PathRows' = PathRows /\ \A r : InPath(r)' <=> InPath(r)
  BY DEF Same, PathRows, InPath, Scene
<1>2. \A rows : Kept(rows)' <=> Kept(rows)
  BY <1>1 DEF Same, Kept
<1> QED
  BY <1>1, <1>2 DEF Same, Called, Steps, Bound, Linked, InScope

\* The request goes on to the next statement.
LEMMA GoneOn ==
    ASSUME AskInv, InPlan, story \in DOMAIN Stories, UNCHANGED <<story, assignments, tenants>>,
           ask' \in Ask, ask'.pc = "serve", ask'.at = ask.at + 1, Same,
           ask'.ids \subseteq ask.held, ask'.own \in ask.linked \cup {None},
           ask'.seen \subseteq PathRows, ForCaller => Established,
           ask'.ids = ask.ids \/ ask.kept \subseteq ask'.ids,
           ask'.seen = {} \/ ask'.seen = ask.seen \/ Now.does \in Queries,
           Bound => \/ Now.does = "rows" \/ \A r \in ask'.seen : InScope(r)
                    \/ /\ ask'.seen = ask.seen
                       /\ ForCaller =>
                              Now.does \notin {"rowsInIds", "rowsScoped", "rowsOfNamed"},
           ask.endpoint \in Complete /\ ask.role = "manager" =>
               /\ ask.at = 3 => ask'.lost \/ ask'.late \/ Kept(ask'.seen)
               /\ ask.at > 3 => ask'.seen = ask.seen,
           ask'.stored => ask.stored \/ Now.does = "store",
           ask.lost => ask'.lost, ask.late => ask'.late,
           ask'.lost => ask.lost \/ Now.fails = Unheeded
    PROVE  AskInv'
<1>1. /\ Caller /\ Passed /\ Seen /\ Noted /\ ask.pc = "serve"
      /\ Len(Steps) \in Nat /\ ask.at \in 1..Len(Steps) /\ Now = Steps[ask.at]
  <2>1. Caller /\ Passed /\ Seen /\ Noted /\ ask.pc = "serve"
    BY DEF AskInv, Serving, InPlan
  <2>2. Len(Steps) \in Nat
    BY <2>1, CalledOK DEF Ordered
  <2> QED
    BY <2>1, <2>2 DEF InPlan, Now, Steps, Caller
<1>2. /\ Called' = Called /\ Steps' = Steps /\ (Bound' <=> Bound)
      /\ Linked(ask.user)' = Linked(ask.user) /\ PathRows' = PathRows
      /\ \A r : (InScope(r)' <=> InScope(r)) /\ (InPath(r)' <=> InPath(r))
      /\ \A rows : Kept(rows)' <=> Kept(rows)
  BY SameTerms
<1>3. \A i : Ran(i)' <=> Ran(i) \/ (i = ask.at /\ ForCaller)
  <2>1. \A i : Ran(i)' <=> /\ i \in 1..Len(Steps) /\ i < ask.at + 1
                            /\ Applies(Steps[i], ask.role, Called.plan)
    BY <1>2 DEF Same, Ran
  <2>2. ForCaller <=> Applies(Steps[ask.at], ask.role, Called.plan)
    BY <1>1, Zenon DEF ForCaller, Called
  <2> QED
    BY <1>1, <2>1, <2>2 DEF Ran
<1>4. Caller'
  BY <1>1, <1>2 DEF Same, Caller
<1>5. Passed'
  <2> SUFFICES ASSUME NEW i, Ran(i)'
               PROVE  /\ Steps[i].does = "find" => InPath(ask.row)
                      /\ Steps[i].does \in {"inIds", "assigned"} =>
                             ask.row.building \in ask.held
                      /\ Steps[i].does = "own" => ask.row.tenant \in ask.linked
                      /\ Steps[i].does = "ids" => ask.kept \subseteq ask'.ids
                      /\ Steps[i].does # "rowsOfOwn"
    BY <1>2 DEF Same, Passed
  <2>1. CASE Ran(i)
    BY <1>1, <2>1 DEF Passed
  <2>2. CASE i = ask.at /\ ForCaller
    BY <1>1, <2>2 DEF Established
  <2> QED
    BY <1>3, <2>1, <2>2
<1>6. Seen'
  <2>1. ask'.seen # {} => Has(Steps, Queries)
    BY <1>1 DEF Seen, Has
  <2> DEFINE narrow == {"rowsInIds", "rowsScoped", "rowsOfNamed"}
  <2>2. ASSUME Bound, NEW i, Ran(i)', Steps[i].does \in narrow,
               \A j \in 1..Len(Steps) : i < j /\ j < ask.at + 1 => Steps[j].does # "rows"
        PROVE  \A r \in ask'.seen : InScope(r)
    <3>1. CASE ask'.seen = ask.seen /\ Ran(i)
      <4>1. \A j \in 1..Len(Steps) : i < j /\ j < ask.at => Steps[j].does # "rows"
        BY <1>1, <2>2
      <4> QED
        BY <1>1, <2>2, <3>1, <4>1 DEF Seen
    <3>2. CASE Now.does = "rows"
      <4>1. i # ask.at
        BY <1>1, <2>2, <3>2
      <4>2. i < ask.at
        BY <1>3, <2>2, <4>1 DEF Ran
      <4> QED
        BY <1>1, <2>2, <3>2, <4>2
    <3> QED
      BY <1>1, <1>3, <2>2, <3>1, <3>2
  <2>3. ask.endpoint \in Complete /\ ask.role = "manager" /\ ask.at + 1 > 3 =>
            ask'.lost \/ ask'.late \/ Kept(ask'.seen)
    BY <1>1 DEF Seen
  <2>4. Bound => \A i : /\ Ran(i)' /\ Steps[i].does \in narrow
                        /\ \A j \in 1..Len(Steps) :
                               i < j /\ j < ask.at + 1 => Steps[j].does # "rows"
                        => \A r \in ask'.seen : InScope(r)
    BY <2>2
  <2> QED
    BY <1>2, <2>1, <2>3, <2>4 DEF Same, Seen, Has
<1>7. Noted'
  BY <1>1, <1>2 DEF Noted
<1>8. RowsWereInScope' /\ AnswersAreTrue'
  BY DEF RowsWereInScope, AnswersAreTrue
<1> QED
  BY <1>4, <1>5, <1>6, <1>7, <1>8 DEF AskInv, Serving

\* The statement a request has come to, as the plan has it.
LEMMA AtStatement ==
    ASSUME AskInv, InPlan
    PROVE  /\ ask \in Ask /\ ask.pc = "serve" /\ Caller /\ Passed /\ Seen /\ Noted
           /\ ask.at \in 1..Len(Steps) /\ Len(Steps) \in Nat
           /\ Now = Steps[ask.at] /\ StmtOK(Now)
           /\ (ForCaller <=> Applies(Now, ask.role, Called.plan))
BY CalledOK DEF AskInv, Serving, Ordered, InPlan, Now, Steps, Called, Caller, ForCaller

\* The lists that are complete have their query in the third place, and it is
\* for managers.
LEMMA Third ==
    ASSUME AskInv, InPlan, ask.endpoint \in Complete, ask.role = "manager"
    PROVE  /\ ask.at = 3 => ForCaller /\ Now.does \in {"rowsInIds", "rowsScoped"}
           /\ ask.at > 3 => Now.does \in {"ownId", "rowsOfOwn"}
           /\ ask.at >= 3 => ask.kept \subseteq ask.ids
<1> USE AtStatement, CalledOK DEF Ordered
<1>1. Whole(Steps)
  OBVIOUS
<1>2. Has(Steps, Queries)
  BY <1>1 DEF Whole, Has, Queries
<1>3. ask.role \in Called.plan.managers
  <2>1. ask.role \in Managing /\ ask.role \in Called.plan.admits
    BY DEF Managing, Caller
  <2>2. ask.endpoint \notin OrganizationWide(ask.role)
    BY DEF OrganizationWide, Complete
  <2> QED
    BY <1>2, <2>1, <2>2
<1>4. ask.at = 3 => ForCaller /\ Now.does \in {"rowsInIds", "rowsScoped"}
  BY <1>1, <1>3 DEF Whole, Applies
<1>5. ask.at > 3 => Now.does \in {"ownId", "rowsOfOwn"}
  BY <1>1 DEF Whole
<1>6. ASSUME ask.at >= 3 PROVE ask.kept \subseteq ask.ids
  <2>1. PICK i \in 1..2 : Steps[i].does = "ids"
    BY <1>1 DEF Whole
  <2>2. Ran(i)
    BY <1>1, <1>3, <1>6, <2>1 DEF Ran, Applies, Whole
  <2> QED
    BY <2>1, <2>2 DEF Passed
<1> QED
  BY <1>4, <1>5, <1>6

\* A store that is followed by something else that refuses is RefusingLate's.
LEMMA RefusedEarly ==
    ASSUME AskInv, InPlan, ask.stored, ask.endpoint \notin RefusingLate
    PROVE  Now.does \in {"store", "read"} /\ Now.fails \in {Unheeded, 500}
<1> USE AtStatement
<1>1. PICK g \in 1..Len(Steps) : \A i \in 1..Len(Steps) :
        /\ i < g => Steps[i].does # "store"
        /\ i > g => Steps[i].does \in {"store", "read"} /\ Steps[i].fails \in {Unheeded, 500}
  BY CalledOK DEF Ordered, StoresLast
<1>2. PICK i \in 1..Len(Steps) : i < ask.at /\ Steps[i].does = "store"
  BY DEF Noted
<1>3. ask.at > g
  BY <1>1, <1>2
<1> QED
  BY <1>1, <1>3

Still == story \in DOMAIN Stories /\ UNCHANGED <<story, assignments, tenants>>

\* A statement that only looks, and lets the request go on.
LEMMA LookedAt ==
    ASSUME AskInv, InPlan, Still, Onward(ask),
           Now.does \notin Queries \cup {"ids"} \/ ~ForCaller,
           ForCaller =>
               /\ Now.does = "find" => InPath(ask.row)
               /\ Now.does \in {"inIds", "assigned"} => ask.row.building \in ask.held
               /\ Now.does = "own" => ask.row.tenant \in ask.linked
    PROVE  AskInv'
<1>1. ask \in Ask /\ ask.pc = "serve" /\ ask.at \in Nat /\ Caller /\ Seen
  BY AtStatement
<1>2. ask' = [ask EXCEPT !.at = @ + 1]
  BY DEF Onward
<1>3. /\ ask' \in Ask /\ ask'.pc = "serve" /\ ask'.at = ask.at + 1 /\ Same
      /\ ask'.ids = ask.ids /\ ask'.own = ask.own /\ ask'.seen = ask.seen
      /\ ask'.stored = ask.stored /\ ask'.lost = ask.lost /\ ask'.late = ask.late
  BY <1>1, <1>2 DEF Ask, Same
<1>4. ForCaller => Established
  BY DEF Established, Queries
<1>5. ask.endpoint \in Complete /\ ask.role = "manager" => ask.at # 3
  BY Third DEF Queries
<1>6. ForCaller => Now.does \notin {"rowsInIds", "rowsScoped", "rowsOfNamed"}
  BY DEF Queries
<1> QED
  BY <1>1, <1>3, <1>4, <1>5, <1>6, GoneOn DEF Caller, Seen, Still

LEMMA SeenAgain == ASSUME NEW a \in Ask PROVE [a EXCEPT !.seen = a.seen] = a
BY DEF Ask

\* A statement refuses or fails.
LEMMA Refused ==
    ASSUME AskInv, InPlan, Still, NEW code \in {400, 403, 404, 409, 500}, Answer(ask, code),
           Now.does \notin {"store", "read"} \/ code = 500 \/ code = Now.fails
    PROVE  AskInv'
<1>1. ask \in Ask /\ ask.pc = "serve" /\ Seen
  BY AtStatement
<1>2. ask' = [ask EXCEPT !.seen = ask.seen, !.pc = "answered", !.code = code]
  <2>1. [ask EXCEPT !.seen = ask.seen] = ask
    BY <1>1, SeenAgain
  <2> QED
    BY <2>1 DEF Answer
<1>3. code \in 400..499 /\ ask.stored => ask.endpoint \in RefusingLate
  BY RefusedEarly DEF Unheeded
<1>4. code \notin 200..299 /\ code \in Nat
  OBVIOUS
<1> DEFINE rows == ask.seen
<1>5. rows \in SUBSET PathRows /\ (rows # {} => Has(Steps, Queries))
  BY <1>1 DEF Seen
<1> HIDE DEF rows
<1>6. ask' = [ask EXCEPT !.seen = rows, !.pc = "answered", !.code = code]
  BY <1>2 DEF rows
<1>7. code \in 200..299 =>
          /\ ask.at > Len(Steps) \/ Steps[ask.at].does \in Telling
          /\ Bound => \A r \in rows : InScope(r)
          /\ ask.endpoint \in Complete /\ ask.role = "manager" => ask.lost \/ Kept(rows)
  BY <1>4
<1>8. story \in DOMAIN Stories /\ UNCHANGED story
  BY DEF Still
<1> QED
  BY <1>1, <1>3, <1>4, <1>5, <1>6, <1>7, <1>8, Answered, Zenon

\* A guard lets the request go on, or refuses it.
LEMMA GuardsAsk ==
    ASSUME AskInv, BaseInv, Still,
           \/ FindNamed \/ UnitInBuildings \/ isAssignedBuilding \/ NamedIsOwn \/ SelfIsActive
    PROVE  AskInv'
<1> USE AtStatement
<1>1. CASE FindNamed
  <2>1. InPlan /\ Now.does = "find"
    BY <1>1 DEF FindNamed, Statement
  <2>2. CASE InPath(ask.row) /\ Onward(ask)
    BY <2>1, <2>2, LookedAt DEF Queries
  <2>3. CASE Answer(ask, 404)
    BY <2>1, <2>3, Refused
  <2> QED
    BY <1>1, <2>2, <2>3 DEF FindNamed
<1>2. CASE UnitInBuildings
  <2>1. InPlan /\ Now.does = "inIds"
    BY <1>2 DEF UnitInBuildings, Statement
  <2>2. CASE ask.row.building \in ask.ids /\ Onward(ask)
    <3>1. ask.row.building \in ask.held
      BY <2>1, <2>2 DEF Caller
    <3> QED
      BY <2>1, <2>2, <3>1, LookedAt DEF Queries
  <2>3. CASE Answer(ask, 403)
    BY <2>1, <2>3, Refused
  <2> QED
    BY <1>2, <2>2, <2>3 DEF UnitInBuildings
<1>3. CASE isAssignedBuilding
  <2>1. InPlan /\ Now.does = "assigned"
    BY <1>3 DEF isAssignedBuilding, Statement
  <2>2. CASE ask.row.building \in assignments[ask.user] /\ Onward(ask)
    <3>1. ask.row.building \in ask.held
      BY <2>1, <2>2 DEF Caller
    <3> QED
      BY <2>1, <2>2, <3>1, LookedAt DEF Queries
  <2>3. CASE Answer(ask, 403)
    BY <2>1, <2>3, Refused
  <2> QED
    BY <1>3, <2>2, <2>3 DEF isAssignedBuilding
<1>4. CASE NamedIsOwn
  <2>1. InPlan /\ Now.does = "own"
    BY <1>4 DEF NamedIsOwn, Statement
  <2>2. PICK n \in TenantIds \cup {None} :
          /\ TenantIDByUser(n)
          /\ IF n # None /\ n = ask.row.tenant THEN Onward(ask) ELSE Answer(ask, 403)
    BY <1>4 DEF NamedIsOwn
  <2>3. CASE n # None /\ n = ask.row.tenant /\ Onward(ask)
    <3>1. ask.row.tenant \in ask.linked
      BY <2>1, <2>2, <2>3 DEF TenantIDByUser, Caller
    <3> QED
      BY <2>1, <2>3, <3>1, LookedAt DEF Queries
  <2>4. CASE Answer(ask, 403)
    BY <2>1, <2>4, Refused
  <2> QED
    BY <2>2, <2>3, <2>4
<1>5. CASE SelfIsActive
  <2>1. InPlan /\ Now.does = "self"
    BY <1>5 DEF SelfIsActive, Statement
  <2>2. CASE Onward(ask)
    BY <2>1, <2>2, LookedAt DEF Queries
  <2>3. CASE Answer(ask, 403)
    BY <2>1, <2>3, Refused
  <2> QED
    BY <1>5, <2>2, <2>3 DEF SelfIsActive
<1> QED
  BY <1>1, <1>2, <1>3, <1>4, <1>5

\* The locals a statement has set are those of the request it goes on with.
LEMMA OnwardFields ==
    ASSUME NEW a \in Ask, a.pc = "serve", a.at = ask.at, Onward(a)
    PROVE  /\ ask' \in Ask /\ ask'.pc = "serve" /\ ask'.at = ask.at + 1
           /\ ask'.endpoint = a.endpoint /\ ask'.user = a.user /\ ask'.role = a.role
           /\ ask'.path = a.path /\ ask'.row = a.row /\ ask'.held = a.held
           /\ ask'.kept = a.kept /\ ask'.linked = a.linked
           /\ ask'.ids = a.ids /\ ask'.own = a.own /\ ask'.seen = a.seen
           /\ ask'.stored = a.stored /\ ask'.lost = a.lost /\ ask'.late = a.late
BY DEF Onward, Ask

LEMMA AskFields ==
    ASSUME NEW a \in Ask
    PROVE  /\ \A ids \in SUBSET Buildings : [a EXCEPT !.ids = ids] \in Ask
           /\ \A own \in TenantIds \cup {None} : [a EXCEPT !.own = own] \in Ask
           /\ \A seen \in SUBSET Row : [a EXCEPT !.seen = seen] \in Ask
           /\ [a EXCEPT !.stored = TRUE] \in Ask /\ [a EXCEPT !.lost = TRUE] \in Ask
           /\ [a EXCEPT !.late = TRUE] \in Ask
<1>1. \A ids \in SUBSET Buildings : [a EXCEPT !.ids = ids] \in Ask
  BY DEF Ask
<1>2. \A own \in TenantIds \cup {None} : [a EXCEPT !.own = own] \in Ask
  BY DEF Ask
<1>3. \A seen \in SUBSET Row : [a EXCEPT !.seen = seen] \in Ask
  BY DEF Ask
<1>4. [a EXCEPT !.stored = TRUE] \in Ask /\ [a EXCEPT !.lost = TRUE] \in Ask
  BY DEF Ask
<1>5. [a EXCEPT !.late = TRUE] \in Ask
  BY DEF Ask
<1> QED
  BY <1>1, <1>2, <1>3, <1>4, <1>5

\* A manager's buildings are read.
LEMMA IdsAsk == ASSUME AskInv, BaseInv, Still, ListManagerBuildingIDs PROVE AskInv'
<1>1. InPlan /\ Now.does = "ids" /\ Onward([ask EXCEPT !.ids = assignments[ask.user]])
  BY DEF ListManagerBuildingIDs, Statement
<1>2. ask \in Ask /\ ask.pc = "serve" /\ ask.at \in Nat /\ Caller /\ Seen
  BY <1>1, AtStatement
<1>3. assignments[ask.user] \in SUBSET Buildings
  BY <1>2, BaseFacts DEF Caller
<1>4. /\ ask' \in Ask /\ ask'.pc = "serve" /\ ask'.at = ask.at + 1 /\ Same
      /\ ask'.ids = assignments[ask.user] /\ ask'.own = ask.own /\ ask'.seen = ask.seen
      /\ ask'.stored = ask.stored /\ ask'.lost = ask.lost /\ ask'.late = ask.late
  <2> DEFINE a == [ask EXCEPT !.ids = assignments[ask.user]]
  <2>1. a \in Ask
    BY <1>2, <1>3, AskFields, Zenon
  <2>2. a.pc = "serve" /\ a.at = ask.at
    BY <1>2 DEF Ask
  <2> QED
    BY <1>1, <1>2, <2>1, <2>2, OnwardFields DEF Ask, Same
<1>5. ForCaller => Established
  BY <1>1, <1>2, <1>4 DEF Established, Caller
<1>6. ask.endpoint \in Complete /\ ask.role = "manager" => ask.at # 3
  BY <1>1, Third
<1> QED
  BY <1>1, <1>2, <1>4, <1>5, <1>6, GoneOn DEF Caller, Seen, Still

\* The tenant linked to the caller is read.
LEMMA OwnIdAsk == ASSUME AskInv, BaseInv, Still, OwnTenant PROVE AskInv'
<1>1. InPlan /\ Now.does = "ownId"
  BY DEF OwnTenant, Statement
<1>2. PICK n \in TenantIds \cup {None} : TenantIDByUser(n) /\ Onward([ask EXCEPT !.own = n])
  BY DEF OwnTenant
<1>3. ask \in Ask /\ ask.pc = "serve" /\ ask.at \in Nat /\ Caller /\ Seen
  BY <1>1, AtStatement
<1>4. n \in ask.linked \cup {None}
  BY <1>2, <1>3 DEF TenantIDByUser, Caller
<1>5. /\ ask' \in Ask /\ ask'.pc = "serve" /\ ask'.at = ask.at + 1 /\ Same
      /\ ask'.ids = ask.ids /\ ask'.own = n /\ ask'.seen = ask.seen
      /\ ask'.stored = ask.stored /\ ask'.lost = ask.lost /\ ask'.late = ask.late
  <2> DEFINE a == [ask EXCEPT !.own = n]
  <2>1. a \in Ask
    BY <1>2, <1>3, AskFields, Zenon
  <2>2. a.pc = "serve" /\ a.at = ask.at
    BY <1>3 DEF Ask
  <2> QED
    BY <1>2, <1>3, <2>1, <2>2, OnwardFields DEF Ask, Same
<1>6. ForCaller => Established
  BY <1>1 DEF Established
<1>7. ask.endpoint \in Complete /\ ask.role = "manager" => ask.at # 3
  BY <1>1, Third
<1> QED
  BY <1>1, <1>3, <1>4, <1>5, <1>6, <1>7, GoneOn DEF Caller, Seen, Still

\* A query is in scope as it was narrowed.
LEMMA ReturnedInScope ==
    ASSUME AskInv, InPlan, ForCaller, Bound, NEW does \in Queries \ {"rows"}, Now.does = does
    PROVE  \A r \in Returned(does) : InScope(r)
<1> USE AtStatement, CalledOK DEF Ordered
<1>1. ask.role \in Called.plan.admits /\ ask.ids \subseteq ask.held
      /\ ask.own \in ask.linked \cup {None} /\ "tenant" \notin Called.plan.managers
  BY DEF Caller
<1>2. CASE does = "rowsInIds"
  <2>1. ask.role # "tenant"
    BY <1>1, <1>2 DEF Applies
  <2> QED
    BY <1>1, <1>2, <2>1 DEF Returned, InScope
<1>3. CASE does = "rowsOfOwn"
  BY <1>1, <1>3 DEF Applies, Returned, InScope, Managing
<1>4. CASE does = "rowsScoped"
  <2>1. Managing \subseteq Called.plan.managers
    BY <1>4 DEF Has
  <2> QED
    BY <1>1, <1>4, <2>1 DEF Returned, InScope, Called
<1>5. CASE does = "rowsOfNamed"
  <2>1. /\ ask.endpoint \in NamedLists /\ Has(Steps, {"find", "own", "assigned"})
        /\ ask.endpoint = "UnitsList" => ask.role # "tenant"
    BY <1>1, <1>5 DEF Has
  <2>2. InScope(ask.row)
    BY <1>5, <2>1, RowGuarded
  <2>3. ask.endpoint \notin {"UnitsList", "LeasesHistory"} => ask.role = "tenant"
    BY <2>1 DEF Bound, OrganizationWide, NamedLists
  <2> QED
    BY <1>5, <2>1, <2>2, <2>3 DEF Returned, InScope, Managing
<1> QED
  BY <1>2, <1>3, <1>4, <1>5 DEF Queries

LEMMA QueryAsk ==
    ASSUME AskInv, BaseInv, Still,
           NEW does \in {"rows", "rowsInIds", "rowsScoped", "rowsOfNamed"}, Query(does)
    PROVE  AskInv'
<1>1. InPlan /\ ForCaller /\ Now.does = does /\ Onward([ask EXCEPT !.seen = Returned(does)])
  BY DEF Query, Statement
<1>2. ask \in Ask /\ ask.pc = "serve" /\ ask.at \in Nat /\ Caller
  BY <1>1, AtStatement
<1>3. Returned(does) \subseteq PathRows
  BY DEF Returned
<1>4. Returned(does) \in SUBSET Row
  BY <1>3, PathRowsType DEF Still
<1>5. /\ ask' \in Ask /\ ask'.pc = "serve" /\ ask'.at = ask.at + 1 /\ Same
      /\ ask'.ids = ask.ids /\ ask'.own = ask.own /\ ask'.seen = Returned(does)
      /\ ask'.stored = ask.stored /\ ask'.lost = ask.lost /\ ask'.late = ask.late
  <2> DEFINE a == [ask EXCEPT !.seen = Returned(does)]
  <2>1. a \in Ask
    BY <1>2, <1>4, AskFields, Zenon
  <2>2. a.pc = "serve" /\ a.at = ask.at
    BY <1>2 DEF Ask
  <2> QED
    BY <1>1, <1>2, <2>1, <2>2, OnwardFields DEF Ask, Same
<1>6. ForCaller => Established
  BY <1>1 DEF Established
<1>7. Bound => does = "rows" \/ \A r \in Returned(does) : InScope(r)
  BY <1>1, ReturnedInScope DEF Queries
<1>8. ask.endpoint \in Complete /\ ask.role = "manager" =>
          ask.at <= 3 /\ (ask.at = 3 => Kept(ask'.seen))
  <2> SUFFICES ASSUME ask.endpoint \in Complete, ask.role = "manager"
               PROVE  ask.at <= 3 /\ (ask.at = 3 => Kept(ask'.seen))
    OBVIOUS
  <2>1. ask.at <= 3
    BY <1>1, <1>2, Third
  <2>2. ASSUME ask.at = 3 PROVE Kept(ask'.seen)
    <3>1. does \in {"rowsInIds", "rowsScoped"} /\ ask.kept \subseteq ask.ids
      BY <1>1, <2>2, Third
    <3> QED
      BY <1>5, <3>1 DEF Kept, Returned
  <2> QED
    BY <2>1, <2>2
<1>9. does \in Queries
  BY DEF Queries
<1> QED
  BY <1>1, <1>2, <1>3, <1>5, <1>6, <1>7, <1>8, <1>9, GoneOn DEF Caller, Still

\* A tenant's own list is answered at once.
LEMMA QueryOwnAsk == ASSUME AskInv, BaseInv, Still, QueryOwn PROVE AskInv'
<1> DEFINE rows == Returned("rowsOfOwn")
<1>1. /\ InPlan /\ ForCaller /\ Now.does = "rowsOfOwn"
      /\ Answer([ask EXCEPT !.seen = rows], Routes[ask.endpoint].code)
  BY DEF QueryOwn, Statement
<1>2. ask \in Ask /\ ask.pc = "serve" /\ ask.role = "tenant" /\ Steps[ask.at].does \in Telling
      /\ Has(Steps, Queries)
  BY <1>1, AtStatement DEF Applies, Telling, Has, Queries
<1>3. rows \in SUBSET PathRows
  BY DEF Returned
<1>4. Bound => \A r \in rows : InScope(r)
  BY <1>1, ReturnedInScope DEF Queries
<1> HIDE DEF rows
<1> DEFINE code == Routes[ask.endpoint].code
<1>5. code \in Nat /\ code \notin 400..499
  BY <1>2, CalledOK DEF Called
<1>6. ask' = [ask EXCEPT !.seen = rows, !.pc = "answered", !.code = code]
  BY <1>1 DEF Answer
<1> HIDE DEF code
<1>7. /\ rows # {} => Has(Steps, Queries)
      /\ code \in 400..499 /\ ask.stored => ask.endpoint \in RefusingLate
      /\ code \in 200..299 =>
            /\ ask.at > Len(Steps) \/ Steps[ask.at].does \in Telling
            /\ Bound => \A r \in rows : InScope(r)
            /\ ask.endpoint \in Complete /\ ask.role = "manager" => ask.lost \/ Kept(rows)
  BY <1>2, <1>4, <1>5
<1> QED
  BY <1>2, <1>3, <1>5, <1>6, <1>7, Answered, Zenon DEF Still

LEMMA CheckAsk == ASSUME AskInv, Still, Check \/ Read \/ PassOver PROVE AskInv'
<1>1. CASE PassOver
  BY <1>1, LookedAt DEF PassOver
<1>2. CASE Read
  BY <1>2, LookedAt DEF Read, Statement, Queries
<1>3. CASE Check
  <2>1. InPlan /\ Now.does = "check" /\ StmtOK(Now)
    BY <1>3, AtStatement DEF Check, Statement
  <2>2. Now.fails \in {400, 403, 404, 409, 500}
    BY <2>1 DEF StmtOK
  <2>3. CASE Onward(ask)
    BY <2>1, <2>3, LookedAt DEF Queries
  <2>4. CASE Answer(ask, Now.fails)
    BY <2>1, <2>2, <2>4, Refused
  <2>5. CASE Answer(ask, 500)
    BY <2>1, <2>5, Refused
  <2> QED
    BY <1>3, <2>3, <2>4, <2>5 DEF Check
<1> QED
  BY <1>1, <1>2, <1>3

\* An empty patch may be answered at once, with a success.
LEMMA EmptyPatchAsk == ASSUME AskInv, Still, EmptyPatch PROVE AskInv'
<1>1. InPlan /\ Now.does = "unchanged"
  BY DEF EmptyPatch, Statement
<1>2. CASE Onward(ask)
  BY <1>1, <1>2, LookedAt DEF Queries
<1> DEFINE rows == ask.seen
           code == Routes[ask.endpoint].code
<1>3. CASE Answer(ask, code)
  <2>1. /\ ask \in Ask /\ ask.pc = "serve" /\ Seen
        /\ ask.at \in 1..Len(Steps) /\ Now = Steps[ask.at]
    BY <1>1, AtStatement
  <2>2. ask.endpoint \notin Complete
    BY <1>1, <2>1, CalledOK DEF Ordered, Whole, Telling
  <2>3. Bound => \A r \in rows : InScope(r)
    BY <1>1, <2>1, SeenNarrowed
  <2>4. rows \in SUBSET PathRows /\ (rows # {} => Has(Steps, Queries))
    BY <2>1 DEF Seen
  <2>5. code \in Nat /\ code \notin 400..499
    <3>1. code \in {200, 201, 204}
      BY <2>1, CalledOK, Zenon DEF Called
    <3> QED
      BY <3>1
  <2>6. ask' = [ask EXCEPT !.seen = rows, !.pc = "answered", !.code = code]
    <3>1. [ask EXCEPT !.seen = ask.seen] = ask
      BY <2>1, SeenAgain
    <3> QED
      BY <1>3, <3>1 DEF Answer
  <2>7. Steps[ask.at].does \in Telling
    BY <1>1, <2>1 DEF Telling
  <2> HIDE DEF rows, code
  <2>8. /\ code \in 400..499 /\ ask.stored => ask.endpoint \in RefusingLate
        /\ code \in 200..299 =>
              /\ ask.at > Len(Steps) \/ Steps[ask.at].does \in Telling
              /\ Bound => \A r \in rows : InScope(r)
              /\ ask.endpoint \in Complete /\ ask.role = "manager" =>
                     ask.lost \/ Kept(rows)
    BY <2>2, <2>3, <2>5, <2>7
  <2> QED
    BY <2>1, <2>4, <2>5, <2>6, <2>8, Answered, Zenon DEF Still
<1> QED
  BY <1>2, <1>3 DEF EmptyPatch

LEMMA StoreRowAsk == ASSUME AskInv, Still, StoreRow PROVE AskInv'
<1>1. InPlan /\ Now.does = "store" /\ Onward([ask EXCEPT !.stored = TRUE])
  BY DEF StoreRow, Statement
<1>2. ask \in Ask /\ ask.pc = "serve" /\ ask.at \in Nat /\ Caller /\ Seen
  BY <1>1, AtStatement
<1>3. /\ ask' \in Ask /\ ask'.pc = "serve" /\ ask'.at = ask.at + 1 /\ Same
      /\ ask'.ids = ask.ids /\ ask'.own = ask.own /\ ask'.seen = ask.seen
      /\ ask'.lost = ask.lost /\ ask'.late = ask.late
  <2> DEFINE a == [ask EXCEPT !.stored = TRUE]
  <2>1. a \in Ask
    BY <1>2, AskFields, Zenon
  <2>2. a.pc = "serve" /\ a.at = ask.at
    BY <1>2 DEF Ask
  <2> QED
    BY <1>1, <1>2, <2>1, <2>2, OnwardFields DEF Ask, Same
<1>4. ForCaller => Established
  BY <1>1 DEF Established
<1>5. ask.endpoint \in Complete /\ ask.role = "manager" => ask.at # 3
  BY <1>1, Third
<1> QED
  BY <1>1, <1>2, <1>3, <1>4, <1>5, GoneOn DEF Caller, Seen, Still

\* A statement fails: its error answers the request, or is dropped or kept for
\* later with the query's rows empty.
LEMMA StatementFailsAsk == ASSUME AskInv, BaseInv, Still, StatementFails PROVE AskInv'
<1> DEFINE seen == IF Now.does \in {"rows", "rowsInIds"} THEN {} ELSE ask.seen
<1>1. /\ InPlan /\ ForCaller /\ Now.does \notin {"check", "unchanged"}
      /\ CASE Now.fails = Unheeded -> Onward([ask EXCEPT !.lost = TRUE, !.seen = seen])
           [] Now.fails = Late     -> Onward([ask EXCEPT !.late = TRUE, !.seen = seen])
           [] OTHER                -> Answer(ask, Now.fails)
  BY DEF StatementFails
<1>2. /\ ask \in Ask /\ ask.pc = "serve" /\ ask.at \in Nat /\ Caller /\ Seen
      /\ StmtOK(Now)
  BY <1>1, AtStatement
<1>3. seen \subseteq PathRows /\ (seen = {} \/ seen = ask.seen)
  BY <1>2 DEF Seen
<1>4. seen \in SUBSET Row
  BY <1>3, PathRowsType DEF Still
<1>5. Now.fails \in {Unheeded, Late} =>
          /\ Now.does \in {"rows", "rowsInIds", "store", "read"}
          /\ Now.does \in {"rows", "rowsInIds"} => seen = {}
          /\ Now.does \in {"store", "read"} => seen = ask.seen
  BY <1>2 DEF StmtOK
<1>6. ask.endpoint \in Complete /\ ask.role = "manager" =>
          /\ Now.fails \in {Unheeded, Late} => ask.at <= 3
          /\ ask.at = 3 => ForCaller
  BY <1>1, <1>2, <1>5, Third
<1> HIDE DEF seen
<1>7. ASSUME NEW a \in Ask, Onward(a), Now.fails \in {Unheeded, Late},
             \/ a = [ask EXCEPT !.lost = TRUE, !.seen = seen] /\ Now.fails = Unheeded
             \/ a = [ask EXCEPT !.late = TRUE, !.seen = seen]
      PROVE  AskInv'
  <2>1. /\ a.pc = "serve" /\ a.at = ask.at /\ a.endpoint = ask.endpoint /\ a.user = ask.user
        /\ a.role = ask.role /\ a.path = ask.path /\ a.row = ask.row /\ a.held = ask.held
        /\ a.kept = ask.kept /\ a.linked = ask.linked
        /\ a.ids = ask.ids /\ a.own = ask.own /\ a.seen = seen /\ a.stored = ask.stored
        /\ \/ a.lost = TRUE /\ a.late = ask.late /\ Now.fails = Unheeded
           \/ a.lost = ask.lost /\ a.late = TRUE
    <3>1. CASE a = [ask EXCEPT !.lost = TRUE, !.seen = seen] /\ Now.fails = Unheeded
      BY <1>2, <3>1 DEF Ask
    <3>2. CASE a = [ask EXCEPT !.late = TRUE, !.seen = seen]
      BY <1>2, <3>2 DEF Ask
    <3> QED
      BY <1>7, <3>1, <3>2
  <2>2. /\ ask' \in Ask /\ ask'.pc = "serve" /\ ask'.at = ask.at + 1 /\ Same
        /\ ask'.ids = ask.ids /\ ask'.own = ask.own /\ ask'.seen = seen
        /\ ask'.stored = ask.stored
        /\ \/ ask'.lost = TRUE /\ ask'.late = ask.late /\ Now.fails = Unheeded
           \/ ask'.lost = ask.lost /\ ask'.late = TRUE
    BY <1>2, <1>7, <2>1, OnwardFields DEF Same
  <2>3. ForCaller => Established
    BY <1>5, <1>7 DEF Established
  <2>4. Bound => \/ Now.does = "rows" \/ \A r \in seen : InScope(r)
                 \/ /\ seen = ask.seen
                    /\ Now.does \notin {"rowsInIds", "rowsScoped", "rowsOfNamed"}
    BY <1>5, <1>7
  <2> QED
    BY <1>1, <1>2, <1>3, <1>6, <1>7, <2>2, <2>3, <2>4, GoneOn DEF Caller, Still
<1>8. CASE Now.fails = Unheeded
  <2> DEFINE b == [ask EXCEPT !.lost = TRUE]
  <2>1. b \in Ask
    BY <1>2, AskFields, Zenon
  <2>2. [b EXCEPT !.seen = seen] \in Ask
    <3> HIDE DEF b
    <3> QED
      BY <1>4, <2>1, AskFields, Zenon
  <2> DEFINE a == [ask EXCEPT !.lost = TRUE, !.seen = seen]
  <2>3. a \in Ask
    BY <2>2
  <2>4. Onward(a)
    BY <1>1, <1>8 DEF Unheeded, Late
  <2>5. a = [ask EXCEPT !.lost = TRUE, !.seen = seen]
    OBVIOUS
  <2> HIDE DEF a, b
  <2> QED
    BY <1>7, <1>8, <2>3, <2>4, <2>5
<1>9. CASE Now.fails = Late
  <2> DEFINE b == [ask EXCEPT !.late = TRUE]
  <2>1. b \in Ask
    BY <1>2, AskFields, Zenon
  <2>2. [b EXCEPT !.seen = seen] \in Ask
    <3> HIDE DEF b
    <3> QED
      BY <1>4, <2>1, AskFields, Zenon
  <2> DEFINE a == [ask EXCEPT !.late = TRUE, !.seen = seen]
  <2>3. a \in Ask
    BY <2>2
  <2>4. Onward(a)
    BY <1>1, <1>9 DEF Unheeded, Late
  <2>5. a = [ask EXCEPT !.late = TRUE, !.seen = seen]
    OBVIOUS
  <2> HIDE DEF a, b
  <2> QED
    BY <1>7, <1>9, <2>3, <2>4, <2>5
<1>10. CASE Now.fails \notin {Unheeded, Late}
  <2>1. Now.fails \in {400, 403, 404, 409, 500}
    BY <1>2, <1>10 DEF StmtOK
  <2>2. Answer(ask, Now.fails)
    BY <1>1, <1>10
  <2> QED
    BY <1>1, <2>1, <2>2, Refused
<1> QED
  BY <1>8, <1>9, <1>10

\* The end of the plan.
LEMMA FinishAsk == ASSUME AskInv, Still, Finish PROVE AskInv'
<1> DEFINE rows == ask.seen
           code == IF ask.late THEN 500 ELSE Routes[ask.endpoint].code
<1>1. ask.pc = "serve" /\ ~InPlan /\ Answer(ask, code)
  BY DEF Finish
<1>2. ask \in Ask /\ Caller /\ Seen /\ Len(Steps) \in Nat
  BY <1>1, CalledOK DEF AskInv, Serving, Ordered
<1>3. ask.at > Len(Steps)
  BY <1>1, <1>2 DEF InPlan, Steps, Caller
<1>4. code \in {200, 201, 204, 500} /\ (code # 500 => ~ask.late)
  <2>1. Routes[ask.endpoint].code \in {200, 201, 204}
    BY <1>1, CalledOK, Zenon DEF Called
  <2> QED
    BY <2>1
<1>5. Bound => \A r \in rows : InScope(r)
  BY <1>1, <1>3, SeenNarrowed
<1>6. ask.endpoint \in Complete /\ ask.role = "manager" /\ ~ask.late => ask.lost \/ Kept(rows)
  <2>1. ask.endpoint \in Complete => Len(Steps) >= 3
    BY <1>1, CalledOK DEF Ordered, Whole
  <2>2. ask.endpoint \in Complete => ask.at > 3
    BY <1>2, <1>3, <2>1 DEF Caller
  <2> QED
    BY <1>2, <2>2 DEF Seen
<1>7. rows \in SUBSET PathRows /\ (rows # {} => Has(Steps, Queries))
  BY <1>2 DEF Seen
<1> HIDE DEF code
<1>8. ask' = [ask EXCEPT !.seen = rows, !.pc = "answered", !.code = code]
  <2>1. [ask EXCEPT !.seen = ask.seen] = ask
    BY <1>2, SeenAgain
  <2> QED
    BY <1>1, <2>1 DEF Answer
<1> HIDE DEF rows
<1>9. /\ code \in Nat /\ (code \in 400..499 /\ ask.stored => ask.endpoint \in RefusingLate)
      /\ code \in 200..299 =>
            /\ ask.at > Len(Steps) \/ Steps[ask.at].does \in Telling
            /\ Bound => \A r \in rows : InScope(r)
            /\ ask.endpoint \in Complete /\ ask.role = "manager" => ask.lost \/ Kept(rows)
  BY <1>3, <1>4, <1>5, <1>6
<1> QED
  BY <1>1, <1>7, <1>8, <1>9, Answered, Zenon DEF Still

LEMMA NoAskOK == ASSUME ask' = NoAsk PROVE AskInv'
<1>1. NoAsk \in Ask /\ NoAsk.pc = "idle"
  BY DEF NoAsk, Ask, UserRole, Row, NoRow
<1> QED
  BY <1>1 DEF AskInv, RowsWereInScope, AnswersAreTrue

LEMMA ServeAsk == ASSUME AskInv, BaseInv, Serve PROVE AskInv'
<1>1. Still
  BY BaseFacts, Zenon DEF Serve, Still, vars
<1>2. CASE Done
  BY <1>2, NoAskOK DEF Done
<1> QED
  BY <1>1, <1>2, GuardsAsk, IdsAsk, OwnIdAsk, QueryAsk, QueryOwnAsk, CheckAsk, EmptyPatchAsk,
     StoreRowAsk, StatementFailsAsk, FinishAsk, Zenon DEF Serve

RowsOf(e) == IF Names(Routes[e].plan) THEN Scene.rows ELSE {NoRow}

\* The middleware: a request that is admitted may be from the organization of
\* its path, one that is refused has done nothing.
LEMMA ReceiveAsk == ASSUME AskInv, ClaimsInv, BaseInv, Receive PROVE AskInv'
<1>0. PICK s \in sessions, e \in Scene.endpoints, path \in {"own", "elsewhere"} :
        \E row \in RowsOf(e), code \in Screen(Routes[e], s.role, path) :
            ask' = Received(s, e, path, row, code)
  BY Zenon DEF Receive, RowsOf
<1>1. PICK row \in RowsOf(e), code \in Screen(Routes[e], s.role, path) :
        ask' = Received(s, e, path, row, code)
  BY <1>0
<1>2. UNCHANGED <<story, assignments, tenants>>
  BY DEF Receive, vars
<1>3. /\ s.user \in UserIds /\ s.role \in UserRole /\ e \in DOMAIN Routes /\ row \in Row
      /\ assignments[s.user] \in SUBSET Buildings /\ Linked(s.user) \in SUBSET TenantIds
  <2>1. s \in Claims
    BY <1>0 DEF ClaimsInv
  <2>2. Scene.rows \subseteq Row /\ e \in DOMAIN Routes
    BY <1>0, BaseFacts, AccessStoriesAssumption DEF Scene
  <2>3. NoRow \in Row
    BY DEF NoRow, Row
  <2>4. assignments[s.user] \in SUBSET Buildings /\ Linked(s.user) \in SUBSET TenantIds
    BY <2>1, BaseFacts DEF Claims, Linked
  <2> QED
    BY <1>1, <2>1, <2>2, <2>3, <2>4 DEF Claims, RowsOf
<1>4. code \in {Admitted, 400, 403}
  BY <1>1 DEF Screen, BindJSON
<1>5. code = Admitted =>
          /\ s.role \in Routes[e].plan.admits
          /\ Routes[e].tree \/ Routes[e].plan.asserts => assertOrgScope(s.role, path)
  BY <1>1 DEF Screen, BindJSON, Admitted, RequireOrganizationParam, assertOrgScope
<1> DEFINE recent == ActiveLately(s.user, s.role)
           pc == IF code = Admitted THEN "serve" ELSE "answered"
<1>6. recent \in BOOLEAN /\ pc \in {"idle", "serve", "answered"} /\ code \in Nat
  BY <1>4 DEF ActiveLately, ActiveAs, Admitted
<1> HIDE DEF recent, pc
<1>7. ask' = [pc |-> pc, endpoint |-> e, user |-> s.user, role |-> s.role,
              path |-> path, row |-> row, at |-> 1, ids |-> {}, own |-> None,
              seen |-> {}, code |-> code, stored |-> FALSE, lost |-> FALSE, late |-> FALSE,
              recent |-> recent, held |-> assignments[s.user], kept |-> assignments[s.user],
              linked |-> Linked(s.user)]
  <2> DEFINE held == assignments[s.user]
             linked == Linked(s.user)
  <2>1. ask' = [NoAsk EXCEPT
            !.pc = pc, !.endpoint = e, !.user = s.user, !.role = s.role, !.path = path,
            !.row = row, !.code = code, !.recent = recent,
            !.held = held, !.kept = held, !.linked = linked]
    BY <1>1, Zenon DEF Received, recent, pc
  <2> HIDE DEF held, linked
  <2>2. ask' = [pc |-> pc, endpoint |-> e, user |-> s.user, role |-> s.role,
                path |-> path, row |-> row, at |-> 1, ids |-> {}, own |-> None,
                seen |-> {}, code |-> code, stored |-> FALSE, lost |-> FALSE,
                late |-> FALSE, recent |-> recent, held |-> held, kept |-> held,
                linked |-> linked]
    BY <2>1 DEF NoAsk
  <2> QED
    BY <2>2 DEF held, linked
<1>8. ask' \in Ask
  <2> DEFINE held == assignments[s.user]
             linked == Linked(s.user)
  <2>1. /\ held \in SUBSET Buildings /\ linked \in SUBSET TenantIds
        /\ path \in {"own", "elsewhere"}
    BY <1>0, <1>3
  <2> HIDE DEF held, linked
  <2>2. ask' = [pc |-> pc, endpoint |-> e, user |-> s.user, role |-> s.role,
                path |-> path, row |-> row, at |-> 1, ids |-> {}, own |-> None,
                seen |-> {}, code |-> code, stored |-> FALSE, lost |-> FALSE,
                late |-> FALSE, recent |-> recent, held |-> held, kept |-> held,
                linked |-> linked]
    BY <1>7 DEF held, linked
  <2> QED
    BY <1>3, <1>6, <2>1, <2>2 DEF Ask
<1>9. ASSUME ask'.pc = "serve" PROVE Serving'
  <2>1. code = Admitted
    BY <1>7, <1>9 DEF pc
  <2>2. Len(Steps') \in Nat
    <3>1. HandlerOK(e, Routes[e])
      BY <1>3, RoutesOK
    <3> QED
      BY <1>7, <3>1 DEF HandlerOK, Ordered, Steps
  <2>3. Linked(s.user)' = Linked(s.user)
    BY <1>2 DEF Linked
  <2>4. Caller'
    BY <1>2, <1>3, <1>5, <1>7, <2>1, <2>2, <2>3 DEF Caller, Called
  <2>5. \A i : ~Ran(i)'
    BY <1>7, <2>2 DEF Ran
  <2>6. Passed' /\ Noted'
    BY <1>7, <2>5 DEF Passed, Noted
  <2>7. Seen'
    BY <1>7 DEF Seen
  <2> QED
    BY <2>4, <2>6, <2>7 DEF Serving
<1>10. ASSUME ask'.pc = "answered" PROVE code \in {400, 403}
  BY <1>4, <1>7, <1>10 DEF pc
<1>11. RowsWereInScope' /\ AnswersAreTrue'
  <2>1. CASE ask'.pc = "answered"
    <3>1. ~Succeeded' /\ ~ask'.stored
      BY <1>7, <1>10, <2>1 DEF Succeeded
    <3>2. Touched' = {}
      BY <3>1 DEF Touched
    <3> QED
      BY <3>1, <3>2 DEF RowsWereInScope, AnswersAreTrue
  <2>2. CASE ask'.pc # "answered"
    BY <2>2 DEF RowsWereInScope, AnswersAreTrue
  <2> QED
    BY <2>1, <2>2
<1> QED
  BY <1>8, <1>9, <1>11 DEF AskInv

\* Another request changes the accounts: what was established stays so, of the
\* buildings and the tenants the caller had at some time.
LEMMA WatchAsk == ASSUME AskInv, BaseInv, BaseInv', AccountsStep PROVE AskInv'
<1>1. UNCHANGED story
  BY DEF AccountsStep, Next
<1>2. CASE ask.pc # "serve"
  <2>1. ask' = ask
    BY <1>2 DEF AccountsStep, Watch
  <2>2. PathRows' = PathRows /\ (\A r : InPath(r)' <=> InPath(r)) /\ Touched' = Touched
        /\ Succeeded' = Succeeded
    BY <1>1, <2>1 DEF PathRows, InPath, Scene, Touched, Succeeded
  <2>3. RowsWereInScope' /\ AnswersAreTrue'
    BY <2>1, <2>2 DEF AskInv, RowsWereInScope, AnswersAreTrue
  <2> QED
    BY <1>2, <2>1, <2>3 DEF AskInv
<1>3. CASE ask.pc = "serve"
  <2>1. ask \in Ask /\ Caller /\ Passed /\ Seen /\ Noted
    BY <1>3 DEF AskInv, Serving
  <2> DEFINE held == ask.held \cup assignments'[ask.user]
             kept == ask.kept \cap assignments'[ask.user]
             linked == ask.linked \cup {n \in TenantIds : tenants'[n].user = ask.user}
  <2>2. ask' = [ask EXCEPT !.held = held, !.kept = kept, !.linked = linked]
    BY <1>3 DEF AccountsStep, Watch
  <2>3. held \in SUBSET Buildings /\ kept \in SUBSET Buildings /\ linked \in SUBSET TenantIds
    <3>1. assignments' \in [UserIds -> SUBSET Buildings]
      BY DEF BaseInv, TypeOK
    <3> QED
      BY <2>1, <3>1 DEF Ask, Caller
  <2>4. /\ ask.held \subseteq held /\ kept \subseteq ask.kept /\ ask.linked \subseteq linked
        /\ kept \subseteq assignments'[ask.user] /\ assignments'[ask.user] \subseteq held
    OBVIOUS
  <2> HIDE DEF held, kept, linked
  <2>5. /\ ask'.held = held /\ ask'.kept = kept /\ ask'.linked = linked
        /\ ask'.pc = ask.pc /\ ask'.endpoint = ask.endpoint /\ ask'.user = ask.user
        /\ ask'.role = ask.role /\ ask'.path = ask.path /\ ask'.row = ask.row
        /\ ask'.at = ask.at /\ ask'.ids = ask.ids /\ ask'.own = ask.own
        /\ ask'.seen = ask.seen /\ ask'.stored = ask.stored /\ ask'.lost = ask.lost
        /\ ask'.late = ask.late
    BY <2>1, <2>2 DEF Ask
  <2>6. ask' \in Ask
    BY <2>1, <2>2, <2>3 DEF Ask
  <2>7. /\ Called' = Called /\ Steps' = Steps /\ (Bound' <=> Bound) /\ PathRows' = PathRows
        /\ \A r : (InScope(r) => InScope(r)') /\ (InPath(r)' <=> InPath(r))
        /\ \A rows : Kept(rows) => Kept(rows)'
        /\ \A i : Ran(i)' <=> Ran(i)
    <3>1. Called' = Called /\ Steps' = Steps /\ (Bound' <=> Bound)
      BY <2>5 DEF Called, Steps, Bound
    <3>2. PathRows' = PathRows /\ \A r : InPath(r)' <=> InPath(r)
      BY <1>1, <2>5 DEF PathRows, InPath, Scene
    <3>3. \A r : InScope(r) => InScope(r)'
      BY <2>4, <2>5 DEF InScope
    <3>4. \A rows : Kept(rows) => Kept(rows)'
      BY <2>4, <2>5, <3>2 DEF Kept
    <3>5. \A i : Ran(i)' <=> Ran(i)
      BY <2>5, <3>1 DEF Ran
    <3> QED
      BY <3>1, <3>2, <3>3, <3>4, <3>5
  <2>8. Caller'
    <3>1. Linked(ask.user)' \subseteq linked
      BY <2>5 DEF Linked, linked
    <3> QED
      BY <2>1, <2>4, <2>5, <2>7, <3>1 DEF Caller
  <2>9. Passed'
    BY <2>1, <2>4, <2>5, <2>7 DEF Passed
  <2>10. Seen'
    BY <2>1, <2>5, <2>7 DEF Seen
  <2>11. Noted'
    BY <2>1, <2>5, <2>7 DEF Noted
  <2>12. RowsWereInScope' /\ AnswersAreTrue'
    BY <1>3, <2>5 DEF RowsWereInScope, AnswersAreTrue
  <2> QED
    BY <2>6, <2>8, <2>9, <2>10, <2>11, <2>12 DEF AskInv, Serving
<1> QED
  BY <1>2, <1>3

\* What reads the users table or the clock only, and founding an organization,
\* is no concern of the request in progress.
LEMMA ApartAsk ==
    ASSUME AskInv, UNCHANGED <<story, assignments, tenants, ask>> PROVE AskInv'
<1>1. Same /\ (InPlan' <=> InPlan)
  BY DEF Same, InPlan
<1>2. /\ Called' = Called /\ Steps' = Steps /\ (Bound' <=> Bound)
      /\ Linked(ask.user)' = Linked(ask.user) /\ PathRows' = PathRows
      /\ \A r : (InScope(r)' <=> InScope(r)) /\ (InPath(r)' <=> InPath(r))
      /\ \A rows : Kept(rows)' <=> Kept(rows)
  BY <1>1, SameTerms
<1>3. \A i : Ran(i)' <=> Ran(i)
  BY <1>2 DEF Ran
<1>4. ASSUME Serving PROVE Serving'
  <2>1. Caller' /\ Passed' /\ Noted'
    BY <1>2, <1>3, <1>4 DEF Serving, Caller, Passed, Noted
  <2>2. Seen'
    BY <1>2, <1>3, <1>4 DEF Serving, Seen
  <2> QED
    BY <2>1, <2>2 DEF Serving
<1>5. (Touched' = Touched) /\ (Succeeded' <=> Succeeded)
  BY DEF Touched, Succeeded
<1>6. AnswersAreTrue' <=> AnswersAreTrue
  BY <1>5 DEF AnswersAreTrue
<1>7. RowsWereInScope' <=> RowsWereInScope
  BY <1>2, <1>5 DEF RowsWereInScope
<1> QED
  BY <1>4, <1>6, <1>7 DEF AskInv

LEMMA AskInvStep ==
    ASSUME AskInv, ClaimsInv, BaseInv, BaseInv', [AccessNext]_accessVars PROVE AskInv'
<1>1. CASE Register \/ Login \/ Refresh \/ Tick \/ UNCHANGED accessVars
  <2>1. UNCHANGED <<story, assignments, tenants, ask>>
    BY <1>1 DEF Register, Login, Refresh, Tick, accessVars, vars
  <2> QED
    BY <2>1, ApartAsk
<1> QED
  BY <1>1, ReceiveAsk, ServeAsk, WatchAsk DEF AccessNext

-----------------------------------------------------------------------------
\* Tokens are forgotten when they expire, and so are former claims.
AgesInv ==
    /\ \A s \in sessions : s.age < RefreshTTL
    /\ \A l \in lately : l.ago < AccessTTL

LEMMA AgesInvInit == AccessInit => AgesInv
BY DEF AccessInit, AgesInv

LEMMA AgesInvStep ==
    ASSUME ClaimsInv, ClaimsInv', AgesInv, [AccessNext]_accessVars PROVE AgesInv'
<1> USE TTLAssumption
<1>1. CASE UNCHANGED <<sessions, lately>>
  BY <1>1 DEF AgesInv
<1>2. CASE Register \/ Login \/ Refresh
  <2>1. PICK u, role : IssueTokenPair(u, role)
    BY <1>2 DEF Register, Login, Refresh
  <2>2. lately' = lately
    BY <1>2 DEF Register, Login, Refresh
  <2>3. sessions' = sessions \cup {[user |-> u, role |-> role, age |-> 0]}
    BY <2>1 DEF IssueTokenPair
  <2>4. \A s \in sessions' : s.age < RefreshTTL
    BY <2>3 DEF AgesInv
  <2> QED
    BY <2>2, <2>4 DEF AgesInv
<1>3. CASE Tick
  <2>1. \A s \in sessions' : s.age < RefreshTTL
    BY <1>3 DEF Tick, ParseRefreshToken
  <2>2. ASSUME NEW l \in lately' PROVE l.ago < AccessTTL
    <3>1. PICK m \in lately : m.ago < AccessTTL - 1 /\ l = [m EXCEPT !.ago = @ + 1]
      BY <1>3, <2>2 DEF Tick
    <3>2. m.ago \in Nat /\ l.ago = m.ago + 1
      BY <3>1 DEF ClaimsInv, Former
    <3> QED
      BY <3>1, <3>2
  <2> QED
    BY <2>1, <2>2 DEF AgesInv
<1>4. CASE AccountsStep
  <2>1. sessions' = sessions
    BY <1>4 DEF AccountsStep
  <2>2. \A l \in lately' : l \in lately \/ l.ago = 0
    BY <1>4 DEF AccountsStep, Watch
  <2> QED
    BY <2>1, <2>2 DEF AgesInv
<1>5. CASE Receive \/ Serve \/ UNCHANGED accessVars
  <2>1. UNCHANGED <<sessions, lately>>
    BY <1>5, Zenon DEF Receive, Serve, accessVars
  <2> QED
    BY <1>1, <2>1
<1> QED
  BY <1>2, <1>3, <1>4, <1>5 DEF AccessNext

LEMMA AccessInvariance ==
    AccessSpec => [](BaseInv /\ ClaimsInv /\ AgesInv /\ AskInv)
<1> DEFINE Inv == BaseInv /\ ClaimsInv /\ AgesInv /\ AskInv
<1>1. AccessInit => Inv
  BY BaseInvInit, ClaimsInit, AgesInvInit, AskInvInit
<1>2. Inv /\ [AccessNext]_accessVars => Inv'
  <2> SUFFICES ASSUME Inv, [AccessNext]_accessVars PROVE Inv'
    OBVIOUS
  <2>1. BaseInv' /\ ClaimsInv'
    BY BaseInvStep, ClaimsStep
  <2> QED
    BY <2>1, AgesInvStep, AskInvStep
<1> QED
  BY <1>1, <1>2, PTL DEF AccessSpec

\* The tables, the token pairs and the request keep their types; no pair is
\* kept past its refresh token's life.
THEOREM AccessTypeCorrect == AccessSpec => []AccessTypeOK
<1>1. BaseInv /\ ClaimsInv /\ AgesInv /\ AskInv => AccessTypeOK
  <2> SUFFICES ASSUME BaseInv, ClaimsInv, AgesInv, AskInv PROVE AccessTypeOK
    OBVIOUS
  <2> USE TTLAssumption
  <2>1. TypeOK /\ ask \in Ask
    BY DEF BaseInv, AskInv
  <2>2. sessions \subseteq Session
    BY DEF ClaimsInv, AgesInv, Claims, Session
  <2>3. lately \subseteq [user: UserIds, role: UserRole, ago: 0..AccessTTL - 1]
    BY DEF ClaimsInv, AgesInv, Former
  <2> QED
    BY <2>1, <2>2, <2>3 DEF AccessTypeOK
<1> QED
  BY <1>1, AccessInvariance, PTL

\* Whatever a request shows or stores was in its caller's scope at some time of
\* the request (the path's organization, a manager's buildings, a tenant's own
\* leases and payments), whoever changes assignments and links meanwhile, and
\* a manager's list misses nothing that was in scope throughout.
THEOREM ScopesAreKept == AccessSpec => []RowsWereInScope
BY AccessInvariance, PTL DEF AskInv

\* A success has passed over no error and a refusal has stored nothing, but at
\* the endpoints that are named.
THEOREM TrueAnswers == AccessSpec => []AnswersAreTrue
BY AccessInvariance, PTL DEF AskInv
=============================================================================
