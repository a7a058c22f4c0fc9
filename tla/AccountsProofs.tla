---------------------------- MODULE AccountsProofs ----------------------------
(***************************************************************************)
(* Proofs about Accounts beside the sessions and requests of Access, for   *)
(* any number of requests, users, tokens, tenants and buildings, and any   *)
(* stories.                                                                *)
(*                                                                         *)
(* Rows once there stay (Grows), and a step changes the locals of one      *)
(* request and, of the others, only what their history or their            *)
(* transaction has seen (Kin).  BaseInv says what a request holds at each  *)
(* statement; SetupInv, GovernInv, InviteInv and ScopeInv stand on it and  *)
(* are about tokens, roles, invitations and buildings.                     *)
(***************************************************************************)
EXTENDS Access, TLAPS

InUse(us, u) == u \in UserIds /\ us[u].status # "absent"

Issued(ts, t) == ts[t].state # "absent"

Invited(ts, u) == \E t \in TokenIds : Issued(ts, t) /\ ts[t].mailed /\ ts[t].user = u

\* What a request holds in its locals at each statement.
Locals(r, us, ts) ==
    /\ r.pc = "idle" <=> r.op = "none"
    /\ r.op = "confirm" <=> r.pc \in {"activate", "mark"}
    /\ r.pc \in {"update", "refresh"} => r.op = "patch"
    /\ r.pc \in {"delete", "commit"} => r.list \subseteq Buildings
    /\ r.pc \in {"token", "mail"} => r.op \in {"setup", "tenant"}
    /\ r.pc \in {"find", "insert", "invite", "link"} => r.op = "tenant"
    /\ r.op = "tenant" => r.tenant \in TenantIds
    /\ r.pc \notin {"idle", "find", "insert"} => InUse(us, r.user)
    /\ r.pc \in {"activate", "mark", "mail"} =>
          r.token \in TokenIds /\ Issued(ts, r.token) /\ ts[r.token].user = r.user
    /\ r.pc = "link" => Invited(ts, r.user)

TokenRow(us, k) ==
    IF k.state = "absent" THEN ~k.mailed /\ k.passwords = 0 ELSE InUse(us, k.user)

\* A tenant that is linked has been sent a token.
Link(n, ts) == n.user # None => Invited(ts, n.user)

UserRow(u) == u.status = "absent" => u = NoUser

BaseInv ==
    /\ TypeOK
    /\ \A u \in UserIds : UserRow(users[u])
    /\ \A w \in Workers : Locals(req[w], users, tokens)
    /\ \A t \in TokenIds : TokenRow(users, tokens[t])
    /\ \A n \in TenantIds : Link(tenants[n], tokens)

LEMMA SceneType ==
    ASSUME story \in DOMAIN Stories
    PROVE  /\ Scene.actors \subseteq UserRole /\ Scene.newUsers \subseteq NewUser
           /\ Scene.tokens \subseteq TokenIds /\ Scene.tenants \subseteq TenantIds
           /\ Scene.emails \subseteq Emails /\ Scene.patches \subseteq Patch
BY StoriesAssumption DEF Scene

LEMMA IdleType == Idle \in Request /\ \A us, ts : Locals(Idle, us, ts)
BY ValuesAssumption DEF Idle, Request, NoBody, Patch, Lists, UserRole, Locals

LEMMA RowTypes == NoUser \in User /\ NoToken \in Token /\ NoTenant \in Tenant
BY DEF NoUser, User, UserRole, NoToken, Token, NoTenant, Tenant

LEMMA BaseInvInit == AccessInit => BaseInv
<1> SUFFICES ASSUME Init PROVE BaseInv
  BY DEF AccessInit
<1>1. TypeOK
  BY IdleType, RowTypes DEF Init, TypeOK
<1>2. ASSUME NEW w \in Workers PROVE Locals(req[w], users, tokens)
  BY IdleType DEF Init
<1>3. ASSUME NEW t \in TokenIds PROVE TokenRow(users, tokens[t])
  BY DEF Init, TokenRow, NoToken
<1>u. ASSUME NEW u \in UserIds PROVE UserRow(users[u])
  BY DEF Init, UserRow
<1>4. ASSUME NEW n \in TenantIds PROVE Link(tenants[n], tokens)
  BY DEF Init, Link, NoTenant
<1> QED
  BY <1>1, <1>2, <1>3, <1>4, <1>u DEF BaseInv

-----------------------------------------------------------------------------
\* Rows are never removed, and a token stays its user's.
UsersGrow == \A u \in UserIds : Exists(u) => users'[u].status # "absent"

TokensGrow ==
    \A t \in TokenIds : Issued(tokens, t) =>
        /\ Issued(tokens', t) /\ tokens'[t].user = tokens[t].user
        /\ tokens[t].mailed => tokens'[t].mailed

\* What a step of another request may change of one: its history, and the rows
\* its transaction has seen.
Kin(r, s) ==
    /\ s \in Request
    /\ s.op = r.op /\ s.pc = r.pc /\ s.user = r.user /\ s.token = r.token
    /\ s.tenant = r.tenant /\ s.actor = r.actor /\ s.body = r.body /\ s.list = r.list
    /\ s.fresh => r.fresh

LEMMA KinLocals ==
    ASSUME NEW r, NEW s, Locals(r, users, tokens), Kin(r, s), UsersGrow, TokensGrow
    PROVE  Locals(s, users', tokens')
<1>1. \A u : InUse(users, u) => InUse(users', u)
  BY DEF UsersGrow, InUse, Exists
<1>2. \A u : Invited(tokens, u) => Invited(tokens', u)
  BY DEF TokensGrow, Invited
<1>3. s.pc \in {"activate", "mark", "mail"} =>
        s.token \in TokenIds /\ Issued(tokens', s.token) /\ tokens'[s.token].user = s.user
  BY DEF TokensGrow, Locals, Kin
<1> QED
  BY <1>1, <1>2, <1>3 DEF Locals, Kin

LEMMA SameKin == ASSUME NEW r \in Request PROVE Kin(r, r)
BY DEF Kin

\* What is left to show of a step of Accounts.
LEMMA StepBase ==
    ASSUME BaseInv, NEW w \in Workers,
           req' \in [Workers -> Request], Locals(req'[w], users', tokens'),
           \A v \in Workers \ {w} : Kin(req[v], req'[v]),
           UsersGrow, TokensGrow, UNCHANGED story,
           users' \in [UserIds -> User], assignments' \in [UserIds -> SUBSET Buildings],
           tokens' \in [TokenIds -> Token], tenants' \in [TenantIds -> Tenant],
           scope' \in [UserIds -> [asked: SUBSET Buildings, disturbed: BOOLEAN]],
           stranded' \in [UserIds -> BOOLEAN],
           \A u \in UserIds : UserRow(users'[u]),
           \A t \in TokenIds : TokenRow(users', tokens'[t]),
           \A n \in TenantIds : Link(tenants'[n], tokens')
    PROVE  BaseInv'
<1>1. ASSUME NEW v \in Workers PROVE Locals(req'[v], users', tokens')
  <2>1. CASE v = w
    BY <2>1
  <2>2. CASE v # w
    <3>1. Kin(req[v], req'[v]) /\ Locals(req[v], users, tokens)
      BY <2>2 DEF BaseInv
    <3> QED
      BY <3>1, KinLocals
  <2> QED
    BY <2>1, <2>2
<1>2. TypeOK'
  BY DEF BaseInv, TypeOK
<1> QED
  BY <1>1, <1>2 DEF BaseInv

LEMMA BaseFacts ==
    ASSUME BaseInv
    PROVE  /\ story \in DOMAIN Stories
           /\ users \in [UserIds -> User] /\ assignments \in [UserIds -> SUBSET Buildings]
           /\ tokens \in [TokenIds -> Token] /\ tenants \in [TenantIds -> Tenant]
           /\ req \in [Workers -> Request]
           /\ scope \in [UserIds -> [asked: SUBSET Buildings, disturbed: BOOLEAN]]
           /\ stranded \in [UserIds -> BOOLEAN]
           /\ \A w \in Workers : Locals(req[w], users, tokens)
           /\ \A u \in UserIds : UserRow(users[u])
           /\ \A t \in TokenIds : TokenRow(users, tokens[t])
           /\ \A n \in TenantIds : Link(tenants[n], tokens)
BY DEF BaseInv, TypeOK

\* Rows that are left alone.
LEMMA RowsStay ==
    ASSUME BaseInv
    PROVE  /\ UNCHANGED users => UsersGrow /\ \A u \in UserIds : UserRow(users'[u])
           /\ UNCHANGED tokens => TokensGrow
           /\ UsersGrow /\ UNCHANGED tokens => \A t \in TokenIds : TokenRow(users', tokens'[t])
           /\ UNCHANGED tenants /\ TokensGrow => \A n \in TenantIds : Link(tenants'[n], tokens')
<1>1. UNCHANGED users => UsersGrow /\ \A u \in UserIds : UserRow(users'[u])
  BY BaseFacts DEF UsersGrow, Exists
<1>2. UNCHANGED tokens => TokensGrow
  BY DEF TokensGrow, Issued
<1>3. UsersGrow /\ UNCHANGED tokens => \A t \in TokenIds : TokenRow(users', tokens'[t])
  BY BaseFacts DEF UsersGrow, TokenRow, InUse, Exists
<1>4. UNCHANGED tenants /\ TokensGrow => \A n \in TenantIds : Link(tenants'[n], tokens')
  BY BaseFacts DEF TokensGrow, Link, Invited
<1> QED
  BY <1>1, <1>2, <1>3, <1>4

\* A step that changes one request alone, and no row but perhaps history.
LEMMA LocalBase ==
    ASSUME BaseInv, NEW w \in Workers, NEW r \in Request, Locals(r, users, tokens),
           req' = [req EXCEPT ![w] = r],
           UNCHANGED <<story, users, assignments, tokens, tenants>>,
           scope' \in [UserIds -> [asked: SUBSET Buildings, disturbed: BOOLEAN]],
           stranded' \in [UserIds -> BOOLEAN]
    PROVE  BaseInv'
<1>1. /\ req' \in [Workers -> Request] /\ req'[w] = r
      /\ \A v \in Workers \ {w} : req'[v] = req[v] /\ req[v] \in Request
  BY BaseFacts
<1>2. Locals(req'[w], users', tokens')
  BY <1>1
<1>3. \A v \in Workers \ {w} : Kin(req[v], req'[v])
  BY <1>1, SameKin
<1>4. UsersGrow /\ TokensGrow
      /\ (\A u \in UserIds : UserRow(users'[u]))
      /\ (\A t \in TokenIds : TokenRow(users', tokens'[t]))
      /\ \A n \in TenantIds : Link(tenants'[n], tokens')
  BY RowsStay
<1>5. /\ users' \in [UserIds -> User] /\ assignments' \in [UserIds -> SUBSET Buildings]
      /\ tokens' \in [TokenIds -> Token] /\ tenants' \in [TenantIds -> Tenant]
  BY BaseFacts
<1> QED
  BY <1>1, <1>2, <1>3, <1>4, <1>5, StepBase

-----------------------------------------------------------------------------
LEMMA PatchLoadBase ==
    ASSUME BaseInv, UNCHANGED story, NEW w \in Workers, PatchLoad(w) PROVE BaseInv'
<1>1. PICK u \in UserIds, p \in Scene.patches, a \in Scene.actors :
        /\ Exists(u)
        /\ req' = [req EXCEPT ![w] =
              [Idle EXCEPT !.op = "patch", !.pc = "update", !.user = u, !.actor = a,
                           !.body = p, !.fresh = TRUE]]
  BY DEF PatchLoad
<1> DEFINE r == [Idle EXCEPT !.op = "patch", !.pc = "update", !.user = u, !.actor = a,
                             !.body = p, !.fresh = TRUE]
<1>2. p \in Patch /\ a \in UserRole
  BY BaseFacts, SceneType
<1>3. r \in Request
  BY <1>2, IdleType DEF Request
<1>4. Locals(r, users, tokens)
  BY <1>1, IdleType DEF Locals, Idle, InUse, Exists
<1> HIDE DEF r
<1> QED
  BY <1>1, <1>3, <1>4, BaseFacts, LocalBase DEF PatchLoad, r

LEMMA PatchRefreshBase ==
    ASSUME BaseInv, UNCHANGED story, NEW w \in Workers, PatchRefresh(w) PROVE BaseInv'
<1> DEFINE list == IF users[req[w].user].role = "manager" THEN req[w].body.list ELSE {}
           q == [req[w] EXCEPT !.pc = "delete", !.list = list]
           r == IF (users[req[w].user].role = "manager" \/ req[w].body.listed)
                   /\ list \subseteq Buildings
                THEN q ELSE Idle
<1>1. /\ req[w].pc = "refresh" /\ req' = [req EXCEPT ![w] = r]
      /\ scope' = [scope EXCEPT ![req[w].user].disturbed = @ \/ ~(list \subseteq Buildings)]
      /\ UNCHANGED <<users, assignments, tokens, tenants, stranded>>
  BY DEF PatchRefresh
<1>2. req[w] \in Request /\ Locals(req[w], users, tokens) /\ list \in Lists
  BY BaseFacts DEF Request, Patch, Lists
<1>3. q \in Request
  BY <1>2 DEF Request
<1>4. list \subseteq Buildings => Locals(q, users, tokens)
  BY <1>1, <1>2 DEF Locals, Request
<1>5. r \in Request /\ Locals(r, users, tokens)
  BY <1>3, <1>4, IdleType
<1> HIDE DEF r
<1>6. scope' \in [UserIds -> [asked: SUBSET Buildings, disturbed: BOOLEAN]]
  BY ZenonT(40), <1>1, BaseFacts
<1> QED
  BY <1>1, <1>5, <1>6, BaseFacts, LocalBase

LEMMA ReplaceDeleteBase ==
    ASSUME BaseInv, UNCHANGED story, NEW w \in Workers, ReplaceDelete(w) PROVE BaseInv'
<1> DEFINE r == [req[w] EXCEPT !.pc = "commit", !.seen = assignments[req[w].user]]
<1>1. req[w].pc = "delete" /\ req[w] \in Request /\ Locals(req[w], users, tokens)
  BY BaseFacts DEF ReplaceDelete
<1>2. assignments[req[w].user] \in SUBSET Buildings
  BY <1>1, BaseFacts DEF Locals, InUse
<1>3. r \in Request /\ Locals(r, users, tokens)
  BY <1>1, <1>2 DEF Locals, Request
<1>4. req' = [req EXCEPT ![w] = r]
  BY DEF ReplaceDelete
<1> HIDE DEF r
<1> QED
  BY <1>3, <1>4, BaseFacts, LocalBase DEF ReplaceDelete

LEMMA StartPasswordSetupBase ==
    ASSUME BaseInv, UNCHANGED story, NEW w \in Workers, StartPasswordSetup(w) PROVE BaseInv'
<1>1. PICK u \in UserIds :
        /\ Exists(u)
        /\ req' = [req EXCEPT ![w] = [Idle EXCEPT !.op = "setup", !.pc = "token", !.user = u]]
  BY DEF StartPasswordSetup
<1> DEFINE r == [Idle EXCEPT !.op = "setup", !.pc = "token", !.user = u]
<1>2. r \in Request
  BY IdleType DEF Request
<1>3. Locals(r, users, tokens)
  BY <1>1 DEF Locals, Idle, InUse, Exists
<1> HIDE DEF r
<1> QED
  BY <1>1, <1>2, <1>3, BaseFacts, LocalBase DEF StartPasswordSetup, r

LEMMA FindLoginBase ==
    ASSUME BaseInv, UNCHANGED story, NEW w \in Workers, FindLogin(w) PROVE BaseInv'
<1>1. req[w].pc = "find" /\ req[w] \in Request /\ Locals(req[w], users, tokens)
      /\ UNCHANGED <<users, assignments, tokens, tenants, scope, stranded>>
  BY BaseFacts DEF FindLogin
<1>2. CASE req' = [req EXCEPT ![w].pc = "insert"]
  <2> DEFINE r == [req[w] EXCEPT !.pc = "insert"]
  <2>1. r \in Request /\ Locals(r, users, tokens)
    BY <1>1 DEF Locals, Request
  <2>2. req' = [req EXCEPT ![w] = r]
    BY <1>2
  <2> HIDE DEF r
  <2> QED
    BY <1>1, <2>1, <2>2, BaseFacts, LocalBase
<1>3. ASSUME NEW u \in UserIds, users[u].role = "tenant",
             users[u].email = tenants[req[w].tenant].email,
             req' = [req EXCEPT ![w] = [@ EXCEPT !.pc = "invite", !.user = u]]
      PROVE  BaseInv'
  <2> DEFINE r == [req[w] EXCEPT !.pc = "invite", !.user = u]
  <2>1. r \in Request
    BY <1>1 DEF Request
  <2>2. Exists(u)
    BY <1>3, BaseFacts DEF UserRow, NoUser, Exists
  <2>3. Locals(r, users, tokens)
    BY <1>1, <2>2 DEF Locals, Request, InUse, Exists
  <2>4. req' = [req EXCEPT ![w] = r]
    BY <1>3
  <2> HIDE DEF r
  <2> QED
    BY <1>1, <2>1, <2>3, <2>4, BaseFacts, LocalBase
<1>4. CASE req' = [req EXCEPT ![w] = Idle]
  BY <1>1, <1>4, IdleType, BaseFacts, LocalBase
<1> QED
  BY <1>2, <1>3, <1>4 DEF FindLogin

-----------------------------------------------------------------------------
\* A step that writes users: what is left to show is the rows and the request.
LEMMA UsersBase ==
    ASSUME BaseInv, NEW w \in Workers, NEW r \in Request, req' = [req EXCEPT ![w] = r],
           users' \in [UserIds -> User], UsersGrow, \A u \in UserIds : UserRow(users'[u]),
           Locals(r, users', tokens),
           UNCHANGED <<story, assignments, tokens, tenants>>,
           scope' \in [UserIds -> [asked: SUBSET Buildings, disturbed: BOOLEAN]],
           stranded' \in [UserIds -> BOOLEAN]
    PROVE  BaseInv'
<1>1. /\ req' \in [Workers -> Request] /\ req'[w] = r
      /\ \A v \in Workers \ {w} : req'[v] = req[v] /\ req[v] \in Request
  BY BaseFacts
<1>2. Locals(req'[w], users', tokens')
  BY <1>1
<1>3. \A v \in Workers \ {w} : Kin(req[v], req'[v])
  BY <1>1, SameKin
<1>4. TokensGrow
      /\ (\A t \in TokenIds : TokenRow(users', tokens'[t]))
      /\ \A n \in TenantIds : Link(tenants'[n], tokens')
  BY RowsStay
<1>5. /\ assignments' \in [UserIds -> SUBSET Buildings]
      /\ tokens' \in [TokenIds -> Token] /\ tenants' \in [TenantIds -> Tenant]
  BY BaseFacts
<1> QED
  BY <1>1, <1>2, <1>3, <1>4, <1>5, StepBase

LEMMA CreateUserBase ==
    ASSUME BaseInv, UNCHANGED story, NEW w \in Workers, CreateUser(w) PROVE BaseInv'
<1>1. PICK u \in UserIds, n \in Scene.newUsers, a \in Scene.actors :
          /\ ~Exists(u)
          /\ users' = [users EXCEPT ![u] =
                [NoUser EXCEPT !.status = n.status, !.role = n.role, !.email = n.email]]
          /\ LET replaces == n.role = "manager" /\ n.list \subseteq Buildings
             IN  /\ req' = [req EXCEPT ![w] =
                       IF replaces THEN [Idle EXCEPT !.op = "create", !.pc = "delete",
                                                     !.user = u, !.list = n.list]
                                   ELSE Idle]
                 /\ scope' = [scope EXCEPT ![u] = [asked |-> n.list \cap Buildings,
                                                   disturbed |-> ~replaces]]
          /\ stranded' = [stranded EXCEPT ![u] = TRUE]
  BY DEF CreateUser
<1> DEFINE replaces == n.role = "manager" /\ n.list \subseteq Buildings
           row == [NoUser EXCEPT !.status = n.status, !.role = n.role, !.email = n.email]
           q == [Idle EXCEPT !.op = "create", !.pc = "delete", !.user = u, !.list = n.list]
           r == IF replaces THEN q ELSE Idle
<1>2. n \in NewUser
  BY BaseFacts, SceneType
<1>3. row \in User /\ row.status # "absent"
  BY <1>2, RowTypes DEF User, NoUser, NewUser, UserStatus
<1>4. users' = [users EXCEPT ![u] = row] /\ req' = [req EXCEPT ![w] = r]
  BY <1>1
<1> HIDE DEF row
<1>5. /\ users' \in [UserIds -> User] /\ UsersGrow /\ \A v \in UserIds : UserRow(users'[v])
      /\ InUse(users', u)
  BY <1>3, <1>4, BaseFacts DEF UsersGrow, UserRow, InUse, Exists
<1>6. q \in Request
  BY <1>2, IdleType DEF Request, NewUser
<1>7. replaces => Locals(q, users', tokens)
  BY <1>5 DEF Locals, Idle
<1>8. r \in Request /\ Locals(r, users', tokens)
  BY <1>6, <1>7, IdleType
<1>9. /\ scope' \in [UserIds -> [asked: SUBSET Buildings, disturbed: BOOLEAN]]
      /\ stranded' \in [UserIds -> BOOLEAN]
  BY <1>1, BaseFacts
<1> HIDE DEF r
<1> QED
  BY <1>4, <1>5, <1>8, <1>9, UsersBase DEF CreateUser

\* What storing a body does to the other requests.
LEMMA AfterPatchKin ==
    ASSUME BaseInv, NEW w \in Workers, req[w].pc = "update", req' = AfterPatch(w, req[w])
    PROVE  /\ req' \in [Workers -> Request]
           /\ req'[w] = [req[w] EXCEPT !.pc = "refresh"]
           /\ \A v \in Workers \ {w} : Kin(req[v], req'[v])
<1>0. req[w] \in Request
  BY BaseFacts
<1>1. req'[w] = [req[w] EXCEPT !.pc = "refresh"] /\ req'[w] \in Request
  <2>1. req'[w] = [req[w] EXCEPT !.pc = "refresh"]
    BY DEF AfterPatch
  <2>2. [req[w] EXCEPT !.pc = "refresh"] \in Request
    BY <1>0 DEF Request
  <2> QED
    BY <2>1, <2>2
<1>2. ASSUME NEW v \in Workers \ {w} PROVE Kin(req[v], req'[v])
  <2>1. req[v] \in Request
    BY BaseFacts
  <2>2. req'[v] = req[v] \/ req'[v] = [req[v] EXCEPT !.fresh = FALSE]
    BY DEF AfterPatch
  <2> QED
    BY <2>1, <2>2 DEF Kin, Request
<1>3. req' \in [Workers -> Request]
  BY <1>1, <1>2 DEF AfterPatch, Kin
<1> QED
  BY <1>1, <1>2, <1>3

\* The row a body is stored in.
Patched(u, b) == [u EXCEPT !.email = Set(@, b.email), !.role = Set(@, b.role),
                           !.status = Set(@, b.status)]

LEMMA PatchedType ==
    ASSUME NEW u \in User, u.status # "absent", NEW b \in Patch
    PROVE  /\ Patched(u, b) \in User /\ Patched(u, b).status # "absent"
           /\ Patched(u, b).role = Set(u.role, b.role)
           /\ Patched(u, b).status = Set(u.status, b.status)
BY DEF Patched, User, Patch, Set, UserStatus

LEMMA PatchUpdateRows ==
    ASSUME BaseInv, NEW w \in Workers, PatchUpdate(w), ~EmailTaken(req[w].body.email, req[w].user)
    PROVE  LET r == req[w]
           IN  /\ r \in Request /\ InUse(users, r.user)
               /\ users' = [users EXCEPT ![r.user] = Patched(@, r.body)]
               /\ req' = AfterPatch(w, r)
               /\ scope' = Asking(w, r.user, r.body.list)
               /\ stranded' = [stranded EXCEPT ![r.user] = @ \/ r.body.status # Keep]
<1>1. req[w] \in Request /\ req[w].pc = "update" /\ InUse(users, req[w].user)
  BY BaseFacts DEF PatchUpdate, Locals
<1>2. users' = [users EXCEPT ![req[w].user].email = Set(@, req[w].body.email),
                             ![req[w].user].role = Set(@, req[w].body.role),
                             ![req[w].user].status = Set(@, req[w].body.status)]
  BY DEF PatchUpdate
<1>3. users' = [users EXCEPT ![req[w].user] = Patched(@, req[w].body)]
  BY <1>1, <1>2, BaseFacts DEF Patched, User, InUse
<1> QED
  BY <1>1, <1>3 DEF PatchUpdate

LEMMA PatchUpdateBase ==
    ASSUME BaseInv, UNCHANGED story, NEW w \in Workers, PatchUpdate(w) PROVE BaseInv'
<1> DEFINE r == req[w]
           q == [r EXCEPT !.pc = "refresh"]
<1>1. r.pc = "update" /\ r \in Request /\ Locals(r, users, tokens)
      /\ UNCHANGED <<assignments, tokens, tenants>>
  BY BaseFacts DEF PatchUpdate
<1>2. CASE EmailTaken(r.body.email, r.user)
  <2>1. req' = [req EXCEPT ![w] = Idle] /\ UNCHANGED <<users, scope, stranded>>
    BY <1>2 DEF PatchUpdate
  <2> QED
    BY <1>1, <2>1, IdleType, BaseFacts, LocalBase
<1>3. CASE ~EmailTaken(r.body.email, r.user)
  <2>1. /\ InUse(users, r.user)
        /\ users' = [users EXCEPT ![r.user] = Patched(@, r.body)]
        /\ req' = AfterPatch(w, r)
        /\ scope' = Asking(w, r.user, r.body.list)
        /\ stranded' = [stranded EXCEPT ![r.user] = @ \/ r.body.status # Keep]
    BY <1>3, PatchUpdateRows
  <2>2. r.body \in Patch /\ r.user \in UserIds /\ users[r.user] \in User
        /\ users[r.user].status # "absent"
    BY <1>1, <2>1, BaseFacts DEF Request, InUse
  <2>3. users' \in [UserIds -> User] /\ UsersGrow /\ \A v \in UserIds : UserRow(users'[v])
    BY <2>1, <2>2, PatchedType, BaseFacts DEF UsersGrow, UserRow, Exists
  <2>4. InUse(users', r.user)
    BY <2>1, <2>2, PatchedType, BaseFacts DEF InUse
  <2>5. Locals(q, users', tokens)
    BY <1>1, <2>4 DEF Locals, Request
  <2>6. scope' \in [UserIds -> [asked: SUBSET Buildings, disturbed: BOOLEAN]]
    BY <2>1, <2>2, BaseFacts DEF Asking, OthersRescoping
  <2>7. stranded' \in [UserIds -> BOOLEAN]
    BY <2>1, BaseFacts
  <2>8. /\ req' \in [Workers -> Request] /\ req'[w] = q
        /\ \A v \in Workers \ {w} : Kin(req[v], req'[v])
    BY <1>1, <2>1, AfterPatchKin
  <2>9. TokensGrow
        /\ (\A t \in TokenIds : TokenRow(users', tokens'[t]))
        /\ \A n \in TenantIds : Link(tenants'[n], tokens')
    BY <1>1, <2>3, RowsStay
  <2> HIDE DEF q
  <2>10. /\ assignments' \in [UserIds -> SUBSET Buildings]
         /\ tokens' \in [TokenIds -> Token] /\ tenants' \in [TenantIds -> Tenant]
         /\ Locals(req'[w], users', tokens')
    BY <1>1, <2>5, <2>8, BaseFacts
  <2> QED
    BY <2>3, <2>6, <2>7, <2>8, <2>9, <2>10, StepBase
<1> QED
  BY <1>2, <1>3

LEMMA InsertLoginBase ==
    ASSUME BaseInv, UNCHANGED story, NEW w \in Workers, InsertLogin(w) PROVE BaseInv'
<1> DEFINE n == req[w].tenant
<1>1. req[w].pc = "insert" /\ req[w] \in Request /\ Locals(req[w], users, tokens)
      /\ UNCHANGED <<assignments, tokens, tenants, scope>>
  BY BaseFacts DEF InsertLogin
<1>2. CASE req' = [req EXCEPT ![w] = Idle] /\ UNCHANGED <<users, stranded>>
  BY <1>1, <1>2, IdleType, BaseFacts, LocalBase
<1>3. ASSUME NEW u \in UserIds, ~Exists(u),
             users' = [users EXCEPT ![u] = [status |-> "invited", role |-> "tenant",
                                            email |-> tenants[n].email, tenant |-> n]],
             stranded' = [stranded EXCEPT ![u] = FALSE],
             req' = [req EXCEPT ![w].pc = "invite", ![w].user = u]
      PROVE  BaseInv'
  <2> DEFINE row == [status |-> "invited", role |-> "tenant",
                     email |-> tenants[n].email, tenant |-> n]
             r == [req[w] EXCEPT !.pc = "invite", !.user = u]
  <2>1. n \in TenantIds /\ tenants[n] \in Tenant
    BY <1>1, BaseFacts DEF Locals
  <2>2. row \in User /\ row.status # "absent"
    BY <2>1 DEF User, UserStatus, UserRole, Tenant
  <2>3. users' = [users EXCEPT ![u] = row] /\ req' = [req EXCEPT ![w] = r]
    BY <1>1, <1>3, BaseFacts
  <2> HIDE DEF row
  <2>4. /\ users' \in [UserIds -> User] /\ UsersGrow /\ \A v \in UserIds : UserRow(users'[v])
        /\ InUse(users', u)
    BY <1>3, <2>2, <2>3, BaseFacts DEF UsersGrow, UserRow, InUse, Exists
  <2>5. r \in Request
    BY <1>1 DEF Request
  <2>6. Locals(r, users', tokens)
    BY <1>1, <2>4 DEF Locals, Request
  <2>7. stranded' \in [UserIds -> BOOLEAN]
    BY <1>3, BaseFacts
  <2> HIDE DEF r
  <2> QED
    BY <1>1, <2>3, <2>4, <2>5, <2>6, <2>7, BaseFacts, UsersBase
<1> QED
  BY <1>2, <1>3 DEF InsertLogin

LEMMA InviteLoginBase ==
    ASSUME BaseInv, UNCHANGED story, NEW w \in Workers, InviteLogin(w) PROVE BaseInv'
<1> DEFINE u == req[w].user
           row == [users[u] EXCEPT !.status = "invited", !.tenant = req[w].tenant]
           r == [req[w] EXCEPT !.pc = "token"]
<1>1. /\ req[w].pc = "invite" /\ req[w] \in Request /\ Locals(req[w], users, tokens)
      /\ UNCHANGED <<assignments, tokens, tenants, scope>>
      /\ stranded' = [stranded EXCEPT ![u] = FALSE]
  BY BaseFacts DEF InviteLogin
<1>2. InUse(users, u) /\ users[u] \in User /\ req[w].tenant \in TenantIds
  BY <1>1, BaseFacts DEF Locals, InUse
<1>3. users' = [users EXCEPT ![u] = row] /\ req' = [req EXCEPT ![w] = r]
  BY <1>2, BaseFacts DEF InviteLogin, InUse, User
<1>4. row \in User /\ row.status # "absent"
  BY <1>2 DEF User, UserStatus
<1> HIDE DEF row
<1>5. /\ users' \in [UserIds -> User] /\ UsersGrow /\ \A v \in UserIds : UserRow(users'[v])
      /\ InUse(users', u)
  BY <1>2, <1>3, <1>4, BaseFacts DEF UsersGrow, UserRow, InUse, Exists
<1>6. r \in Request /\ Locals(r, users', tokens)
  BY <1>1, <1>5 DEF Locals, Request
<1>7. /\ stranded' \in [UserIds -> BOOLEAN]
      /\ scope' \in [UserIds -> [asked: SUBSET Buildings, disturbed: BOOLEAN]]
  BY <1>1, BaseFacts
<1> HIDE DEF r
<1> QED
  BY <1>1, <1>3, <1>5, <1>6, <1>7, UsersBase

-----------------------------------------------------------------------------
LEMMA ReplaceCommitBase ==
    ASSUME BaseInv, UNCHANGED story, NEW w \in Workers, ReplaceCommit(w) PROVE BaseInv'
<1> DEFINE r == req[w]
           remaining == assignments[r.user] \ r.seen
           Unseen(v) == IF req[v].user = r.user THEN [req[v] EXCEPT !.seen = @ \ r.seen]
                                                ELSE req[v]
<1>1. r.pc = "commit" /\ r \in Request /\ Locals(r, users, tokens)
      /\ UNCHANGED <<users, tokens, tenants, scope, stranded>>
  BY BaseFacts DEF ReplaceCommit
<1>2. CASE req' = [req EXCEPT ![w] = Idle] /\ UNCHANGED assignments
  BY <1>1, <1>2, IdleType, BaseFacts, LocalBase
<1>3. CASE /\ assignments' = [assignments EXCEPT ![r.user] = remaining \cup r.list]
           /\ req' = [v \in Workers |-> IF v = w THEN Idle ELSE Unseen(v)]
  <2>1. assignments' \in [UserIds -> SUBSET Buildings]
    <3>1. r.list \subseteq Buildings
      BY <1>1 DEF Locals
    <3> QED
      BY <1>3, <3>1, BaseFacts
  <2>2. ASSUME NEW v \in Workers \ {w} PROVE Kin(req[v], req'[v])
    <3>1. req[v] \in Request /\ req'[v] = Unseen(v)
      BY <1>3, BaseFacts
    <3>2. [req[v] EXCEPT !.seen = @ \ r.seen] \in Request
      BY <3>1 DEF Request
    <3> QED
      BY <3>1, <3>2 DEF Kin, Request
  <2>3. req'[w] = Idle /\ req' \in [Workers -> Request]
    BY <1>3, <2>2, IdleType DEF Kin
  <2>4. /\ UsersGrow /\ TokensGrow /\ (\A u \in UserIds : UserRow(users'[u]))
        /\ (\A t \in TokenIds : TokenRow(users', tokens'[t]))
        /\ \A n \in TenantIds : Link(tenants'[n], tokens')
    BY <1>1, RowsStay
  <2>5. Locals(req'[w], users', tokens')
    BY <2>3, IdleType
  <2>6. /\ users' \in [UserIds -> User]
        /\ tokens' \in [TokenIds -> Token] /\ tenants' \in [TenantIds -> Tenant]
        /\ scope' \in [UserIds -> [asked: SUBSET Buildings, disturbed: BOOLEAN]]
        /\ stranded' \in [UserIds -> BOOLEAN]
    BY <1>1, BaseFacts
  <2> QED
    BY <2>1, <2>2, <2>3, <2>4, <2>5, <2>6, StepBase
<1> QED
  BY <1>2, <1>3 DEF ReplaceCommit

\* A step that writes tokens.
LEMMA TokensBase ==
    ASSUME BaseInv, NEW w \in Workers, NEW r \in Request, req' = [req EXCEPT ![w] = r],
           tokens' \in [TokenIds -> Token], TokensGrow,
           users' \in [UserIds -> User], UsersGrow, \A u \in UserIds : UserRow(users'[u]),
           \A t \in TokenIds : TokenRow(users', tokens'[t]),
           Locals(r, users', tokens'),
           UNCHANGED <<story, assignments, tenants>>,
           scope' \in [UserIds -> [asked: SUBSET Buildings, disturbed: BOOLEAN]],
           stranded' \in [UserIds -> BOOLEAN]
    PROVE  BaseInv'
<1>1. /\ req' \in [Workers -> Request] /\ req'[w] = r
      /\ \A v \in Workers \ {w} : req'[v] = req[v] /\ req[v] \in Request
  BY BaseFacts
<1>2. Locals(req'[w], users', tokens')
  BY <1>1
<1>3. \A v \in Workers \ {w} : Kin(req[v], req'[v])
  BY <1>1, SameKin
<1>4. \A n \in TenantIds : Link(tenants'[n], tokens')
  BY RowsStay
<1>5. assignments' \in [UserIds -> SUBSET Buildings] /\ tenants' \in [TenantIds -> Tenant]
  BY BaseFacts
<1> QED
  BY <1>1, <1>2, <1>3, <1>4, <1>5, StepBase

\* A token changes that has its user, or gets one.
LEMMA TokenChanges ==
    ASSUME BaseInv, NEW t \in TokenIds, NEW k \in Token, tokens' = [tokens EXCEPT ![t] = k],
           UNCHANGED users,
           IF k.state = "absent" THEN ~Issued(tokens, t) /\ ~k.mailed /\ k.passwords = 0
                                 ELSE InUse(users, k.user),
           Issued(tokens, t) => k.user = tokens[t].user /\ (tokens[t].mailed => k.mailed)
    PROVE  /\ tokens' \in [TokenIds -> Token] /\ TokensGrow
           /\ \A s \in TokenIds : TokenRow(users', tokens'[s])
           /\ tokens'[t] = k
<1>1. tokens' \in [TokenIds -> Token] /\ tokens'[t] = k
      /\ \A s \in TokenIds \ {t} : tokens'[s] = tokens[s]
  BY BaseFacts
<1>2. TokensGrow
  BY <1>1 DEF TokensGrow, Issued
<1>3. ASSUME NEW s \in TokenIds PROVE TokenRow(users', tokens'[s])
  <2>1. CASE s = t
    BY <1>1, <2>1 DEF TokenRow
  <2>2. CASE s # t
    BY <1>1, <2>2, BaseFacts DEF TokenRow
  <2> QED
    BY <2>1, <2>2
<1> QED
  BY <1>1, <1>2, <1>3

\* A token that has been issued.
LEMMA IssuedToken ==
    ASSUME BaseInv, NEW t \in TokenIds, Issued(tokens, t)
    PROVE  tokens[t] \in Token /\ InUse(users, tokens[t].user)
BY BaseFacts DEF Issued, TokenRow

\* A step that writes an issued token, and no user.
LEMMA IssuedBase ==
    ASSUME BaseInv, NEW w \in Workers, NEW r \in Request, req' = [req EXCEPT ![w] = r],
           NEW t \in TokenIds, Issued(tokens, t), NEW k \in Token, k.state # "absent",
           k.user = tokens[t].user, tokens[t].mailed => k.mailed,
           tokens' = [tokens EXCEPT ![t] = k],
           TokensGrow => Locals(r, users, tokens'),
           UNCHANGED <<story, users, assignments, tenants>>,
           scope' \in [UserIds -> [asked: SUBSET Buildings, disturbed: BOOLEAN]],
           stranded' \in [UserIds -> BOOLEAN]
    PROVE  BaseInv'
<1>1. InUse(users, k.user)
  BY IssuedToken
<1>2. /\ tokens' \in [TokenIds -> Token] /\ TokensGrow
      /\ \A s \in TokenIds : TokenRow(users', tokens'[s])
  BY <1>1, TokenChanges
<1>3. UsersGrow /\ (\A u \in UserIds : UserRow(users'[u])) /\ users' \in [UserIds -> User]
  BY RowsStay, BaseFacts
<1>4. Locals(r, users', tokens')
  BY <1>2
<1> QED
  BY <1>2, <1>3, <1>4, TokensBase

LEMMA IssueTokenBase ==
    ASSUME BaseInv, UNCHANGED story, NEW w \in Workers, IssueToken(w) PROVE BaseInv'
<1>1. req[w].pc = "token" /\ req[w] \in Request /\ Locals(req[w], users, tokens)
      /\ UNCHANGED <<users, assignments, tenants, scope, stranded>>
  BY BaseFacts DEF IssueToken
<1>2. PICK t \in Scene.tokens :
          /\ tokens[t].state = "absent"
          /\ tokens' = [tokens EXCEPT ![t].state = "live", ![t].user = req[w].user]
          /\ req' = [req EXCEPT ![w].pc = "mail", ![w].token = t]
  BY DEF IssueToken
<1> DEFINE k == [tokens[t] EXCEPT !.state = "live", !.user = req[w].user]
           r == [req[w] EXCEPT !.pc = "mail", !.token = t]
<1>3. t \in TokenIds /\ tokens[t] \in Token /\ InUse(users, req[w].user)
  BY <1>1, BaseFacts, SceneType DEF Locals
<1>4. tokens' = [tokens EXCEPT ![t] = k] /\ req' = [req EXCEPT ![w] = r]
  BY <1>1, <1>2, <1>3, BaseFacts
<1>5. k \in Token /\ k.state = "live" /\ k.user = req[w].user
  BY <1>3 DEF Token, InUse
<1>6. r \in Request
  BY <1>1, <1>3 DEF Request
<1> HIDE DEF k
<1>7. /\ tokens' \in [TokenIds -> Token] /\ TokensGrow
      /\ \A s \in TokenIds : TokenRow(users', tokens'[s])
      /\ tokens'[t] = k
  BY <1>1, <1>2, <1>3, <1>4, <1>5, TokenChanges DEF Issued
<1>8. Locals(r, users', tokens')
  BY <1>1, <1>3, <1>5, <1>7 DEF Locals, Request, Issued
<1>9. UsersGrow /\ (\A u \in UserIds : UserRow(users'[u])) /\ users' \in [UserIds -> User]
      /\ scope' \in [UserIds -> [asked: SUBSET Buildings, disturbed: BOOLEAN]]
      /\ stranded' \in [UserIds -> BOOLEAN]
  BY <1>1, RowsStay, BaseFacts
<1> HIDE DEF r
<1> QED
  BY <1>1, <1>4, <1>6, <1>7, <1>8, <1>9, TokensBase

LEMMA SendInviteBase ==
    ASSUME BaseInv, UNCHANGED story, NEW w \in Workers, SendInvite(w) PROVE BaseInv'
<1> DEFINE t == req[w].token
           k == [tokens[t] EXCEPT !.mailed = TRUE]
           q == [req[w] EXCEPT !.pc = "link"]
           r == IF req[w].op = "tenant" THEN q ELSE Idle
<1>1. req[w].pc = "mail" /\ req[w] \in Request /\ Locals(req[w], users, tokens)
      /\ UNCHANGED <<users, assignments, tenants, scope, stranded>>
  BY BaseFacts DEF SendInvite
<1>2. t \in TokenIds /\ Issued(tokens, t) /\ tokens[t].user = req[w].user /\ tokens[t] \in Token
  BY <1>1, BaseFacts DEF Locals
<1>3. tokens' = [tokens EXCEPT ![t] = k] /\ req' = [req EXCEPT ![w] = r]
  BY <1>1, <1>2, BaseFacts DEF SendInvite
<1>4. k \in Token /\ k.state # "absent" /\ k.user = tokens[t].user /\ k.mailed
  BY <1>2 DEF Token, Issued
<1> HIDE DEF k
<1>5. tokens'[t] = k
  BY <1>2, <1>3, BaseFacts
<1>6. Invited(tokens', req[w].user)
  BY <1>2, <1>4, <1>5 DEF Invited, Issued
<1>7. q \in Request /\ (req[w].op = "tenant" => Locals(q, users, tokens'))
  BY <1>1, <1>6 DEF Locals, Request
<1>8. r \in Request /\ Locals(r, users, tokens')
  BY <1>7, IdleType
<1>9. scope' \in [UserIds -> [asked: SUBSET Buildings, disturbed: BOOLEAN]]
      /\ stranded' \in [UserIds -> BOOLEAN]
  BY <1>1, BaseFacts
<1> HIDE DEF r, t
<1> QED
  BY <1>1, <1>2, <1>3, <1>4, <1>8, <1>9, IssuedBase

LEMMA ConfirmReadBase ==
    ASSUME BaseInv, UNCHANGED story, NEW w \in Workers, ConfirmRead(w) PROVE BaseInv'
<1>1. UNCHANGED <<users, assignments, tenants, scope, stranded>>
  BY DEF ConfirmRead
<1>2. PICK t \in TokenIds :
          /\ tokens[t].state = "live"
          /\ req' = [req EXCEPT ![w] = [Idle EXCEPT !.op = "confirm", !.pc = "activate",
                                                    !.token = t, !.user = tokens[t].user]]
          /\ tokens' = [tokens EXCEPT ![t].excused = @ \/ Confirming(t)]
  BY DEF ConfirmRead
<1> DEFINE k == [tokens[t] EXCEPT !.excused = @ \/ Confirming(t)]
           r == [Idle EXCEPT !.op = "confirm", !.pc = "activate",
                             !.token = t, !.user = tokens[t].user]
<1>3. Issued(tokens, t) /\ tokens[t] \in Token /\ InUse(users, tokens[t].user)
  BY <1>2, IssuedToken DEF Issued
<1>4. tokens' = [tokens EXCEPT ![t] = k] /\ req' = [req EXCEPT ![w] = r]
  BY <1>2, <1>3, BaseFacts
<1>5. k \in Token /\ k.state # "absent" /\ k.user = tokens[t].user /\ k.mailed = tokens[t].mailed
  BY <1>2, <1>3 DEF Token, Confirming
<1>6. r \in Request
  BY <1>3, IdleType DEF Request, InUse
<1>7. ASSUME TokensGrow PROVE Locals(r, users, tokens')
  <2>1. Issued(tokens', t) /\ tokens'[t].user = tokens[t].user
    BY <1>3, <1>7 DEF TokensGrow
  <2>2. r.op = "confirm" /\ r.pc = "activate" /\ r.token = t /\ r.user = tokens[t].user
    BY DEF Idle
  <2> HIDE DEF r
  <2> QED
    BY <1>3, <2>1, <2>2 DEF Locals
<1>8. scope' \in [UserIds -> [asked: SUBSET Buildings, disturbed: BOOLEAN]]
      /\ stranded' \in [UserIds -> BOOLEAN]
  BY <1>1, BaseFacts
<1> HIDE DEF r, k
<1> QED
  BY <1>1, <1>3, <1>4, <1>5, <1>6, <1>7, <1>8, IssuedBase

LEMMA ConfirmMarkBase ==
    ASSUME BaseInv, UNCHANGED story, NEW w \in Workers, ConfirmMark(w) PROVE BaseInv'
<1> DEFINE t == req[w].token
           k == [tokens[t] EXCEPT !.state = "used"]
<1>1. req[w].pc = "mark" /\ req[w] \in Request /\ Locals(req[w], users, tokens)
      /\ UNCHANGED <<users, assignments, tenants, scope, stranded>>
      /\ req' = [req EXCEPT ![w] = Idle]
  BY BaseFacts DEF ConfirmMark
<1>2. t \in TokenIds /\ Issued(tokens, t) /\ tokens[t] \in Token
  BY <1>1, BaseFacts DEF Locals
<1>3. tokens' = [tokens EXCEPT ![t] = k]
  BY <1>2, BaseFacts DEF ConfirmMark
<1>4. k \in Token /\ k.state # "absent" /\ k.user = tokens[t].user /\ k.mailed = tokens[t].mailed
  BY <1>2 DEF Token
<1>5. scope' \in [UserIds -> [asked: SUBSET Buildings, disturbed: BOOLEAN]]
      /\ stranded' \in [UserIds -> BOOLEAN]
  BY <1>1, BaseFacts
<1> HIDE DEF k, t
<1> QED
  BY <1>1, <1>2, <1>3, <1>4, <1>5, IdleType, IssuedBase

LEMMA ConfirmActivateBase ==
    ASSUME BaseInv, UNCHANGED story, NEW w \in Workers, ConfirmActivate(w) PROVE BaseInv'
<1> DEFINE t == req[w].token
           u == req[w].user
           k == [tokens[t] EXCEPT !.passwords = IF @ = 0 THEN 1 ELSE 2]
           row == [users[u] EXCEPT !.status = "active"]
           r == [req[w] EXCEPT !.pc = "mark"]
<1>1. req[w].pc = "activate" /\ req[w] \in Request /\ Locals(req[w], users, tokens)
      /\ UNCHANGED <<assignments, tenants, scope>> /\ stranded' = [stranded EXCEPT ![u] = FALSE]
  BY BaseFacts DEF ConfirmActivate
<1>2. /\ t \in TokenIds /\ Issued(tokens, t) /\ tokens[t] \in Token /\ tokens[t].user = u
      /\ InUse(users, u) /\ users[u] \in User
  BY <1>1, BaseFacts DEF Locals, InUse
<1>3. /\ tokens' = [tokens EXCEPT ![t] = k] /\ users' = [users EXCEPT ![u] = row]
      /\ req' = [req EXCEPT ![w] = r]
  BY <1>2, BaseFacts DEF ConfirmActivate, InUse
<1>4. k \in Token /\ k.state = tokens[t].state /\ k.user = u /\ k.mailed = tokens[t].mailed
  BY <1>2 DEF Token
<1>5. row \in User /\ row.status # "absent"
  BY <1>2 DEF User, UserStatus
<1> HIDE DEF k, row
<1>6. /\ users' \in [UserIds -> User] /\ UsersGrow /\ \A v \in UserIds : UserRow(users'[v])
      /\ InUse(users', u)
  BY <1>2, <1>3, <1>5, BaseFacts DEF UsersGrow, UserRow, InUse, Exists
<1>7. /\ tokens' \in [TokenIds -> Token] /\ tokens'[t] = k
      /\ \A s \in TokenIds \ {t} : tokens'[s] = tokens[s]
  BY <1>2, <1>3, <1>4, BaseFacts
<1>8. TokensGrow
  BY <1>2, <1>4, <1>7 DEF TokensGrow, Issued
<1>9. \A s \in TokenIds : TokenRow(users', tokens'[s])
  BY <1>2, <1>4, <1>6, <1>7, BaseFacts DEF TokenRow, InUse, UsersGrow, Exists, Issued
<1>10. r \in Request /\ Locals(r, users', tokens')
  BY <1>1, <1>2, <1>4, <1>6, <1>7 DEF Locals, Request, Issued
<1>11. stranded' \in [UserIds -> BOOLEAN]
       /\ scope' \in [UserIds -> [asked: SUBSET Buildings, disturbed: BOOLEAN]]
  BY <1>1, BaseFacts
<1> HIDE DEF r
<1> QED
  BY <1>1, <1>3, <1>6, <1>7, <1>8, <1>9, <1>10, <1>11, TokensBase

\* A step that writes tenants.
LEMMA TenantsBase ==
    ASSUME BaseInv, NEW w \in Workers, NEW r \in Request, Locals(r, users, tokens),
           req' = [req EXCEPT ![w] = r],
           NEW n \in TenantIds, NEW k \in Tenant, Link(k, tokens),
           tenants' = [tenants EXCEPT ![n] = k],
           UNCHANGED <<story, users, assignments, tokens, scope, stranded>>
    PROVE  BaseInv'
<1>1. /\ req' \in [Workers -> Request] /\ req'[w] = r
      /\ \A v \in Workers \ {w} : req'[v] = req[v] /\ req[v] \in Request
  BY BaseFacts
<1>2. Locals(req'[w], users', tokens')
  BY <1>1
<1>3. \A v \in Workers \ {w} : Kin(req[v], req'[v])
  BY <1>1, SameKin
<1>4. UsersGrow /\ TokensGrow
      /\ (\A u \in UserIds : UserRow(users'[u]))
      /\ \A t \in TokenIds : TokenRow(users', tokens'[t])
  BY RowsStay
<1>5. tenants' \in [TenantIds -> Tenant] /\ \A m \in TenantIds : Link(tenants'[m], tokens')
  BY BaseFacts
<1>6. /\ users' \in [UserIds -> User] /\ assignments' \in [UserIds -> SUBSET Buildings]
      /\ tokens' \in [TokenIds -> Token] /\ stranded' \in [UserIds -> BOOLEAN]
      /\ scope' \in [UserIds -> [asked: SUBSET Buildings, disturbed: BOOLEAN]]
  BY BaseFacts
<1> QED
  BY <1>1, <1>2, <1>3, <1>4, <1>5, <1>6, StepBase

LEMMA CreateTenantBase ==
    ASSUME BaseInv, UNCHANGED story, NEW w \in Workers, CreateTenant(w) PROVE BaseInv'
<1>1. PICK n \in Scene.tenants, e \in Scene.emails \cup {None} :
          /\ tenants' = [tenants EXCEPT ![n] = [exists |-> TRUE, email |-> e, user |-> None]]
          /\ req' = [req EXCEPT ![w] = IF e = None THEN Idle
                        ELSE [Idle EXCEPT !.op = "tenant", !.pc = "find", !.tenant = n]]
  BY DEF CreateTenant
<1> DEFINE k == [exists |-> TRUE, email |-> e, user |-> None]
           q == [Idle EXCEPT !.op = "tenant", !.pc = "find", !.tenant = n]
           r == IF e = None THEN Idle ELSE q
<1>2. n \in TenantIds /\ e \in Emails \cup {None}
  BY BaseFacts, SceneType
<1>3. k \in Tenant /\ Link(k, tokens)
  BY <1>2 DEF Tenant, Link
<1>4. q \in Request /\ Locals(q, users, tokens)
  BY <1>2, IdleType DEF Request, Locals, Idle
<1>5. r \in Request /\ Locals(r, users, tokens) /\ req' = [req EXCEPT ![w] = r]
  BY <1>1, <1>4, IdleType
<1>6. /\ UNCHANGED <<users, assignments, tokens, scope, stranded>>
      /\ tenants' = [tenants EXCEPT ![n] = k]
  BY <1>1 DEF CreateTenant
<1> HIDE DEF k, r
<1> QED
  BY <1>2, <1>3, <1>5, <1>6, TenantsBase

LEMMA LinkTenantBase ==
    ASSUME BaseInv, UNCHANGED story, NEW w \in Workers, LinkTenant(w) PROVE BaseInv'
<1> DEFINE n == req[w].tenant
           k == [tenants[n] EXCEPT !.user = req[w].user]
<1>1. req[w].pc = "link" /\ req[w] \in Request /\ Locals(req[w], users, tokens)
      /\ UNCHANGED <<users, assignments, tokens, scope, stranded>>
      /\ req' = [req EXCEPT ![w] = Idle]
  BY BaseFacts DEF LinkTenant
<1>2. n \in TenantIds /\ Invited(tokens, req[w].user) /\ tenants[n] \in Tenant
      /\ req[w].user \in UserIds
  BY <1>1, BaseFacts DEF Locals, InUse
<1>3. tenants' = [tenants EXCEPT ![n] = k]
  BY <1>2, BaseFacts DEF LinkTenant
<1>4. k \in Tenant /\ k.user = req[w].user
  BY <1>2 DEF Tenant
<1> HIDE DEF k, n
<1>5. Link(k, tokens)
  BY <1>2, <1>4 DEF Link
<1> QED
  BY <1>1, <1>2, <1>3, <1>4, <1>5, IdleType, TenantsBase

LEMMA AbortBase == ASSUME BaseInv, UNCHANGED story, NEW w \in Workers, Abort(w) PROVE BaseInv'
<1>1. /\ req[w].pc # "idle" /\ req[w] \in Request /\ Locals(req[w], users, tokens)
      /\ req' = [req EXCEPT ![w] = Idle] /\ UNCHANGED <<users, assignments, tenants>>
  BY BaseFacts DEF Abort
<1>2. scope' \in [UserIds -> [asked: SUBSET Buildings, disturbed: BOOLEAN]]
  BY ZenonT(40), <1>1, BaseFacts DEF Abort
<1>3. stranded' \in [UserIds -> BOOLEAN]
  BY <1>1, BaseFacts DEF Abort
<1>4. CASE req[w].op = "confirm"
  <2> DEFINE t == req[w].token
             k == [tokens[t] EXCEPT !.excused = TRUE]
  <2>1. t \in TokenIds /\ Issued(tokens, t) /\ tokens[t] \in Token
    BY <1>1, <1>4, BaseFacts DEF Locals
  <2>2. tokens' = [tokens EXCEPT ![t] = k]
    BY <1>4, <2>1, BaseFacts DEF Abort
  <2>3. k \in Token /\ k.state # "absent" /\ k.user = tokens[t].user /\ k.mailed = tokens[t].mailed
    BY <2>1 DEF Token, Issued
  <2> HIDE DEF k, t
  <2> QED
    BY <1>1, <1>2, <1>3, <2>1, <2>2, <2>3, IdleType, IssuedBase
<1>5. CASE req[w].op # "confirm"
  <2>1. UNCHANGED tokens
    BY <1>5 DEF Abort
  <2> QED
    BY <1>1, <1>2, <1>3, <2>1, IdleType, LocalBase
<1> QED
  BY <1>4, <1>5

LEMMA ExpireTokenBase == ASSUME BaseInv, UNCHANGED story, ExpireToken PROVE BaseInv'
<1>1. UNCHANGED <<users, assignments, tenants, req, scope, stranded>>
  BY DEF ExpireToken
<1>2. PICK t \in TokenIds :
          tokens[t].state = "live" /\ tokens' = [tokens EXCEPT ![t].state = "expired"]
  BY DEF ExpireToken
<1> DEFINE k == [tokens[t] EXCEPT !.state = "expired"]
<1>3. Issued(tokens, t) /\ tokens[t] \in Token /\ InUse(users, tokens[t].user)
  BY <1>2, IssuedToken DEF Issued
<1>4. tokens' = [tokens EXCEPT ![t] = k]
  BY <1>2
<1>5. k \in Token /\ k.state # "absent" /\ k.user = tokens[t].user /\ k.mailed = tokens[t].mailed
  BY <1>3 DEF Token
<1> HIDE DEF k
<1>6. /\ tokens' \in [TokenIds -> Token] /\ TokensGrow
      /\ \A s \in TokenIds : TokenRow(users', tokens'[s])
  BY <1>1, <1>3, <1>4, <1>5, TokenChanges
<1>7. UsersGrow /\ (\A u \in UserIds : UserRow(users'[u]))
      /\ \A n \in TenantIds : Link(tenants'[n], tokens')
  BY <1>1, <1>6, RowsStay
<1>8. ASSUME NEW w \in Workers PROVE Locals(req'[w], users', tokens')
  <2>1. req[w] \in Request /\ Locals(req[w], users, tokens) /\ req'[w] = req[w]
    BY <1>1, BaseFacts
  <2> QED
    BY <1>6, <1>7, <2>1, SameKin, KinLocals
<1>9. TypeOK'
  BY <1>1, <1>6 DEF BaseInv, TypeOK
<1> QED
  BY <1>6, <1>7, <1>8, <1>9 DEF BaseInv

\* The first user of the organization.
LEMMA RegisterBase == ASSUME BaseInv, Register PROVE BaseInv'
<1>1. UNCHANGED <<story, assignments, tokens, tenants, req, scope>>
  BY DEF Register
<1>2. PICK u \in UserIds, role \in Scene.founders \cap isBootstrapRole, e \in Scene.emails :
         CreateOrganizationAndUser(u, role, e)
  BY DEF Register
<1> DEFINE row == [NoUser EXCEPT !.status = "active", !.role = role, !.email = e]
<1>3. /\ \A v \in UserIds : ~Exists(v)
      /\ users' = [users EXCEPT ![u] = row] /\ stranded' = [stranded EXCEPT ![u] = TRUE]
  BY <1>2 DEF CreateOrganizationAndUser
<1>4. e \in Emails /\ role \in UserRole
  BY BaseFacts, SceneType DEF isBootstrapRole, UserRole
<1>5. row \in User /\ row.status # "absent"
  BY <1>4, RowTypes DEF User, NoUser, UserStatus
<1> HIDE DEF row
<1>6. /\ users' \in [UserIds -> User] /\ UsersGrow /\ \A v \in UserIds : UserRow(users'[v])
  BY <1>3, <1>5, BaseFacts DEF UsersGrow, UserRow, Exists
<1>7. TokensGrow
      /\ (\A t \in TokenIds : TokenRow(users', tokens'[t]))
      /\ \A n \in TenantIds : Link(tenants'[n], tokens')
  BY <1>1, <1>6, RowsStay
<1>8. ASSUME NEW w \in Workers PROVE Locals(req'[w], users', tokens')
  <2>1. req[w] \in Request /\ Locals(req[w], users, tokens) /\ req'[w] = req[w]
    BY <1>1, BaseFacts
  <2> QED
    BY <1>6, <1>7, <2>1, SameKin, KinLocals
<1>9. stranded' \in [UserIds -> BOOLEAN]
  BY <1>3, BaseFacts
<1>10. TypeOK'
  BY <1>1, <1>6, <1>9 DEF BaseInv, TypeOK
<1> QED
  BY <1>6, <1>7, <1>8, <1>10 DEF BaseInv

\* A step of Access is one of Accounts, a registration, or touches no table.
LEMMA AccessSteps ==
    ASSUME [AccessNext]_accessVars
    PROVE  \/ UNCHANGED vars
           \/ Register
           \/ UNCHANGED story /\ ExpireToken
           \/ UNCHANGED story /\ \E w \in Workers : Step(w)
BY DEF AccessNext, accessVars, AccountsStep, Next, Login, Refresh, Tick, Receive, Serve

LEMMA BaseInvStep == ASSUME BaseInv, [AccessNext]_accessVars PROVE BaseInv'
<1>1. CASE UNCHANGED vars
  BY <1>1 DEF vars, BaseInv, TypeOK
<1>2. ASSUME UNCHANGED story, NEW w \in Workers, Step(w) PROVE BaseInv'
  BY <1>2, CreateUserBase, PatchLoadBase, PatchUpdateBase, PatchRefreshBase, ReplaceDeleteBase,
     ReplaceCommitBase, StartPasswordSetupBase, IssueTokenBase, SendInviteBase, ConfirmReadBase,
     ConfirmActivateBase, ConfirmMarkBase, CreateTenantBase, FindLoginBase, InsertLoginBase,
     InviteLoginBase, LinkTenantBase, AbortBase
  DEF Step
<1> QED
  BY <1>1, <1>2, RegisterBase, ExpireTokenBase, AccessSteps

-----------------------------------------------------------------------------
(***************************************************************************)
(* Which step does what.                                                   *)
(***************************************************************************)
\* Of the other requests a step changes history and transactions only.
LEMMA StepKin ==
    ASSUME BaseInv, NEW w \in Workers, Step(w)
    PROVE  \A v \in Workers \ {w} : Kin(req[v], req'[v])
<1> SUFFICES ASSUME NEW v \in Workers \ {w} PROVE Kin(req[v], req'[v])
  OBVIOUS
<1>1. req[v] \in Request /\ req \in [Workers -> Request]
  BY BaseFacts
<1>2. CASE PatchUpdate(w) /\ ~EmailTaken(req[w].body.email, req[w].user)
  BY <1>2, PatchUpdateRows, AfterPatchKin DEF PatchUpdate
<1>3. CASE PatchUpdate(w) /\ EmailTaken(req[w].body.email, req[w].user)
  BY <1>1, <1>3, SameKin DEF PatchUpdate
<1>4. CASE ReplaceCommit(w)
  <2>1. \/ req'[v] = req[v]
        \/ req'[v] = [req[v] EXCEPT !.seen = @ \ req[w].seen]
    BY <1>1, <1>4 DEF ReplaceCommit
  <2> QED
    BY <1>1, <2>1, SameKin DEF Kin, Request
<1>5. CASE ~PatchUpdate(w) /\ ~ReplaceCommit(w)
  <2>1. req'[v] = req[v]
    <3>1. CASE CreateUser(w) \/ PatchLoad(w) \/ PatchRefresh(w) \/ ReplaceDelete(w)
      BY <1>1, <3>1 DEF CreateUser, PatchLoad, PatchRefresh, ReplaceDelete
    <3>2. CASE \/ StartPasswordSetup(w) \/ IssueToken(w) \/ SendInvite(w)
               \/ ConfirmRead(w) \/ ConfirmActivate(w) \/ ConfirmMark(w)
      BY <1>1, <3>2 DEF StartPasswordSetup, IssueToken, SendInvite, ConfirmRead,
                        ConfirmActivate, ConfirmMark
    <3>3. CASE \/ CreateTenant(w) \/ FindLogin(w) \/ InsertLogin(w) \/ InviteLogin(w)
               \/ LinkTenant(w) \/ Abort(w)
      BY <1>1, <3>3 DEF CreateTenant, FindLogin, InsertLogin, InviteLogin, LinkTenant, Abort
    <3> QED
      BY <1>5, <3>1, <3>2, <3>3 DEF Step
  <2> QED
    BY <1>1, <2>1, SameKin
<1> QED
  BY <1>2, <1>3, <1>4, <1>5

\* The step of a request that does not confirm a token before or after it.
ElseStep(w) ==
    /\ Step(w)
    /\ ~ConfirmRead(w) /\ ~ConfirmActivate(w) /\ ~ConfirmMark(w)
    /\ req[w].op # "confirm"

\* Passwords are set and tokens used up by confirmations only.
LEMMA ElseStepTokens ==
    ASSUME BaseInv, NEW w \in Workers, ElseStep(w)
    PROVE  /\ req'[w].op # "confirm"
           /\ \A t \in TokenIds :
                 /\ tokens'[t].excused = tokens[t].excused
                 /\ tokens'[t].passwords = tokens[t].passwords
                 /\ Issued(tokens, t) => tokens'[t].state = tokens[t].state
                                         /\ tokens'[t].user = tokens[t].user
<1>1. req[w] \in Request /\ req \in [Workers -> Request] /\ tokens \in [TokenIds -> Token]
  BY BaseFacts
<1>2. CASE CreateUser(w) \/ PatchLoad(w) \/ PatchRefresh(w) \/ ReplaceDelete(w)
  <2>1. UNCHANGED tokens
    BY <1>2 DEF CreateUser, PatchLoad, PatchRefresh, ReplaceDelete
  <2>2. CASE CreateUser(w)
    BY <1>1, <2>1, <2>2 DEF CreateUser, Idle
  <2>3. CASE PatchLoad(w)
    BY <1>1, <2>1, <2>3 DEF PatchLoad, Idle
  <2>4. CASE PatchRefresh(w)
    BY <1>1, <2>1, <2>4 DEF PatchRefresh, ElseStep, Idle, Request
  <2>5. CASE ReplaceDelete(w)
    BY <1>1, <2>1, <2>5 DEF ReplaceDelete, ElseStep, Request
  <2> QED
    BY <1>2, <2>2, <2>3, <2>4, <2>5
<1>3. CASE PatchUpdate(w)
  <2>1. UNCHANGED tokens /\ req[w].pc = "update"
    BY <1>3 DEF PatchUpdate
  <2>2. CASE EmailTaken(req[w].body.email, req[w].user)
    BY <1>1, <1>3, <2>1, <2>2 DEF PatchUpdate, Idle
  <2>3. CASE ~EmailTaken(req[w].body.email, req[w].user)
    <3>1. req'[w] = [req[w] EXCEPT !.pc = "refresh"]
      BY <1>3, <2>1, <2>3, PatchUpdateRows, AfterPatchKin
    <3> QED
      BY <1>1, <2>1, <3>1 DEF ElseStep, Request
  <2> QED
    BY <2>2, <2>3
<1>4. CASE ReplaceCommit(w)
  BY <1>1, <1>4 DEF ReplaceCommit, Idle
<1>5. CASE StartPasswordSetup(w)
  BY <1>1, <1>5 DEF StartPasswordSetup, Idle
<1>6. CASE IssueToken(w)
  <2>1. PICK t \in Scene.tokens :
          /\ tokens[t].state = "absent"
          /\ tokens' = [tokens EXCEPT ![t].state = "live", ![t].user = req[w].user]
          /\ req' = [req EXCEPT ![w].pc = "mail", ![w].token = t]
    BY <1>6 DEF IssueToken
  <2>2. req'[w].op # "confirm"
    BY <1>1, <2>1 DEF Request, ElseStep
  <2>3. ASSUME NEW s \in TokenIds
        PROVE  /\ tokens'[s].excused = tokens[s].excused
               /\ tokens'[s].passwords = tokens[s].passwords
               /\ Issued(tokens, s) => tokens'[s] = tokens[s]
    BY <1>1, <2>1 DEF Token, Issued
  <2> QED
    BY <2>2, <2>3
<1>7. CASE SendInvite(w)
  BY <1>1, <1>7 DEF SendInvite, Idle, Token, Request, ElseStep
<1>8. CASE CreateTenant(w) \/ FindLogin(w) \/ LinkTenant(w)
  <2>1. UNCHANGED tokens
    BY <1>8 DEF CreateTenant, FindLogin, LinkTenant
  <2>2. CASE CreateTenant(w)
    BY <1>1, <2>1, <2>2 DEF CreateTenant, Idle
  <2>3. CASE FindLogin(w)
    <3>1. CASE req' = [req EXCEPT ![w].pc = "insert"]
      BY <1>1, <2>1, <3>1 DEF ElseStep, Request
    <3>2. ASSUME NEW u \in UserIds,
                 req' = [req EXCEPT ![w] = IF users[u].role = "tenant"
                                           THEN [@ EXCEPT !.pc = "invite", !.user = u] ELSE Idle]
          PROVE  req'[w].op # "confirm"
      BY <1>1, <3>2 DEF ElseStep, Idle, Request
    <3> QED
      BY <2>1, <2>3, <3>1, <3>2 DEF FindLogin
  <2>4. CASE LinkTenant(w)
    BY <1>1, <2>1, <2>4 DEF LinkTenant, Idle
  <2> QED
    BY <1>8, <2>2, <2>3, <2>4
<1>9. CASE InsertLogin(w) \/ InviteLogin(w)
  BY <1>1, <1>9 DEF InsertLogin, InviteLogin, ElseStep, Idle, Request
<1>10. CASE Abort(w)
  BY <1>1, <1>10 DEF Abort, ElseStep, Idle
<1> QED
  BY <1>2, <1>3, <1>4, <1>5, <1>6, <1>7, <1>8, <1>9, <1>10 DEF ElseStep, Step

-----------------------------------------------------------------------------
(***************************************************************************)
(* Password setup.                                                         *)
(***************************************************************************)
Confirms(r, t) == r.op = "confirm" /\ r.token = t

\* As long as no confirmations overlapped and none was given up, a token has one
\* confirmation at a time, and one that set its password is about to mark it.
OneTime(t) ==
    ~tokens[t].excused =>
        /\ tokens[t].passwords # 2
        /\ \A v, w \in Workers : Confirms(req[v], t) /\ Confirms(req[w], t) => v = w
        /\ \A w \in Workers : Confirms(req[w], t) /\ req[w].pc = "activate" =>
              tokens[t].passwords = 0
        /\ \/ tokens[t].passwords = 0 \/ tokens[t].state = "used"
           \/ \E w \in Workers : Confirms(req[w], t)

SetupInv == \A t \in TokenIds : OneTime(t)

LEMMA SetupInvInit == AccessInit => SetupInv
BY DEF AccessInit, Init, SetupInv, OneTime, NoToken, Idle, Confirms

\* What is said of a token stays, if its confirmations do.
LEMMA OneTimeStays ==
    ASSUME NEW t \in TokenIds, OneTime(t),
           tokens'[t].excused = tokens[t].excused,
           tokens'[t].passwords = tokens[t].passwords,
           tokens[t].state = "used" => tokens'[t].state = "used",
           \A v \in Workers : /\ Confirms(req'[v], t) <=> Confirms(req[v], t)
                              /\ Confirms(req[v], t) => req'[v].pc = req[v].pc
    PROVE  OneTime(t)'
BY DEF OneTime

LEMMA ElseStepSetup ==
    ASSUME BaseInv, SetupInv, NEW w \in Workers, ElseStep(w)
    PROVE  SetupInv'
<1> SUFFICES ASSUME NEW t \in TokenIds PROVE OneTime(t)'
  BY DEF SetupInv
<1>1. /\ req'[w].op # "confirm" /\ req[w].op # "confirm"
      /\ tokens'[t].excused = tokens[t].excused
      /\ tokens'[t].passwords = tokens[t].passwords
      /\ Issued(tokens, t) => tokens'[t].state = tokens[t].state
  BY ElseStepTokens DEF ElseStep
<1>2. \A v \in Workers \ {w} : Kin(req[v], req'[v])
  BY StepKin DEF ElseStep
<1>3. OneTime(t)
  BY DEF SetupInv
<1>4. \A v \in Workers : /\ Confirms(req'[v], t) <=> Confirms(req[v], t)
                         /\ Confirms(req[v], t) => req'[v].pc = req[v].pc
  BY <1>1, <1>2 DEF Confirms, Kin
<1> QED
  BY <1>1, <1>3, <1>4, OneTimeStays DEF Issued

LEMMA ConfirmReadSetup ==
    ASSUME BaseInv, SetupInv, NEW w \in Workers, ConfirmRead(w)
    PROVE  SetupInv'
<1> SUFFICES ASSUME NEW s \in TokenIds PROVE OneTime(s)'
  BY DEF SetupInv
<1>1. PICK t \in TokenIds :
          /\ tokens[t].state = "live"
          /\ req' = [req EXCEPT ![w] = [Idle EXCEPT !.op = "confirm", !.pc = "activate",
                                                    !.token = t, !.user = tokens[t].user]]
          /\ tokens' = [tokens EXCEPT ![t].excused = @ \/ Confirming(t)]
  BY DEF ConfirmRead
<1>2. /\ tokens \in [TokenIds -> Token] /\ req \in [Workers -> Request]
      /\ Locals(req[w], users, tokens) /\ req[w].pc = "idle"
  BY BaseFacts DEF ConfirmRead, Free
<1>3. req[w].op # "confirm"
  BY <1>2 DEF Locals
<1>4. /\ req'[w].op = "confirm" /\ req'[w].token = t /\ req'[w].pc = "activate"
      /\ \A v \in Workers \ {w} : req'[v] = req[v]
  BY <1>1, <1>2 DEF Idle
<1>5. OneTime(s)
  BY DEF SetupInv
<1>6. CASE s # t
  <2>1. tokens'[s] = tokens[s]
    BY <1>1, <1>2, <1>6
  <2>2. \A v \in Workers : /\ Confirms(req'[v], s) <=> Confirms(req[v], s)
                           /\ Confirms(req[v], s) => req'[v].pc = req[v].pc
    BY <1>3, <1>4, <1>6 DEF Confirms
  <2> QED
    BY <1>5, <2>1, <2>2, OneTimeStays
<1>7. CASE s = t
  <2>1. /\ tokens'[t].passwords = tokens[t].passwords /\ tokens'[t].state = "live"
        /\ ~tokens'[t].excused => ~tokens[t].excused /\ ~Confirming(t)
    BY <1>1, <1>2 DEF Token
  <2>2. ASSUME ~tokens'[t].excused
        PROVE  tokens'[t].passwords = 0 /\ \A v \in Workers : Confirms(req'[v], t) => v = w
    <3>1. \A v \in Workers : ~Confirms(req[v], t)
      BY <2>1, <2>2 DEF Confirming, Confirms
    <3>2. tokens[t].passwords = 0
      BY <1>1, <1>5, <1>7, <2>1, <2>2, <3>1 DEF OneTime
    <3> QED
      BY <1>4, <2>1, <3>1, <3>2
  <2> QED
    BY <1>7, <2>2 DEF OneTime
<1> QED
  BY <1>6, <1>7

LEMMA ConfirmActivateSetup ==
    ASSUME BaseInv, SetupInv, NEW w \in Workers, ConfirmActivate(w)
    PROVE  SetupInv'
<1> SUFFICES ASSUME NEW s \in TokenIds PROVE OneTime(s)'
  BY DEF SetupInv
<1> DEFINE t == req[w].token
<1>1. /\ req[w].pc = "activate" /\ req[w] \in Request /\ Locals(req[w], users, tokens)
      /\ tokens' = [tokens EXCEPT ![t].passwords = IF @ = 0 THEN 1 ELSE 2]
      /\ req' = [req EXCEPT ![w].pc = "mark"]
      /\ tokens \in [TokenIds -> Token] /\ req \in [Workers -> Request]
  BY BaseFacts DEF ConfirmActivate
<1>2. t \in TokenIds /\ req[w].op = "confirm"
  BY <1>1 DEF Locals
<1>3. /\ req'[w].op = "confirm" /\ req'[w].token = t /\ req'[w].pc = "mark"
      /\ \A v \in Workers \ {w} : req'[v] = req[v]
  BY <1>1, <1>2 DEF Request
<1>4. OneTime(s)
  BY DEF SetupInv
<1>5. \A v \in Workers : Confirms(req'[v], s) <=> Confirms(req[v], s)
  BY <1>2, <1>3 DEF Confirms
<1>6. CASE s # t
  <2>1. tokens'[s] = tokens[s]
    BY <1>1, <1>6
  <2>2. \A v \in Workers : Confirms(req[v], s) => req'[v].pc = req[v].pc
    BY <1>3, <1>6 DEF Confirms
  <2> QED
    BY <1>4, <1>5, <2>1, <2>2, OneTimeStays
<1>7. CASE s = t
  <2>1. /\ tokens'[s].excused = tokens[s].excused
        /\ tokens[s].passwords = 0 => tokens'[s].passwords = 1
    BY <1>1, <1>2, <1>7 DEF Token
  <2>2. ASSUME ~tokens[s].excused
        PROVE  /\ tokens'[s].passwords = 1
               /\ \A v \in Workers : Confirms(req'[v], s) => v = w
    <3>1. Confirms(req[w], s)
      BY <1>2, <1>7 DEF Confirms
    <3> QED
      BY <1>1, <1>4, <1>5, <2>1, <2>2, <3>1 DEF OneTime
  <2>3. Confirms(req'[w], s) /\ req'[w].pc = "mark"
    BY <1>3, <1>7 DEF Confirms
  <2>4. ASSUME ~tokens'[s].excused
        PROVE  /\ tokens'[s].passwords = 1
               /\ \A v \in Workers : Confirms(req'[v], s) => v = w
               /\ \A v \in Workers : Confirms(req'[v], s) => req'[v].pc = "mark"
    BY <2>1, <2>2, <2>3, <2>4
  <2> QED
    BY <2>3, <2>4 DEF OneTime
<1> QED
  BY <1>6, <1>7

LEMMA ConfirmMarkSetup ==
    ASSUME BaseInv, SetupInv, NEW w \in Workers, ConfirmMark(w)
    PROVE  SetupInv'
<1> SUFFICES ASSUME NEW s \in TokenIds PROVE OneTime(s)'
  BY DEF SetupInv
<1> DEFINE t == req[w].token
<1>1. /\ req[w].pc = "mark" /\ req[w] \in Request /\ Locals(req[w], users, tokens)
      /\ tokens' = [tokens EXCEPT ![t].state = "used"]
      /\ req' = [req EXCEPT ![w] = Idle]
      /\ tokens \in [TokenIds -> Token] /\ req \in [Workers -> Request]
  BY BaseFacts DEF ConfirmMark
<1>2. t \in TokenIds /\ req[w].op = "confirm"
  BY <1>1 DEF Locals
<1>3. req'[w].op # "confirm" /\ \A v \in Workers \ {w} : req'[v] = req[v]
  BY <1>1 DEF Idle
<1>4. OneTime(s)
  BY DEF SetupInv
<1>5. /\ tokens'[s].excused = tokens[s].excused /\ tokens'[s].passwords = tokens[s].passwords
      /\ s = t => tokens'[s].state = "used"
      /\ s # t => tokens'[s].state = tokens[s].state
  BY <1>1, <1>2 DEF Token
<1>6. CASE s # t
  <2>1. \A v \in Workers : /\ Confirms(req'[v], s) <=> Confirms(req[v], s)
                           /\ Confirms(req[v], s) => req'[v].pc = req[v].pc
    BY <1>3, <1>6 DEF Confirms
  <2> QED
    BY <1>4, <1>5, <1>6, <2>1, OneTimeStays
<1>7. CASE s = t
  <2>1. \A v \in Workers : Confirms(req'[v], s) => Confirms(req[v], s) /\ req'[v].pc = req[v].pc
    BY <1>3 DEF Confirms
  <2> QED
    BY <1>4, <1>5, <1>7, <2>1 DEF OneTime
<1> QED
  BY <1>6, <1>7

LEMMA AbortSetup ==
    ASSUME BaseInv, SetupInv, NEW w \in Workers, Abort(w), req[w].op = "confirm"
    PROVE  SetupInv'
<1> SUFFICES ASSUME NEW s \in TokenIds PROVE OneTime(s)'
  BY DEF SetupInv
<1> DEFINE t == req[w].token
<1>1. /\ req[w] \in Request /\ Locals(req[w], users, tokens)
      /\ tokens' = [tokens EXCEPT ![t].excused = TRUE]
      /\ req' = [req EXCEPT ![w] = Idle]
      /\ tokens \in [TokenIds -> Token] /\ req \in [Workers -> Request]
  BY BaseFacts DEF Abort
<1>2. t \in TokenIds
  BY <1>1 DEF Locals
<1>3. CASE s = t
  <2>1. tokens'[s].excused
    BY <1>1, <1>2, <1>3 DEF Token
  <2> QED
    BY <2>1 DEF OneTime
<1>4. CASE s # t
  <2>1. tokens'[s] = tokens[s]
    BY <1>1, <1>4
  <2>2. req'[w].op # "confirm" /\ \A v \in Workers \ {w} : req'[v] = req[v]
    BY <1>1 DEF Idle
  <2>3. \A v \in Workers : /\ Confirms(req'[v], s) <=> Confirms(req[v], s)
                           /\ Confirms(req[v], s) => req'[v].pc = req[v].pc
    BY <1>4, <2>2 DEF Confirms
  <2>4. OneTime(s)
    BY DEF SetupInv
  <2> QED
    BY <2>1, <2>3, <2>4, OneTimeStays
<1> QED
  BY <1>3, <1>4

LEMMA SetupInvStep ==
    ASSUME BaseInv, SetupInv, [AccessNext]_accessVars PROVE SetupInv'
<1>1. CASE UNCHANGED <<tokens, req>>
  BY <1>1 DEF SetupInv, OneTime
<1>2. CASE ExpireToken
  <2>1. UNCHANGED req /\ tokens \in [TokenIds -> Token]
    BY <1>2, BaseFacts DEF ExpireToken
  <2>2. \A s \in TokenIds : /\ tokens'[s].excused = tokens[s].excused
                            /\ tokens'[s].passwords = tokens[s].passwords
                            /\ tokens[s].state = "used" => tokens'[s].state = "used"
    BY <1>2, <2>1 DEF ExpireToken, Token
  <2> QED
    BY <2>1, <2>2, OneTimeStays DEF SetupInv
<1>3. ASSUME NEW w \in Workers, Step(w) PROVE SetupInv'
  <2>1. CASE ConfirmRead(w) \/ ConfirmActivate(w) \/ ConfirmMark(w)
    BY <2>1, ConfirmReadSetup, ConfirmActivateSetup, ConfirmMarkSetup
  <2>2. CASE ElseStep(w)
    BY <2>2, ElseStepSetup
  <2>3. CASE req[w].op = "confirm" /\ ~ConfirmActivate(w) /\ ~ConfirmMark(w) /\ ~ConfirmRead(w)
    <3>1. Locals(req[w], users, tokens)
      BY BaseFacts
    <3>2. req[w].pc \in {"activate", "mark"} /\ req[w].op = "confirm"
      BY <2>3, <3>1 DEF Locals
    <3>3. Abort(w)
      BY <1>3, <2>3, <3>2 DEF Step, CreateUser, PatchLoad, Free, PatchUpdate, PatchRefresh,
         ReplaceDelete, ReplaceCommit, StartPasswordSetup, IssueToken, SendInvite, CreateTenant,
         FindLogin, InsertLogin, InviteLogin, LinkTenant
    <3> QED
      BY <2>3, <3>3, AbortSetup
  <2> QED
    BY <1>3, <2>1, <2>2, <2>3 DEF ElseStep
<1> QED
  BY <1>1, <1>2, <1>3, AccessSteps DEF vars, Register

-----------------------------------------------------------------------------
(***************************************************************************)
(* Who changes a role.                                                     *)
(***************************************************************************)
Patching(r) == r.op = "patch" /\ r.pc = "update" /\ r.fresh

\* A request about to store a body whose target no other has set the role of
\* since it was checked: the check still holds.
Vetted(r) ==
    Patching(r) => /\ Governs(r.actor, users[r.user].role)
                   /\ r.body.role # Keep => Governs(r.actor, r.body.role)

GovernInv == \A w \in Workers : Vetted(req[w])

LEMMA GovernInvInit == AccessInit => GovernInv
BY DEF AccessInit, Init, GovernInv, Vetted, Patching, Idle

\* A role is written by the UPDATE of a patch only.
LEMMA RolesStay ==
    ASSUME BaseInv, NEW w \in Workers, Step(w), ~PatchUpdate(w), NEW u \in UserIds, Exists(u)
    PROVE  users'[u].role = users[u].role
<1>1. users \in [UserIds -> User]
  BY BaseFacts
<1>2. CASE CreateUser(w) \/ InsertLogin(w)
  BY <1>1, <1>2 DEF CreateUser, InsertLogin, Exists
<1>3. CASE ConfirmActivate(w) \/ InviteLogin(w)
  BY <1>1, <1>3 DEF ConfirmActivate, InviteLogin, User
<1>4. CASE \/ PatchLoad(w) \/ PatchRefresh(w) \/ ReplaceDelete(w) \/ ReplaceCommit(w)
           \/ StartPasswordSetup(w) \/ IssueToken(w) \/ SendInvite(w) \/ ConfirmRead(w)
  BY <1>4 DEF PatchLoad, PatchRefresh, ReplaceDelete, ReplaceCommit, StartPasswordSetup,
              IssueToken, SendInvite, ConfirmRead
<1>5. CASE ConfirmMark(w) \/ CreateTenant(w) \/ FindLogin(w) \/ LinkTenant(w) \/ Abort(w)
  BY <1>5 DEF ConfirmMark, CreateTenant, FindLogin, LinkTenant, Abort
<1> QED
  BY <1>2, <1>3, <1>4, <1>5 DEF Step

\* A request gets ready to store a body by loading its target only.
LEMMA NewPatch ==
    ASSUME BaseInv, NEW w \in Workers, Step(w), req'[w].pc = "update"
    PROVE  PatchLoad(w)
<1>1. req[w] \in Request /\ req \in [Workers -> Request]
  BY BaseFacts
<1>2. ASSUME CreateUser(w) \/ PatchRefresh(w) \/ ReplaceDelete(w) \/ ReplaceCommit(w) PROVE FALSE
  <2>1. ~CreateUser(w)
    <3> SUFFICES ASSUME CreateUser(w) PROVE FALSE
      OBVIOUS
    <3>1. PICK u \in UserIds, n \in Scene.newUsers :
            req' = [req EXCEPT ![w] = IF n.role = "manager" /\ n.list \subseteq Buildings
                       THEN [Idle EXCEPT !.op = "create", !.pc = "delete", !.user = u,
                                         !.list = n.list]
                       ELSE Idle]
      BY DEF CreateUser
    <3> QED
      BY <1>1, <3>1 DEF Idle
  <2>2. ~PatchRefresh(w)
    <3> SUFFICES ASSUME PatchRefresh(w) PROVE FALSE
      OBVIOUS
    <3>1. \/ req' = [req EXCEPT ![w] = Idle]
          \/ \E list : req' = [req EXCEPT ![w] = [req[w] EXCEPT !.pc = "delete", !.list = list]]
      BY DEF PatchRefresh
    <3>2. req' # [req EXCEPT ![w] = Idle]
      BY <1>1 DEF Idle
    <3>3. ASSUME NEW list
          PROVE  req' # [req EXCEPT ![w] = [req[w] EXCEPT !.pc = "delete", !.list = list]]
      BY <1>1 DEF Request
    <3> QED
      BY <3>1, <3>2, <3>3
  <2>3. ~ReplaceDelete(w)
    BY <1>1 DEF ReplaceDelete, Request
  <2>4. ~ReplaceCommit(w)
    BY <1>1 DEF ReplaceCommit, Idle
  <2> QED
    BY <1>2, <2>1, <2>2, <2>3, <2>4
<1>3. ~PatchUpdate(w)
  <2>1. ASSUME PatchUpdate(w), EmailTaken(req[w].body.email, req[w].user) PROVE FALSE
    BY <1>1, <2>1 DEF PatchUpdate, Idle
  <2>2. ASSUME PatchUpdate(w), ~EmailTaken(req[w].body.email, req[w].user) PROVE FALSE
    <3>1. req'[w] = [req[w] EXCEPT !.pc = "refresh"]
      BY <2>2, PatchUpdateRows, AfterPatchKin DEF PatchUpdate
    <3> QED
      BY <1>1, <3>1 DEF Request
  <2> QED
    BY <2>1, <2>2
<1>4. ASSUME StartPasswordSetup(w) \/ IssueToken(w) \/ SendInvite(w) PROVE FALSE
  <2>1. ~StartPasswordSetup(w)
    BY <1>1 DEF StartPasswordSetup, Idle
  <2>2. ~IssueToken(w)
    <3> SUFFICES ASSUME IssueToken(w) PROVE FALSE
      OBVIOUS
    <3>1. PICK t : req' = [req EXCEPT ![w].pc = "mail", ![w].token = t]
      BY DEF IssueToken
    <3> QED
      BY <1>1, <3>1 DEF Request
  <2>3. ~SendInvite(w)
    BY <1>1 DEF SendInvite, Idle, Request
  <2> QED
    BY <1>4, <2>1, <2>2, <2>3
<1>5. ASSUME ConfirmRead(w) \/ ConfirmActivate(w) \/ ConfirmMark(w) PROVE FALSE
  <2>1. ~ConfirmRead(w)
    BY <1>1 DEF ConfirmRead, Idle
  <2>2. ~ConfirmActivate(w)
    BY <1>1 DEF ConfirmActivate, Request
  <2>3. ~ConfirmMark(w)
    BY <1>1 DEF ConfirmMark, Idle
  <2> QED
    BY <1>5, <2>1, <2>2, <2>3
<1>6. ASSUME CreateTenant(w) \/ InviteLogin(w) \/ LinkTenant(w) \/ Abort(w) PROVE FALSE
  <2>1. ~CreateTenant(w)
    <3> SUFFICES ASSUME CreateTenant(w) PROVE FALSE
      OBVIOUS
    <3>1. PICK n : \/ req' = [req EXCEPT ![w] = Idle]
                   \/ req' = [req EXCEPT ![w] =
                                 [Idle EXCEPT !.op = "tenant", !.pc = "find", !.tenant = n]]
      BY DEF CreateTenant
    <3>2. req' # [req EXCEPT ![w] = Idle]
      BY <1>1 DEF Idle
    <3>3. req' # [req EXCEPT ![w] = [Idle EXCEPT !.op = "tenant", !.pc = "find", !.tenant = n]]
      BY <1>1 DEF Idle
    <3> QED
      BY <3>1, <3>2, <3>3
  <2>2. ~InviteLogin(w)
    BY <1>1 DEF InviteLogin, Request
  <2>3. ~LinkTenant(w) /\ ~Abort(w)
    BY <1>1 DEF LinkTenant, Abort, Idle
  <2> QED
    BY <1>6, <2>1, <2>2, <2>3
<1>7. ~InsertLogin(w)
  BY <1>1 DEF InsertLogin, Idle, Request
<1>8. ~FindLogin(w)
  <2>1. req' # [req EXCEPT ![w].pc = "insert"]
    BY <1>1 DEF Request
  <2>2. ASSUME NEW u \in UserIds
        PROVE  req' # [req EXCEPT ![w] = IF users[u].role = "tenant"
                                         THEN [@ EXCEPT !.pc = "invite", !.user = u] ELSE Idle]
    <3> DEFINE q == [req[w] EXCEPT !.pc = "invite", !.user = u]
    <3>1. q.pc = "invite" /\ Idle.pc = "idle"
      BY <1>1 DEF Request, Idle
    <3> HIDE DEF q
    <3>2. req' # [req EXCEPT ![w] = IF users[u].role = "tenant" THEN q ELSE Idle]
      BY <1>1, <3>1
    <3> QED
      BY <3>2 DEF q
  <2> QED
    BY <2>1, <2>2 DEF FindLogin
<1> QED
  BY <1>2, <1>3, <1>4, <1>5, <1>6, <1>7, <1>8 DEF Step

LEMMA GovernInvStep ==
    ASSUME BaseInv, GovernInv, [AccessNext]_accessVars PROVE GovernInv'
<1>1. CASE UNCHANGED vars
  BY <1>1 DEF vars, GovernInv, Vetted
<1>2. CASE Register
  <2>1. UNCHANGED req /\ \A u \in UserIds : ~Exists(u)
    BY <1>2 DEF Register, CreateOrganizationAndUser
  <2>2. \A w \in Workers : ~Patching(req[w])
    BY <2>1, BaseFacts DEF Patching, Locals, InUse, Exists
  <2> QED
    BY <2>1, <2>2 DEF GovernInv, Vetted
<1>3. CASE ExpireToken
  BY <1>3 DEF ExpireToken, GovernInv, Vetted
<1>4. ASSUME NEW w \in Workers, Step(w), NEW v \in Workers PROVE Vetted(req[v])'
  <2> SUFFICES ASSUME Patching(req'[v]) PROVE Vetted(req[v])'
    BY DEF Vetted, Patching
  <2>1. CASE v = w
    <3>1. PatchLoad(w)
      BY <1>4, <2>1, NewPatch DEF Patching
    <3>2. PICK u \in UserIds, p \in Scene.patches, a \in Scene.actors :
            /\ Governs(a, users[u].role)
            /\ p.role # Keep => Governs(a, p.role)
            /\ req' = [req EXCEPT ![w] =
                  [Idle EXCEPT !.op = "patch", !.pc = "update", !.user = u, !.actor = a,
                               !.body = p, !.fresh = TRUE]]
      BY <3>1 DEF PatchLoad
    <3>3. req'[w].user = u /\ req'[w].actor = a /\ req'[w].body = p /\ UNCHANGED users
      BY <3>1, <3>2, BaseFacts DEF Idle, PatchLoad
    <3> QED
      BY <2>1, <3>2, <3>3 DEF Vetted
  <2>2. CASE v # w
    <3>1. Kin(req[v], req'[v])
      BY <1>4, <2>2, StepKin
    <3>2. Patching(req[v]) /\ Vetted(req[v]) /\ InUse(users, req[v].user)
      BY <3>1, BaseFacts DEF Kin, Patching, GovernInv, Locals
    <3>3. users'[req[v].user].role = users[req[v].user].role
      <4>1. CASE ~PatchUpdate(w) \/ EmailTaken(req[w].body.email, req[w].user)
        BY <1>4, <3>2, <4>1, RolesStay DEF InUse, Exists, PatchUpdate
      <4>2. CASE PatchUpdate(w) /\ ~EmailTaken(req[w].body.email, req[w].user)
        <5>1. /\ users' = [users EXCEPT ![req[w].user] = Patched(@, req[w].body)]
              /\ req' = AfterPatch(w, req[w]) /\ req[w] \in Request
              /\ InUse(users, req[w].user)
          BY <4>2, PatchUpdateRows
        <5>2. req[v].user # req[w].user \/ req[w].body.role = Keep
          <6> SUFFICES ASSUME req[v].user = req[w].user, req[w].body.role # Keep PROVE FALSE
            OBVIOUS
          <6>1. req'[v] = [req[v] EXCEPT !.fresh = FALSE]
            BY <2>2, <5>1 DEF AfterPatch
          <6> QED
            BY <6>1, BaseFacts DEF Request, Patching
        <5>3. users[req[w].user] \in User /\ req[w].body \in Patch
          BY <5>1, BaseFacts DEF Request, InUse
        <5>4. CASE req[v].user # req[w].user
          BY <5>1, <5>4
        <5>5. CASE req[v].user = req[w].user /\ req[w].body.role = Keep
          <6>1. Patched(users[req[w].user], req[w].body).role = users[req[w].user].role
            BY <5>1, <5>3, <5>5, PatchedType DEF Set, InUse
          <6> QED
            BY <5>1, <5>5, <6>1, BaseFacts DEF InUse
        <5> QED
          BY <5>2, <5>4, <5>5
      <4> QED
        BY <4>1, <4>2
    <3> QED
      BY <3>1, <3>2, <3>3 DEF Vetted, Kin
  <2> QED
    BY <2>1, <2>2
<1> QED
  BY <1>1, <1>2, <1>3, <1>4, AccessSteps DEF GovernInv

\* What the step of a patch stores is what its actor may store.
LEMMA GovernedStep ==
    ASSUME BaseInv, GovernInv, [AccessNext]_accessVars, NEW w \in Workers,
           req[w].op = "patch", req[w].pc = "update", req[w].fresh,
           users' # users, req'[w].pc = "refresh"
    PROVE  /\ Governs(req[w].actor, users[req[w].user].role)
           /\ Governs(req[w].actor, users'[req[w].user].role)
<1>1. req[w] \in Request /\ req \in [Workers -> Request] /\ Vetted(req[w])
  BY BaseFacts DEF GovernInv
<1>2. Step(w)
  <2>1. PICK v \in Workers : Step(v)
    BY AccessSteps DEF vars, Register, ExpireToken
  <2>2. CASE v # w
    BY <2>1, <2>2, StepKin DEF Kin
  <2> QED
    BY <2>1, <2>2
<1>3. PatchUpdate(w)
  <2>1. ~Abort(w) /\ ~CreateUser(w)
    BY <1>1 DEF Abort, CreateUser, Free, Idle
  <2> QED
    BY <1>2, <2>1 DEF Step, Free, PatchLoad, PatchRefresh, ReplaceDelete, ReplaceCommit,
       StartPasswordSetup, IssueToken, SendInvite, ConfirmRead, ConfirmActivate, ConfirmMark,
       CreateTenant, FindLogin, InsertLogin, InviteLogin, LinkTenant
<1>4. ~EmailTaken(req[w].body.email, req[w].user)
  BY <1>3 DEF PatchUpdate
<1>5. /\ users' = [users EXCEPT ![req[w].user] = Patched(@, req[w].body)]
      /\ InUse(users, req[w].user)
  BY <1>3, <1>4, PatchUpdateRows
<1>6. users[req[w].user] \in User /\ req[w].body \in Patch
  BY <1>1, <1>5, BaseFacts DEF Request, InUse
<1>7. users'[req[w].user].role = Set(users[req[w].user].role, req[w].body.role)
  BY <1>5, <1>6, PatchedType, BaseFacts DEF InUse
<1> QED
  BY <1>1, <1>7 DEF Vetted, Patching, Set

-----------------------------------------------------------------------------
(***************************************************************************)
(* Invited logins.                                                         *)
(***************************************************************************)
InvitingFor(r, u) == Inviting(r) /\ r.user = u

Waiting(u) == /\ users[u].status = "invited" /\ ~stranded[u]
              /\ ~\E w \in Workers : InvitingFor(req[w], u)

\* A token of the user that nobody has set a password with and is about to mark.
Good(t, u) == /\ tokens[t].user = u /\ tokens[t].state \in {"live", "expired"}
              /\ \A w \in Workers : Confirms(req[w], t) => req[w].pc # "mark"

InviteInv == \A u \in UserIds : Waiting(u) => \E t \in TokenIds : Good(t, u)

LEMMA InviteInvInit == AccessInit => InviteInv
BY DEF AccessInit, Init, InviteInv, Waiting, NoUser

\* A user is no longer waited for by the steps that store its token, only.
LEMMA WaitingBefore ==
    ASSUME BaseInv, NEW w \in Workers, Step(w), NEW u \in UserIds, Waiting(u)',
           IssueToken(w) => req[w].user # u
    PROVE  Waiting(u)
<1>1. /\ req[w] \in Request /\ req \in [Workers -> Request] /\ Locals(req[w], users, tokens)
      /\ users \in [UserIds -> User] /\ stranded \in [UserIds -> BOOLEAN]
  BY BaseFacts
<1>2. /\ users'[u].status = "invited" /\ ~stranded'[u]
      /\ \A v \in Workers : ~InvitingFor(req'[v], u)
  BY DEF Waiting
<1>3. ASSUME NEW v \in Workers \ {w} PROVE ~InvitingFor(req[v], u)
  BY <1>2, <1>3, StepKin DEF Kin, InvitingFor, Inviting
<1>4. CASE \/ PatchLoad(w) \/ PatchRefresh(w) \/ ReplaceDelete(w) \/ ReplaceCommit(w)
           \/ StartPasswordSetup(w) \/ SendInvite(w) \/ CreateTenant(w) \/ FindLogin(w)
           \/ LinkTenant(w) \/ ConfirmRead(w) \/ ConfirmMark(w)
  <2>1. UNCHANGED <<users, stranded>>
    BY <1>4 DEF PatchLoad, PatchRefresh, ReplaceDelete, ReplaceCommit, StartPasswordSetup,
                SendInvite, CreateTenant, FindLogin, LinkTenant, ConfirmRead, ConfirmMark
  <2>2. ~Inviting(req[w])
    BY <1>4 DEF PatchLoad, PatchRefresh, ReplaceDelete, ReplaceCommit, StartPasswordSetup, Free,
                SendInvite, CreateTenant, FindLogin, LinkTenant, ConfirmRead, ConfirmMark, Inviting
  <2> QED
    BY <1>2, <1>3, <2>1, <2>2 DEF Waiting, InvitingFor
<1>5. CASE CreateUser(w)
  <2>1. PICK x \in UserIds, n \in Scene.newUsers :
          /\ users' = [users EXCEPT ![x] =
                [NoUser EXCEPT !.status = n.status, !.role = n.role, !.email = n.email]]
          /\ stranded' = [stranded EXCEPT ![x] = TRUE]
    BY <1>5 DEF CreateUser
  <2>2. x # u
    BY <1>1, <1>2, <2>1
  <2>3. users'[u] = users[u] /\ stranded'[u] = stranded[u]
    BY <1>1, <2>1, <2>2
  <2>4. ~Inviting(req[w])
    BY <1>5 DEF CreateUser, Free, Inviting
  <2> QED
    BY <1>2, <1>3, <2>3, <2>4 DEF Waiting, InvitingFor
<1>6. CASE PatchUpdate(w)
  <2>0. ~Inviting(req[w])
    BY <1>6 DEF PatchUpdate, Inviting
  <2>1. CASE EmailTaken(req[w].body.email, req[w].user)
    BY <1>2, <1>3, <1>6, <2>0, <2>1 DEF PatchUpdate, Waiting, InvitingFor
  <2>2. CASE ~EmailTaken(req[w].body.email, req[w].user)
    <3>1. /\ InUse(users, req[w].user)
          /\ users' = [users EXCEPT ![req[w].user] = Patched(@, req[w].body)]
          /\ stranded' = [stranded EXCEPT ![req[w].user] = @ \/ req[w].body.status # Keep]
      BY <1>6, <2>2, PatchUpdateRows
    <3>2. CASE req[w].user # u
      BY <1>1, <1>2, <1>3, <2>0, <3>1, <3>2 DEF Waiting, InvitingFor
    <3>3. CASE req[w].user = u
      <4>1. req[w].body.status = Keep /\ ~stranded[u]
        BY <1>1, <1>2, <3>1, <3>3 DEF InUse
      <4>2. Patched(users[u], req[w].body).status = users[u].status
        BY <1>1, <3>1, <3>3, <4>1, PatchedType DEF Set, InUse, Request
      <4>3. users[u].status = "invited"
        BY <1>1, <1>2, <3>1, <3>3, <4>2 DEF InUse
      <4> QED
        BY <1>3, <2>0, <4>1, <4>3 DEF Waiting, InvitingFor
    <3> QED
      BY <3>2, <3>3
  <2> QED
    BY <2>1, <2>2
<1>7. CASE IssueToken(w)
  BY <1>2, <1>3, <1>7 DEF IssueToken, Waiting, InvitingFor
<1>8. CASE ConfirmActivate(w)
  <2>1. users' = [users EXCEPT ![req[w].user].status = "active"]
        /\ stranded' = [stranded EXCEPT ![req[w].user] = FALSE] /\ ~Inviting(req[w])
    BY <1>8 DEF ConfirmActivate, Inviting
  <2>2. req[w].user # u
    BY <1>1, <1>2, <2>1 DEF User
  <2> QED
    BY <1>1, <1>2, <1>3, <2>1, <2>2 DEF Waiting, InvitingFor
<1>9. CASE InsertLogin(w)
  <2>1. ~Inviting(req[w]) /\ req[w].op = "tenant"
    BY <1>1, <1>9 DEF InsertLogin, Inviting, Locals
  <2>2. CASE EmailTaken(tenants[req[w].tenant].email, None)
    BY <1>2, <1>3, <1>9, <2>1, <2>2 DEF InsertLogin, Waiting, InvitingFor
  <2>3. CASE ~EmailTaken(tenants[req[w].tenant].email, None)
    <3>1. PICK x \in UserIds :
            /\ \E new : users' = [users EXCEPT ![x] = new]
            /\ stranded' = [stranded EXCEPT ![x] = FALSE]
            /\ req' = [req EXCEPT ![w].pc = "invite", ![w].user = x]
      BY <1>9, <2>3 DEF InsertLogin
    <3>2. InvitingFor(req'[w], x)
      BY <1>1, <2>1, <3>1 DEF InvitingFor, Inviting, Request
    <3>3. x # u
      BY <1>2, <3>2
    <3> QED
      BY <1>1, <1>2, <1>3, <2>1, <3>1, <3>3 DEF Waiting, InvitingFor
  <2> QED
    BY <2>2, <2>3
<1>10. CASE InviteLogin(w)
  <2>1. /\ users' = [users EXCEPT ![req[w].user].status = "invited",
                                  ![req[w].user].tenant = req[w].tenant]
        /\ stranded' = [stranded EXCEPT ![req[w].user] = FALSE]
        /\ req' = [req EXCEPT ![w].pc = "token"] /\ req[w].op = "tenant"
    BY <1>1, <1>10 DEF InviteLogin, Locals
  <2>2. InvitingFor(req'[w], req[w].user)
    BY <1>1, <2>1 DEF InvitingFor, Inviting, Request
  <2>3. req[w].user # u
    BY <1>2, <2>2
  <2> QED
    BY <1>1, <1>2, <1>3, <2>1, <2>3 DEF Waiting, InvitingFor
<1>11. CASE Abort(w)
  <2>1. UNCHANGED users
        /\ stranded' = IF Inviting(req[w]) THEN [stranded EXCEPT ![req[w].user] = TRUE]
                       ELSE stranded
    BY <1>11 DEF Abort
  <2>2. ~InvitingFor(req[w], u) /\ ~stranded[u]
    BY <1>1, <1>2, <2>1 DEF InvitingFor
  <2> QED
    BY <1>2, <1>3, <2>1, <2>2 DEF Waiting
<1> QED
  BY <1>4, <1>5, <1>6, <1>7, <1>8, <1>9, <1>10, <1>11 DEF Step

\* A token stays good until a password is set with it.
LEMMA GoodStays ==
    ASSUME BaseInv, NEW w \in Workers, Step(w), NEW t \in TokenIds, NEW u, Good(t, u),
           ~(ConfirmActivate(w) /\ req[w].user = u)
    PROVE  Good(t, u)'
<1>1. /\ req[w] \in Request /\ req \in [Workers -> Request] /\ Locals(req[w], users, tokens)
      /\ tokens \in [TokenIds -> Token]
  BY BaseFacts
<1>2. Issued(tokens, t)
  BY DEF Good, Issued
<1>3. ASSUME NEW v \in Workers \ {w}, Confirms(req'[v], t) PROVE req'[v].pc # "mark"
  BY <1>3, StepKin DEF Kin, Good, Confirms
<1>4. CASE ConfirmRead(w)
  <2>1. PICK s \in TokenIds :
          /\ req' = [req EXCEPT ![w] = [Idle EXCEPT !.op = "confirm", !.pc = "activate",
                                                    !.token = s, !.user = tokens[s].user]]
          /\ tokens' = [tokens EXCEPT ![s].excused = @ \/ Confirming(s)]
    BY <1>4 DEF ConfirmRead
  <2>2. req'[w].pc # "mark"
    BY <1>1, <2>1 DEF Idle
  <2>3. tokens'[t].user = tokens[t].user /\ tokens'[t].state = tokens[t].state
    BY <1>1, <2>1 DEF Token
  <2> QED
    BY <1>3, <2>2, <2>3 DEF Good
<1>5. CASE ConfirmActivate(w)
  <2>1. req[w].pc = "activate"
        /\ tokens' = [tokens EXCEPT ![req[w].token].passwords = IF @ = 0 THEN 1 ELSE 2]
        /\ req' = [req EXCEPT ![w].pc = "mark"]
    BY <1>5 DEF ConfirmActivate
  <2>2. tokens[req[w].token].user = req[w].user /\ req[w].token # t
    BY <1>1, <1>5, <2>1 DEF Locals, Good
  <2>3. tokens'[t] = tokens[t] /\ req'[w].token # t
    BY <1>1, <2>1, <2>2 DEF Request
  <2> QED
    BY <1>3, <2>3 DEF Good, Confirms
<1>6. CASE ConfirmMark(w)
  <2>1. req[w].pc = "mark" /\ req[w].op = "confirm"
        /\ tokens' = [tokens EXCEPT ![req[w].token].state = "used"]
        /\ req' = [req EXCEPT ![w] = Idle]
    BY <1>1, <1>6 DEF ConfirmMark, Locals
  <2>2. req[w].token # t
    BY <2>1 DEF Good, Confirms
  <2>3. tokens'[t] = tokens[t] /\ req'[w].pc # "mark"
    BY <1>1, <2>1, <2>2 DEF Idle
  <2> QED
    BY <1>3, <2>3 DEF Good
<1>7. CASE Abort(w) /\ req[w].op = "confirm"
  <2>1. tokens' = [tokens EXCEPT ![req[w].token].excused = TRUE]
        /\ req' = [req EXCEPT ![w] = Idle]
    BY <1>7 DEF Abort
  <2>2. tokens'[t].user = tokens[t].user /\ tokens'[t].state = tokens[t].state
    BY <1>1, <2>1 DEF Token
  <2>3. req'[w].pc # "mark"
    BY <1>1, <2>1 DEF Idle
  <2> QED
    BY <1>3, <2>2, <2>3 DEF Good
<1>8. CASE ElseStep(w)
  BY <1>2, <1>3, <1>8, ElseStepTokens DEF Good, Confirms
<1>9. CASE req[w].op = "confirm"
  <2>1. req[w].pc \in {"activate", "mark"}
    BY <1>1, <1>9 DEF Locals
  <2>2. ConfirmActivate(w) \/ ConfirmMark(w) \/ Abort(w)
    BY <1>9, <2>1 DEF Step, CreateUser, PatchLoad, Free, PatchUpdate, PatchRefresh,
         ReplaceDelete, ReplaceCommit, StartPasswordSetup, IssueToken, SendInvite, CreateTenant,
         FindLogin, InsertLogin, InviteLogin, LinkTenant, ConfirmRead
  <2> QED
    BY <1>5, <1>6, <1>7, <1>9, <2>2
<1> QED
  BY <1>4, <1>5, <1>6, <1>8, <1>9 DEF ElseStep

LEMMA InviteInvStep ==
    ASSUME BaseInv, InviteInv, [AccessNext]_accessVars PROVE InviteInv'
<1>1. CASE UNCHANGED vars
  BY <1>1 DEF vars, InviteInv, Waiting, Good
<1>2. CASE Register
  <2>1. PICK x \in UserIds :
          /\ \A v \in UserIds : ~Exists(v)
          /\ users' = [users EXCEPT ![x] = users'[x]]
          /\ stranded' = [stranded EXCEPT ![x] = TRUE]
    BY <1>2, BaseFacts DEF Register, CreateOrganizationAndUser
  <2>2. ASSUME NEW u \in UserIds PROVE ~Waiting(u)'
    BY <2>1, BaseFacts DEF Waiting, Exists
  <2> QED
    BY <2>2 DEF InviteInv
<1>3. CASE ExpireToken
  <2>1. UNCHANGED <<users, req, stranded>> /\ tokens \in [TokenIds -> Token]
    BY <1>3, BaseFacts DEF ExpireToken
  <2>2. \A t \in TokenIds : /\ tokens'[t].user = tokens[t].user
                            /\ tokens[t].state \in {"live", "expired"}
                               => tokens'[t].state \in {"live", "expired"}
    BY <1>3, <2>1 DEF ExpireToken, Token
  <2> QED
    BY <2>1, <2>2 DEF InviteInv, Waiting, Good
<1>4. ASSUME NEW w \in Workers, Step(w), NEW u \in UserIds, Waiting(u)'
      PROVE  \E t \in TokenIds : Good(t, u)'
  <2>1. CASE IssueToken(w) /\ req[w].user = u
    <3>1. PICK t \in Scene.tokens :
            /\ tokens[t].state = "absent"
            /\ tokens' = [tokens EXCEPT ![t].state = "live", ![t].user = req[w].user]
            /\ req' = [req EXCEPT ![w].pc = "mail", ![w].token = t]
      BY <2>1 DEF IssueToken
    <3>2. t \in TokenIds
      BY <3>1, SceneType, BaseFacts
    <3>3. tokens'[t].user = u /\ tokens'[t].state = "live"
      BY <2>1, <3>1, <3>2, BaseFacts DEF Token
    <3>4. ASSUME NEW v \in Workers, Confirms(req'[v], t) PROVE req'[v].pc # "mark"
      <4>1. CASE v = w
        BY <3>1, <4>1, BaseFacts DEF Request
      <4>2. CASE v # w
        <5>1. req'[v] = req[v] /\ Locals(req[v], users, tokens)
          BY <3>1, <4>2, BaseFacts
        <5> QED
          BY <3>1, <3>4, <5>1 DEF Locals, Confirms, Issued
      <4> QED
        BY <4>1, <4>2
    <3> QED
      BY <3>2, <3>3, <3>4 DEF Good
  <2>2. CASE ~(IssueToken(w) /\ req[w].user = u)
    <3>1. Waiting(u)
      BY <1>4, <2>2, WaitingBefore
    <3>2. PICK t \in TokenIds : Good(t, u)
      BY <3>1 DEF InviteInv
    <3>3. ~(ConfirmActivate(w) /\ req[w].user = u)
      BY <1>4, BaseFacts DEF ConfirmActivate, Waiting, User
    <3> QED
      BY <1>4, <3>2, <3>3, GoodStays
  <2> QED
    BY <2>1, <2>2
<1> QED
  BY <1>1, <1>2, <1>3, <1>4, AccessSteps DEF InviteInv

-----------------------------------------------------------------------------
(***************************************************************************)
(* Managers' buildings.                                                    *)
(***************************************************************************)
RescopingFor(r, u) == Rescoping(r) /\ r.user = u

\* What a request that replaces the buildings of u has asked for is what it holds.
Rescoped(r, u) ==
    /\ r.pc = "refresh" => scope[u].asked = r.body.list \cap Buildings
    /\ r.pc \in {"delete", "commit"} /\ users[u].role = "manager" => scope[u].asked = r.list
    /\ r.pc = "commit" => r.seen = assignments[u]

\* Unless another came in its way, one request at a time replaces the buildings
\* of u, and once it is through they are what it asked for.
Settled(u) ==
    /\ \A v, w \in Workers : RescopingFor(req[v], u) /\ RescopingFor(req[w], u) => v = w
    /\ \A w \in Workers : RescopingFor(req[w], u) => Rescoped(req[w], u)
    /\ users[u].role = "manager" /\ (\A w \in Workers : ~RescopingFor(req[w], u))
       => assignments[u] = scope[u].asked

ScopeOK(u) ==
    /\ ~Exists(u) => assignments[u] = scope[u].asked
    /\ Exists(u) /\ ~scope[u].disturbed => Settled(u)

ScopeInv == \A u \in UserIds : ScopeOK(u)

LEMMA ScopeInvInit == AccessInit => ScopeInv
BY DEF AccessInit, Init, ScopeInv, ScopeOK, Exists, NoUser

\* What another request's transaction has seen changes only when one for the
\* same user commits.
LEMMA SeenStays ==
    ASSUME BaseInv, NEW w \in Workers, Step(w), NEW v \in Workers \ {w},
           ReplaceCommit(w) => req[v].user # req[w].user
    PROVE  req'[v].seen = req[v].seen
<1>1. req[v] \in Request /\ req \in [Workers -> Request]
  BY BaseFacts
<1>2. CASE ReplaceCommit(w)
  BY <1>1, <1>2 DEF ReplaceCommit
<1>3. CASE PatchUpdate(w)
  <2>1. \/ req' = [req EXCEPT ![w] = Idle]
        \/ req' = AfterPatch(w, req[w])
    BY <1>3 DEF PatchUpdate
  <2>2. req'[v] = req[v] \/ req'[v] = [req[v] EXCEPT !.fresh = FALSE]
    BY <1>1, <2>1 DEF AfterPatch
  <2> QED
    BY <1>1, <2>2 DEF Request
<1>4. CASE CreateUser(w) \/ PatchLoad(w) \/ PatchRefresh(w) \/ ReplaceDelete(w)
  BY <1>1, <1>4 DEF CreateUser, PatchLoad, PatchRefresh, ReplaceDelete
<1>5. CASE \/ StartPasswordSetup(w) \/ IssueToken(w) \/ SendInvite(w)
           \/ ConfirmRead(w) \/ ConfirmActivate(w) \/ ConfirmMark(w)
  BY <1>1, <1>5 DEF StartPasswordSetup, IssueToken, SendInvite, ConfirmRead,
                    ConfirmActivate, ConfirmMark
<1>6. CASE \/ CreateTenant(w) \/ FindLogin(w) \/ InsertLogin(w) \/ InviteLogin(w)
           \/ LinkTenant(w) \/ Abort(w)
  BY <1>1, <1>6 DEF CreateTenant, FindLogin, InsertLogin, InviteLogin, LinkTenant, Abort
<1> QED
  BY <1>2, <1>3, <1>4, <1>5, <1>6 DEF Step

\* A step of a request that is not about the buildings of u.
LEMMA ScopeApart ==
    ASSUME BaseInv, NEW w \in Workers, Step(w), NEW u \in UserIds, ScopeOK(u),
           assignments'[u] = assignments[u], scope'[u] = scope[u],
           Exists(u) => Exists(u)' /\ users'[u].role = users[u].role,
           ~Exists(u) /\ Exists(u)' => users'[u].role # "manager",
           ~RescopingFor(req[w], u), ~RescopingFor(req'[w], u)
    PROVE  ScopeOK(u)'
<1>1. ASSUME NEW v \in Workers \ {w}
      PROVE  RescopingFor(req'[v], u) <=> RescopingFor(req[v], u)
  BY <1>1, StepKin DEF Kin, RescopingFor, Rescoping
<1>2. ASSUME NEW v \in Workers, RescopingFor(req'[v], u)
      PROVE  /\ RescopingFor(req[v], u) /\ Exists(u) /\ v # w
             /\ Rescoped(req[v], u) => Rescoped(req[v], u)'
  <2>1. v # w /\ RescopingFor(req[v], u)
    BY <1>1, <1>2
  <2>2. Exists(u)
    BY <2>1, BaseFacts DEF Locals, InUse, RescopingFor, Rescoping, Exists
  <2>3. Kin(req[v], req'[v])
    BY <2>1, StepKin
  <2>4. ReplaceCommit(w) => req[w].user # u
    BY DEF ReplaceCommit, RescopingFor, Rescoping
  <2>5. req'[v].seen = req[v].seen
    BY <2>1, <2>4, SeenStays DEF RescopingFor
  <2> QED
    BY <2>1, <2>2, <2>3, <2>5 DEF Kin, Rescoped
<1>3. CASE ~Exists(u)'
  BY <1>3 DEF ScopeOK
<1>4. CASE Exists(u)' /\ ~Exists(u)
  BY <1>2, <1>4 DEF ScopeOK, Settled
<1>5. CASE Exists(u)' /\ Exists(u)
  <2> SUFFICES ASSUME ~scope'[u].disturbed PROVE Settled(u)'
    BY <1>5 DEF ScopeOK
  <2>1. Settled(u)
    BY <1>5 DEF ScopeOK
  <2>2. \A v, x \in Workers : RescopingFor(req'[v], u) /\ RescopingFor(req'[x], u) => v = x
    BY <1>2, <2>1 DEF Settled
  <2>3. \A v \in Workers : RescopingFor(req'[v], u) => Rescoped(req[v], u)'
    BY <1>2, <2>1 DEF Settled
  <2>4. users'[u].role = "manager" /\ (\A v \in Workers : ~RescopingFor(req'[v], u))
        => assignments'[u] = scope'[u].asked
    BY <1>1, <1>5, <2>1 DEF Settled
  <2> QED
    BY <2>2, <2>3, <2>4 DEF Settled
<1> QED
  BY <1>3, <1>4, <1>5

\* A step of a request that is.
LEMMA ScopeOwn ==
    ASSUME BaseInv, NEW w \in Workers, Step(w), NEW u \in UserIds, Exists(u)',
           ~scope'[u].disturbed => \A v \in Workers \ {w} : ~RescopingFor(req[v], u),
           ~scope'[u].disturbed => Rescoped(req[w], u)',
           /\ ~scope'[u].disturbed /\ users'[u].role = "manager" /\ ~RescopingFor(req'[w], u)
           => assignments'[u] = scope'[u].asked
    PROVE  ScopeOK(u)'
<1> SUFFICES ASSUME ~scope'[u].disturbed PROVE Settled(u)'
  BY DEF ScopeOK
<1>1. \A v \in Workers \ {w} : ~RescopingFor(req'[v], u)
  BY StepKin DEF Kin, RescopingFor, Rescoping
<1> QED
  BY <1>1 DEF Settled

\* Steps that write no buildings.
UnscopedStep(w) ==
    \/ PatchLoad(w) \/ StartPasswordSetup(w) \/ IssueToken(w) \/ SendInvite(w)
    \/ ConfirmRead(w) \/ ConfirmActivate(w) \/ ConfirmMark(w)
    \/ CreateTenant(w) \/ FindLogin(w) \/ InsertLogin(w) \/ InviteLogin(w) \/ LinkTenant(w)

LEMMA UnscopedRequest ==
    ASSUME BaseInv, NEW w \in Workers, UnscopedStep(w)
    PROVE  /\ UNCHANGED <<assignments, scope>>
           /\ ~Rescoping(req[w]) /\ ~Rescoping(req'[w])
<1>1. req[w] \in Request /\ req \in [Workers -> Request] /\ Locals(req[w], users, tokens)
  BY BaseFacts
<1>2. UNCHANGED <<assignments, scope>> /\ ~Rescoping(req[w])
  BY DEF UnscopedStep, Rescoping, PatchLoad, Free, StartPasswordSetup, IssueToken, SendInvite,
         ConfirmRead, ConfirmActivate, ConfirmMark, CreateTenant, FindLogin, InsertLogin,
         InviteLogin, LinkTenant
<1> SUFFICES ~Rescoping(req'[w])
  BY <1>2
<1>3. CASE PatchLoad(w)
  BY <1>1, <1>3 DEF PatchLoad, Idle, Rescoping
<1>4. CASE StartPasswordSetup(w) \/ ConfirmRead(w)
  <2>1. CASE StartPasswordSetup(w)
    BY <1>1, <2>1 DEF StartPasswordSetup, Idle, Rescoping
  <2>2. CASE ConfirmRead(w)
    BY <1>1, <2>2 DEF ConfirmRead, Idle, Rescoping
  <2> QED
    BY <1>4, <2>1, <2>2
<1>5. CASE IssueToken(w)
  <2>1. PICK t : req' = [req EXCEPT ![w].pc = "mail", ![w].token = t]
    BY <1>5 DEF IssueToken
  <2> QED
    BY <1>1, <1>2, <2>1 DEF Request, Rescoping
<1>6. CASE SendInvite(w) \/ ConfirmActivate(w) \/ ConfirmMark(w)
  <2>1. \/ req' = [req EXCEPT ![w] = Idle]
        \/ req' = [req EXCEPT ![w].pc = "link"]
        \/ req' = [req EXCEPT ![w].pc = "mark"]
    BY <1>1, <1>6 DEF SendInvite, ConfirmActivate, ConfirmMark
  <2> QED
    BY <1>1, <2>1 DEF Idle, Rescoping, Request
<1>7. CASE CreateTenant(w)
  <2>1. PICK n : \/ req' = [req EXCEPT ![w] = Idle]
                 \/ req' = [req EXCEPT ![w] =
                               [Idle EXCEPT !.op = "tenant", !.pc = "find", !.tenant = n]]
    BY <1>7 DEF CreateTenant
  <2>2. CASE req' = [req EXCEPT ![w] = Idle]
    BY <1>1, <2>2 DEF Idle, Rescoping
  <2>3. CASE req' = [req EXCEPT ![w] =
                        [Idle EXCEPT !.op = "tenant", !.pc = "find", !.tenant = n]]
    BY <1>1, <2>3 DEF Idle, Rescoping
  <2> QED
    BY <2>1, <2>2, <2>3
<1>8. CASE FindLogin(w)
  <2>1. CASE req' = [req EXCEPT ![w].pc = "insert"]
    BY <1>1, <1>2, <2>1 DEF Request, Rescoping
  <2>2. ASSUME NEW u \in UserIds,
               req' = [req EXCEPT ![w] = IF users[u].role = "tenant"
                                         THEN [@ EXCEPT !.pc = "invite", !.user = u] ELSE Idle]
        PROVE  ~Rescoping(req'[w])
    <3>1. CASE users[u].role = "tenant"
      <4>1. req'[w] = [req[w] EXCEPT !.pc = "invite", !.user = u]
        BY <1>1, <2>2, <3>1
      <4> QED
        BY <1>1, <4>1 DEF Request, Rescoping
    <3>2. CASE users[u].role # "tenant"
      BY <1>1, <2>2, <3>2 DEF Idle, Rescoping
    <3> QED
      BY <3>1, <3>2
  <2> QED
    BY <1>2, <1>8, <2>1, <2>2 DEF FindLogin
<1>9. CASE InsertLogin(w) \/ InviteLogin(w) \/ LinkTenant(w)
  <2>1. \/ req' = [req EXCEPT ![w] = Idle]
        \/ \E x : req' = [req EXCEPT ![w].pc = "invite", ![w].user = x]
        \/ req' = [req EXCEPT ![w].pc = "token"]
    BY <1>9 DEF InsertLogin, InviteLogin, LinkTenant
  <2> QED
    BY <1>1, <2>1 DEF Idle, Request, Rescoping
<1> QED
  BY <1>2, <1>3, <1>4, <1>5, <1>6, <1>7, <1>8, <1>9 DEF UnscopedStep

LEMMA UnscopedScope ==
    ASSUME BaseInv, ScopeInv, NEW w \in Workers, UnscopedStep(w) PROVE ScopeInv'
<1> SUFFICES ASSUME NEW u \in UserIds PROVE ScopeOK(u)'
  BY DEF ScopeInv
<1>1. Step(w) /\ ScopeOK(u) /\ users \in [UserIds -> User]
  BY BaseFacts DEF ScopeInv, Step, UnscopedStep
<1>2. /\ UNCHANGED <<assignments, scope>>
      /\ ~RescopingFor(req[w], u) /\ ~RescopingFor(req'[w], u)
  BY UnscopedRequest DEF RescopingFor
<1>3. ~PatchUpdate(w)
  BY BaseFacts DEF UnscopedStep, PatchUpdate, PatchLoad, Free, StartPasswordSetup, IssueToken,
     SendInvite, ConfirmRead, ConfirmActivate, ConfirmMark, CreateTenant, FindLogin,
     InsertLogin, InviteLogin, LinkTenant
<1>4. Exists(u) => users'[u].role = users[u].role
  BY <1>1, <1>3, RolesStay
<1>5. /\ Exists(u) => Exists(u)'
      /\ ~Exists(u) /\ Exists(u)' => users'[u].role # "manager"
  <2>1. CASE InsertLogin(w)
    <3>1. \/ UNCHANGED users
          \/ \E x \in UserIds : \E e, n : users' = [users EXCEPT ![x] =
                [status |-> "invited", role |-> "tenant", email |-> e, tenant |-> n]]
      BY <2>1 DEF InsertLogin
    <3>2. users'[u] = users[u] \/ (users'[u].status = "invited" /\ users'[u].role = "tenant")
      BY <1>1, <3>1
    <3> QED
      BY <3>2 DEF Exists
  <2>2. CASE ConfirmActivate(w) \/ InviteLogin(w)
    <3>1. Locals(req[w], users, tokens) /\ Exists(req[w].user)
      BY <2>2, BaseFacts DEF ConfirmActivate, InviteLogin, Locals, InUse, Exists
    <3>2. \/ users' = [users EXCEPT ![req[w].user].status = "active"]
          \/ users' = [users EXCEPT ![req[w].user].status = "invited",
                                    ![req[w].user].tenant = req[w].tenant]
      BY <2>2 DEF ConfirmActivate, InviteLogin
    <3>3. users'[u] = users[u] \/ (Exists(u) /\ users'[u].status \in {"active", "invited"})
      BY <1>1, <3>1, <3>2 DEF User
    <3> QED
      BY <3>3 DEF Exists
  <2>3. CASE ~InsertLogin(w) /\ ~ConfirmActivate(w) /\ ~InviteLogin(w)
    <3>1. UNCHANGED users
      BY <2>3 DEF UnscopedStep, PatchLoad, StartPasswordSetup, IssueToken, SendInvite,
         ConfirmRead, ConfirmMark, CreateTenant, FindLogin, LinkTenant
    <3> QED
      BY <3>1 DEF Exists
  <2> QED
    BY <2>1, <2>2, <2>3
<1> QED
  BY <1>1, <1>2, <1>4, <1>5, ScopeApart

LEMMA CreateUserScope ==
    ASSUME BaseInv, ScopeInv, NEW w \in Workers, CreateUser(w) PROVE ScopeInv'
<1> SUFFICES ASSUME NEW u \in UserIds PROVE ScopeOK(u)'
  BY DEF ScopeInv
<1>1. /\ Step(w) /\ ScopeOK(u) /\ users \in [UserIds -> User] /\ req \in [Workers -> Request]
      /\ scope \in [UserIds -> [asked: SUBSET Buildings, disturbed: BOOLEAN]]
  BY BaseFacts DEF ScopeInv, Step
<1>2. PICK x \in UserIds, n \in Scene.newUsers :
        /\ ~Exists(x)
        /\ users' = [users EXCEPT ![x] =
              [NoUser EXCEPT !.status = n.status, !.role = n.role, !.email = n.email]]
        /\ LET replaces == n.role = "manager" /\ n.list \subseteq Buildings
           IN  /\ req' = [req EXCEPT ![w] =
                     IF replaces THEN [Idle EXCEPT !.op = "create", !.pc = "delete",
                                                   !.user = x, !.list = n.list]
                                 ELSE Idle]
               /\ scope' = [scope EXCEPT ![x] = [asked |-> n.list \cap Buildings,
                                                 disturbed |-> ~replaces]]
  BY DEF CreateUser
<1>3. req[w].pc = "idle" /\ UNCHANGED assignments /\ n \in NewUser
  BY SceneType, BaseFacts DEF CreateUser, Free
<1>r. ~Rescoping(req[w]) /\ ~Rescoping(Idle)
  BY <1>3 DEF Rescoping, Idle
<1>4. CASE u # x
  <2>1. users'[u] = users[u] /\ scope'[u] = scope[u]
    BY <1>1, <1>2, <1>4
  <2>2. ~RescopingFor(req'[w], u)
    BY <1>1, <1>2, <1>4, <1>r DEF RescopingFor, Idle
  <2> QED
    BY <1>1, <1>3, <1>r, <2>1, <2>2, ScopeApart DEF Exists, RescopingFor
<1>5. CASE u = x
  <2>1. users'[u].status = n.status /\ users'[u].role = n.role /\ Exists(u)'
    BY <1>1, <1>2, <1>3, <1>5 DEF NoUser, NewUser, UserStatus, Exists
  <2>2. \A v \in Workers : ~RescopingFor(req[v], u)
    BY <1>2, <1>5, BaseFacts DEF Locals, InUse, RescopingFor, Rescoping, Exists
  <2>3. scope'[u].asked = n.list \cap Buildings
        /\ scope'[u].disturbed = ~(n.role = "manager" /\ n.list \subseteq Buildings)
    BY <1>1, <1>2, <1>5
  <2>4. ASSUME ~scope'[u].disturbed
        PROVE  /\ req'[w].pc = "delete" /\ req'[w].user = u /\ req'[w].list = n.list
               /\ n.list \subseteq Buildings
    BY <1>1, <1>2, <1>5, <2>3, <2>4 DEF Idle
  <2>5. ~scope'[u].disturbed => Rescoped(req[w], u)' /\ RescopingFor(req'[w], u)
    BY <2>3, <2>4 DEF Rescoped, RescopingFor, Rescoping
  <2> QED
    BY <1>1, <2>1, <2>2, <2>5, ScopeOwn
<1> QED
  BY <1>4, <1>5

LEMMA PatchUpdateScope ==
    ASSUME BaseInv, ScopeInv, NEW w \in Workers, PatchUpdate(w) PROVE ScopeInv'
<1> SUFFICES ASSUME NEW u \in UserIds PROVE ScopeOK(u)'
  BY DEF ScopeInv
<1> DEFINE r == req[w]
<1>1. /\ Step(w) /\ ScopeOK(u) /\ users \in [UserIds -> User] /\ req \in [Workers -> Request]
      /\ scope \in [UserIds -> [asked: SUBSET Buildings, disturbed: BOOLEAN]]
      /\ r.pc = "update" /\ UNCHANGED assignments /\ ~Rescoping(r)
  BY BaseFacts DEF ScopeInv, Step, PatchUpdate, Rescoping
<1>2. CASE EmailTaken(r.body.email, r.user)
  <2>1. req' = [req EXCEPT ![w] = Idle] /\ UNCHANGED <<users, scope>>
    BY <1>2 DEF PatchUpdate
  <2>2. ~Rescoping(req'[w])
    BY <1>1, <2>1 DEF Rescoping, Idle
  <2> QED
    BY <1>1, <2>1, <2>2, ScopeApart DEF RescopingFor, Exists
<1>3. CASE ~EmailTaken(r.body.email, r.user)
  <2>1. /\ InUse(users, r.user)
        /\ users' = [users EXCEPT ![r.user] = Patched(@, r.body)]
        /\ req' = AfterPatch(w, r)
        /\ scope' = Asking(w, r.user, r.body.list)
    BY <1>3, PatchUpdateRows
  <2>2. req'[w] = [r EXCEPT !.pc = "refresh"] /\ r \in Request
    BY <1>1, <2>1, AfterPatchKin
  <2>3. req'[w].pc = "refresh" /\ req'[w].user = r.user /\ req'[w].body = r.body
    BY <2>2 DEF Request
  <2>4. CASE u # r.user
    <3>1. users'[u] = users[u] /\ scope'[u] = scope[u]
      BY <1>1, <2>1, <2>4 DEF Asking
    <3> QED
      BY <1>1, <2>3, <2>4, <3>1, ScopeApart DEF Exists, RescopingFor
  <2>5. CASE u = r.user
    <3>1. Exists(u)'
      BY <1>1, <2>1, <2>2, <2>5, PatchedType DEF Exists, InUse, Request
    <3>2. /\ scope'[u].asked = r.body.list \cap Buildings
          /\ scope'[u].disturbed = OthersRescoping(w, u)
      BY <1>1, <2>1, <2>5 DEF Asking
    <3>3. ~scope'[u].disturbed => \A v \in Workers \ {w} : ~RescopingFor(req[v], u)
      BY <3>2 DEF OthersRescoping, RescopingFor
    <3>4. Rescoped(req[w], u)' /\ RescopingFor(req'[w], u)
      BY <2>3, <2>5, <3>2 DEF Rescoped, RescopingFor, Rescoping
    <3> QED
      BY <1>1, <3>1, <3>3, <3>4, ScopeOwn
  <2> QED
    BY <2>4, <2>5
<1> QED
  BY <1>2, <1>3

LEMMA RescopingAlone ==
    ASSUME BaseInv, ScopeInv, NEW w \in Workers, Rescoping(req[w])
    PROVE  LET u == req[w].user
           IN  /\ u \in UserIds /\ Exists(u)
               /\ ~scope[u].disturbed => /\ \A v \in Workers \ {w} : ~RescopingFor(req[v], u)
                                         /\ Rescoped(req[w], u)
<1> DEFINE u == req[w].user
<1>1. u \in UserIds /\ Exists(u)
  BY BaseFacts DEF Locals, InUse, Rescoping, Exists
<1>2. ASSUME ~scope[u].disturbed PROVE Settled(u)
  BY <1>1, <1>2 DEF ScopeInv, ScopeOK
<1>3. RescopingFor(req[w], u)
  BY DEF RescopingFor
<1> QED
  BY <1>1, <1>2, <1>3 DEF Settled

LEMMA PatchRefreshScope ==
    ASSUME BaseInv, ScopeInv, NEW w \in Workers, PatchRefresh(w) PROVE ScopeInv'
<1> SUFFICES ASSUME NEW u \in UserIds PROVE ScopeOK(u)'
  BY DEF ScopeInv
<1> DEFINE r == req[w]
           manager == users[r.user].role = "manager"
           list == IF manager THEN r.body.list ELSE {}
           valid == list \subseteq Buildings
<1>1. /\ Step(w) /\ ScopeOK(u) /\ req \in [Workers -> Request] /\ r \in Request
      /\ scope \in [UserIds -> [asked: SUBSET Buildings, disturbed: BOOLEAN]]
      /\ r.pc = "refresh" /\ UNCHANGED <<assignments, users>> /\ Rescoping(r)
      /\ scope' = [scope EXCEPT ![r.user].disturbed = @ \/ ~valid]
      /\ req' = [req EXCEPT ![w] = IF (manager \/ r.body.listed) /\ valid
                                   THEN [r EXCEPT !.pc = "delete", !.list = list] ELSE Idle]
  BY BaseFacts DEF ScopeInv, Step, PatchRefresh, Rescoping
<1>2. \/ req'[w].pc = "delete" /\ req'[w].user = r.user /\ req'[w].list = list
      \/ ~((manager \/ r.body.listed) /\ valid) /\ ~Rescoping(req'[w])
  BY <1>1 DEF Request, Idle, Rescoping
<1>3. CASE u # r.user
  <2>1. scope'[u] = scope[u] /\ ~RescopingFor(req'[w], u) /\ ~RescopingFor(r, u)
    BY <1>1, <1>2, <1>3 DEF RescopingFor
  <2> QED
    BY <1>1, <2>1, ScopeApart DEF Exists
<1>4. CASE u = r.user
  <2>1. scope'[u].asked = scope[u].asked /\ scope'[u].disturbed = (scope[u].disturbed \/ ~valid)
    BY <1>1, <1>4
  <2>2. Exists(u)'
    BY <1>1, <1>4, RescopingAlone DEF Exists
  <2>3. ASSUME ~scope'[u].disturbed
        PROVE  /\ \A v \in Workers \ {w} : ~RescopingFor(req[v], u)
               /\ valid /\ scope[u].asked = r.body.list \cap Buildings
    BY <1>1, <1>4, <2>1, <2>3, RescopingAlone DEF Rescoped
  <2>4. ASSUME ~scope'[u].disturbed, RescopingFor(req'[w], u) PROVE Rescoped(req[w], u)'
    <3>1. req'[w].pc = "delete" /\ req'[w].list = list
      BY <1>2, <2>4 DEF RescopingFor
    <3>2. valid /\ scope'[u].asked = r.body.list \cap Buildings
      BY <2>1, <2>3, <2>4
    <3>3. users'[u].role = "manager" => list = r.body.list
      BY <1>1, <1>4
    <3> HIDE DEF list
    <3>4. users'[u].role = "manager" => scope'[u].asked = list
      BY <3>2, <3>3
    <3> QED
      BY <3>1, <3>4 DEF Rescoped
  <2>5. ~scope'[u].disturbed /\ ~Rescoping(req'[w]) => users'[u].role # "manager"
    BY <1>1, <1>2, <1>4, <2>3 DEF Rescoping
  <2>6. RescopingFor(req'[w], u) <=> Rescoping(req'[w])
    BY <1>2, <1>4 DEF RescopingFor
  <2>7. ~Rescoping(req'[w]) => Rescoped(req[w], u)'
    BY DEF Rescoped, Rescoping
  <2> QED
    BY <1>1, <2>2, <2>3, <2>4, <2>5, <2>6, <2>7, ScopeOwn
<1> QED
  BY <1>3, <1>4

LEMMA ReplaceDeleteScope ==
    ASSUME BaseInv, ScopeInv, NEW w \in Workers, ReplaceDelete(w) PROVE ScopeInv'
<1> SUFFICES ASSUME NEW u \in UserIds PROVE ScopeOK(u)'
  BY DEF ScopeInv
<1> DEFINE r == req[w]
<1>1. /\ Step(w) /\ ScopeOK(u) /\ req \in [Workers -> Request] /\ r \in Request
      /\ r.pc = "delete" /\ UNCHANGED <<assignments, users, scope>> /\ Rescoping(r)
      /\ req' = [req EXCEPT ![w].pc = "commit", ![w].seen = assignments[r.user]]
  BY BaseFacts DEF ScopeInv, Step, ReplaceDelete, Rescoping
<1>2. /\ req'[w].pc = "commit" /\ req'[w].user = r.user /\ req'[w].list = r.list
      /\ req'[w].seen = assignments[r.user]
  BY <1>1 DEF Request
<1>3. CASE u # r.user
  <2>1. ~RescopingFor(req'[w], u) /\ ~RescopingFor(r, u)
    BY <1>2, <1>3 DEF RescopingFor
  <2> QED
    BY <1>1, <2>1, ScopeApart DEF Exists
<1>4. CASE u = r.user
  <2>1. Exists(u)'
    BY <1>1, <1>4, RescopingAlone DEF Exists
  <2>2. ASSUME ~scope[u].disturbed
        PROVE  (\A v \in Workers \ {w} : ~RescopingFor(req[v], u)) /\ Rescoped(r, u)
    BY <1>1, <1>4, <2>2, RescopingAlone
  <2>3. ~scope[u].disturbed => Rescoped(req[w], u)'
    BY <1>1, <1>2, <1>4, <2>2 DEF Rescoped
  <2>4. RescopingFor(req'[w], u)
    BY <1>2, <1>4 DEF RescopingFor, Rescoping
  <2> QED
    BY <1>1, <2>1, <2>2, <2>3, <2>4, ScopeOwn
<1> QED
  BY <1>3, <1>4

LEMMA ReplaceCommitScope ==
    ASSUME BaseInv, ScopeInv, NEW w \in Workers, ReplaceCommit(w) PROVE ScopeInv'
<1> SUFFICES ASSUME NEW u \in UserIds PROVE ScopeOK(u)'
  BY DEF ScopeInv
<1> DEFINE r == req[w]
           remaining == assignments[r.user] \ r.seen
<1>1. /\ Step(w) /\ ScopeOK(u) /\ req \in [Workers -> Request] /\ r \in Request
      /\ assignments \in [UserIds -> SUBSET Buildings]
      /\ r.pc = "commit" /\ UNCHANGED <<users, scope>> /\ Rescoping(r)
  BY BaseFacts DEF ScopeInv, Step, ReplaceCommit, Rescoping
<1>2. /\ ~Rescoping(req'[w])
      /\ \/ r.list \cap remaining # {} /\ UNCHANGED assignments
         \/ assignments' = [assignments EXCEPT ![r.user] = remaining \cup r.list]
  BY <1>1 DEF ReplaceCommit, Idle, Rescoping
<1>3. CASE u # r.user
  <2>1. assignments'[u] = assignments[u] /\ ~RescopingFor(req'[w], u) /\ ~RescopingFor(r, u)
    BY <1>1, <1>2, <1>3 DEF RescopingFor
  <2> QED
    BY <1>1, <2>1, ScopeApart DEF Exists
<1>4. CASE u = r.user
  <2>1. Exists(u)'
    BY <1>1, <1>4, RescopingAlone DEF Exists
  <2>2. ASSUME ~scope[u].disturbed
        PROVE  (\A v \in Workers \ {w} : ~RescopingFor(req[v], u)) /\ Rescoped(r, u)
    BY <1>1, <1>4, <2>2, RescopingAlone
  <2>3. ASSUME ~scope[u].disturbed, users'[u].role = "manager"
        PROVE  assignments'[u] = scope'[u].asked
    <3>1. remaining = {} /\ r.list = scope[u].asked
      BY <1>1, <1>4, <2>2, <2>3 DEF Rescoped
    <3>2. assignments'[u] = r.list
      BY <1>1, <1>2, <1>4, <3>1
    <3> QED
      BY <1>1, <3>1, <3>2
  <2>4. Rescoped(req[w], u)'
    BY <1>2 DEF Rescoped, Rescoping
  <2> QED
    BY <1>1, <2>1, <2>2, <2>3, <2>4, ScopeOwn
<1> QED
  BY <1>3, <1>4

LEMMA AbortScope ==
    ASSUME BaseInv, ScopeInv, NEW w \in Workers, Abort(w) PROVE ScopeInv'
<1> SUFFICES ASSUME NEW u \in UserIds PROVE ScopeOK(u)'
  BY DEF ScopeInv
<1>1. /\ Step(w) /\ ScopeOK(u) /\ req \in [Workers -> Request]
      /\ scope \in [UserIds -> [asked: SUBSET Buildings, disturbed: BOOLEAN]]
      /\ UNCHANGED <<assignments, users>> /\ req' = [req EXCEPT ![w] = Idle]
      /\ scope' = IF Rescoping(req[w]) THEN [scope EXCEPT ![req[w].user].disturbed = TRUE]
                                       ELSE scope
  BY BaseFacts DEF ScopeInv, Step, Abort
<1>2. ~Rescoping(req'[w])
  BY <1>1 DEF Idle, Rescoping
<1>3. CASE RescopingFor(req[w], u)
  <2>1. Exists(u)' /\ scope'[u].disturbed
    BY <1>1, <1>3, RescopingAlone DEF Exists, RescopingFor
  <2> QED
    BY <2>1 DEF ScopeOK
<1>4. CASE ~RescopingFor(req[w], u)
  <2>1. scope'[u] = scope[u]
    BY <1>1, <1>4 DEF RescopingFor
  <2> QED
    BY <1>1, <1>2, <1>4, <2>1, ScopeApart DEF Exists, RescopingFor
<1> QED
  BY <1>3, <1>4

LEMMA ScopeInvStep ==
    ASSUME BaseInv, ScopeInv, [AccessNext]_accessVars PROVE ScopeInv'
<1>1. CASE UNCHANGED vars
  BY <1>1 DEF vars, ScopeInv, ScopeOK, Settled, Rescoped, Exists
<1>2. CASE Register
  <2>1. UNCHANGED <<assignments, scope, req>> /\ \A u \in UserIds : ~Exists(u)
    BY <1>2 DEF Register, CreateOrganizationAndUser
  <2>2. ASSUME NEW u \in UserIds PROVE ScopeOK(u)'
    <3>1. assignments[u] = scope[u].asked
      BY <2>1 DEF ScopeInv, ScopeOK
    <3>2. \A w \in Workers : ~RescopingFor(req[w], u)
      BY <2>1, BaseFacts DEF Locals, InUse, RescopingFor, Rescoping, Exists
    <3> QED
      BY <2>1, <3>1, <3>2 DEF ScopeOK, Settled
  <2> QED
    BY <2>2 DEF ScopeInv
<1>3. CASE ExpireToken
  BY <1>3 DEF ExpireToken, ScopeInv, ScopeOK, Settled, Rescoped, Exists
<1>4. ASSUME NEW w \in Workers, Step(w) PROVE ScopeInv'
  BY <1>4, UnscopedScope, CreateUserScope, PatchUpdateScope, PatchRefreshScope,
     ReplaceDeleteScope, ReplaceCommitScope, AbortScope DEF Step, UnscopedStep
<1> QED
  BY <1>1, <1>2, <1>3, <1>4, AccessSteps

-----------------------------------------------------------------------------
(***************************************************************************)
(* Theorems.                                                               *)
(***************************************************************************)
AllInv == BaseInv /\ SetupInv /\ GovernInv /\ InviteInv /\ ScopeInv

LEMMA Invariance == AccessSpec => []AllInv
<1>1. AccessInit => AllInv
  BY BaseInvInit, SetupInvInit, GovernInvInit, InviteInvInit, ScopeInvInit DEF AllInv
<1>2. AllInv /\ [AccessNext]_accessVars => AllInv'
  BY BaseInvStep, SetupInvStep, GovernInvStep, InviteInvStep, ScopeInvStep DEF AllInv
<1> QED
  BY <1>1, <1>2, PTL DEF AccessSpec

\* The tables and the requests' locals are what the code declares, whoever is
\* logged in.
THEOREM AccountsTypeCorrect == AccessSpec => []TypeOK
<1>1. AllInv => TypeOK
  BY DEF AllInv, BaseInv
<1> QED
  BY <1>1, Invariance, PTL

\* A token sets two passwords only if two confirmations overlapped or one was
\* given up between the password and the mark, for any number of requests.
THEOREM TokensAreOneTime == AccessSpec => []TokenSetsOnePassword
<1>1. AllInv => TokenSetsOnePassword
  BY DEF AllInv, SetupInv, OneTime, TokenSetsOnePassword
<1> QED
  BY <1>1, Invariance, PTL

\* An invited login whose invitation was not given up has a token to take it up
\* with, or will have as soon as the one being stored is.
THEOREM InvitationsStand == AccessSpec => []InvitedLoginHasToken
<1>1. AllInv => InvitedLoginHasToken
  BY DEF AllInv, InviteInv, Waiting, InvitingFor, Good, InvitedLoginHasToken
<1> QED
  BY <1>1, Invariance, PTL

\* A tenant's login is linked after its token was handed to the mailer.
THEOREM LinksWereInvited == AccessSpec => []LinkedLoginWasInvited
<1>1. AllInv => LinkedLoginWasInvited
  BY DEF AllInv, BaseInv, Link, Invited, LinkedLoginWasInvited
<1> QED
  BY <1>1, Invariance, PTL

\* A manager's buildings are those the last request that wrote it asked for,
\* unless another got in its way.
THEOREM ScopesAreAsAsked == AccessSpec => []ScopeIsAsAsked
<1>1. AllInv => ScopeIsAsAsked
  <2> SUFFICES ASSUME ScopeInv, NEW u \in UserIds, Exists(u), users[u].role = "manager",
                      ~scope[u].disturbed,
                      ~\E w \in Workers : req[w].user = u /\ Rescoping(req[w])
               PROVE  assignments[u] = scope[u].asked
    BY DEF AllInv, ScopeIsAsAsked
  <2> QED
    BY DEF ScopeInv, ScopeOK, Settled, RescopingFor
<1> QED
  BY <1>1, Invariance, PTL

\* A patch stores what its actor may store in whom it may change, unless the
\* role was set by another request after the check.
THEOREM PatchesFollowRoles == AccessSpec => PatchesAreGoverned
<1> DEFINE Governing ==
      \A w \in Workers :
         /\ req[w].op = "patch" /\ req[w].pc = "update" /\ req[w].fresh
         /\ users' # users /\ req'[w].pc = "refresh"
         => /\ Governs(req[w].actor, users[req[w].user].role)
            /\ Governs(req[w].actor, users'[req[w].user].role)
<1>1. AllInv /\ [AccessNext]_accessVars => [Governing]_vars
  BY GovernedStep DEF AllInv
<1> QED
  BY <1>1, Invariance, PTL DEF AccessSpec, PatchesAreGoverned
=============================================================================
