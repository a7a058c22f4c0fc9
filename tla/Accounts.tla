------------------------------ MODULE Accounts ------------------------------
(***************************************************************************)
(* The accounts of one organization: users and their building assignments  *)
(* (internal/modules/users), password setup tokens (internal/modules/auth) *)
(* and the login a new tenant is invited to (internal/modules/tenants).    *)
(*                                                                         *)
(* A worker is one request being served.  Every statement commits by       *)
(* itself and any other request may run between two of them; the one       *)
(* transaction, which replaces a manager's assignments, runs at the        *)
(* database's default isolation level, READ COMMITTED.  A check that the   *)
(* unique index on (organization, email) repeats is merged into the write. *)
(* Requests refused before their first statement with an effect are not    *)
(* steps.  Logging in and refreshing a session change no table.            *)
(*                                                                         *)
(* A definition whose name is another's with a suffix (ConfirmReadUsed) is *)
(* a faulty variant of it that no run uses: put in its place, it shows     *)
(* that a property would notice the fault.                                 *)
(***************************************************************************)
EXTENDS Integers, FiniteSets

CONSTANTS Workers,    \* requests that may be in progress at once
          UserIds,    \* primary keys the users table may use
          TokenIds,   \* primary keys the password setup tokens may use
          TenantIds,  \* primary keys the tenants table may use
          Emails,     \* addresses in use
          Buildings,  \* buildings of the organization
          Elsewhere,  \* a building of another organization
          Stories,    \* what happens in the instance: see Story
          Keep,       \* a field the body leaves out
          None        \* no user, no tenant, no token, no address

UserRole   == {"admin", "landlord", "manager", "property_manager", "accountant",
               "staff", "tenant"}
UserStatus == {"active", "disabled", "invited"}
Lists      == SUBSET (Buildings \cup {Elsewhere})

\* listed: the body has manager_building_ids (an empty list is one).
NewUser == [email: Emails, role: UserRole, status: UserStatus, list: Lists]
Patch   == [email: Emails \cup {Keep}, role: UserRole \cup {Keep},
            status: UserStatus \cup {Keep}, listed: BOOLEAN, list: Lists]

\* A story is a bound on what happens: which users manage users, with which
\* bodies, which keys are given out, whether one request runs at a time, and
\* whether statements and mails may fail.  An instance has one story or several.
Story == [actors: SUBSET {"admin", "landlord", "manager", "property_manager"},
          newUsers: SUBSET NewUser, patches: SUBSET Patch,
          tokens: SUBSET TokenIds, tenants: SUBSET TenantIds, emails: SUBSET Emails,
          serial: BOOLEAN, failures: BOOLEAN]

ASSUME StoriesAssumption ==
    \A s \in DOMAIN Stories :
        /\ \A f \in {"actors", "newUsers", "patches", "tokens", "tenants", "emails",
                      "serial", "failures"} : f \in DOMAIN Stories[s]
        /\ Stories[s].actors \subseteq UserRole /\ Stories[s].newUsers \subseteq NewUser
        /\ Stories[s].tokens \subseteq TokenIds /\ Stories[s].tenants \subseteq TenantIds
        /\ Stories[s].emails \subseteq Emails
        /\ \A p \in Stories[s].patches : p \in Patch /\ (~p.listed => p.list = {})

ASSUME ValuesAssumption ==
    /\ None \notin UserIds \cup TokenIds \cup TenantIds \cup Emails
    /\ Keep \notin Emails \cup {None} /\ Keep \notin UserRole \cup UserStatus
    /\ Elsewhere \notin Buildings

VARIABLES
    story,       \* the story being told, the same in all states of a behaviour
    users,       \* the users table; status "absent" is a key not in use
    assignments, \* the manager_building_assignments of each user
    tokens,      \* the auth_password_setup_tokens table
    tenants,     \* the tenants table: address, and the login stored in user_id
    req,         \* what each request in progress holds in its local variables
    scope,       \* history: the buildings the last request that wrote the user
                 \* asked for, and whether something came in its way
    stranded     \* history: the user's status was last written by hand, or by
                 \* an invitation that was given up before its token was stored

vars == <<story, users, assignments, tokens, tenants, req, scope, stranded>>

User == [status: UserStatus \cup {"absent"}, role: UserRole,
         email: Emails \cup {None}, tenant: TenantIds \cup {None}]

NoUser == [status |-> "absent", role |-> "staff", email |-> None, tenant |-> None]

\* mailed, passwords and excused are history: the token was sent, how often it
\* set a password (0, 1, or 2 for more), and whether two confirmations of it
\* overlapped or one was given up before the token was marked used.
Token == [state: {"absent", "live", "expired", "used"}, user: UserIds \cup {None},
          mailed: BOOLEAN, passwords: 0..2, excused: BOOLEAN]

NoToken == [state |-> "absent", user |-> None, mailed |-> FALSE,
            passwords |-> 0, excused |-> FALSE]

Tenant == [exists: BOOLEAN, email: Emails \cup {None}, user: UserIds \cup {None}]

NoTenant == [exists |-> FALSE, email |-> None, user |-> None]

(***************************************************************************)
(* A request's locals: the user, token and tenant it works on, the actor's *)
(* role, the body, the buildings it is about to store, and the assignment  *)
(* rows its DELETE found.  "fresh" is history: no other request has set    *)
(* the user's role since this one loaded it.                               *)
(***************************************************************************)
Request == [op: {"none", "create", "patch", "confirm", "setup", "tenant"},
            pc: {"idle", "update", "refresh", "delete", "commit", "activate", "mark",
                 "find", "insert", "invite", "token", "mail", "link"},
            user: UserIds \cup {None}, token: TokenIds \cup {None},
            tenant: TenantIds \cup {None}, actor: UserRole,
            body: Patch, list: Lists, seen: SUBSET Buildings, fresh: BOOLEAN]

NoBody == [email |-> Keep, role |-> Keep, status |-> Keep, listed |-> FALSE, list |-> {}]

Idle == [op |-> "none", pc |-> "idle", user |-> None, token |-> None, tenant |-> None,
         actor |-> "admin", body |-> NoBody, list |-> {}, seen |-> {}, fresh |-> FALSE]

TypeOK ==
    /\ story \in DOMAIN Stories
    /\ users \in [UserIds -> User]
    /\ assignments \in [UserIds -> SUBSET Buildings]
    /\ tokens \in [TokenIds -> Token]
    /\ tenants \in [TenantIds -> Tenant]
    /\ req \in [Workers -> Request]
    /\ scope \in [UserIds -> [asked: SUBSET Buildings, disturbed: BOOLEAN]]
    /\ stranded \in [UserIds -> BOOLEAN]

Init ==
    /\ story \in DOMAIN Stories
    /\ users = [u \in UserIds |-> NoUser]
    /\ assignments = [u \in UserIds |-> {}]
    /\ tokens = [t \in TokenIds |-> NoToken]
    /\ tenants = [n \in TenantIds |-> NoTenant]
    /\ req = [w \in Workers |-> Idle]
    /\ scope = [u \in UserIds |-> [asked |-> {}, disturbed |-> FALSE]]
    /\ stranded = [u \in UserIds |-> FALSE]

Scene == Stories[story]

\* A request may come in.
Free(w) == req[w].pc = "idle" /\ (Scene.serial => \A v \in Workers : req[v].pc = "idle")

-----------------------------------------------------------------------------
(***************************************************************************)
(* Users and roles.                                                        *)
(***************************************************************************)
Exists(u) == users[u].status # "absent"

SetVerbatim(old, new) == new

Set(old, new) == IF new = Keep THEN old ELSE new

\* EmailTakenByOtherUser, which the unique index enforces once more.
EmailTaken(email, except) == \E u \in UserIds \ {except} : users[u].email = email

\* actorCanAssignRole and actorCanModifyTarget: whom an actor may make, and
\* whom it may change.
Governs(actor, role) ==
    CASE actor = "admin"    -> TRUE
      [] actor = "landlord" -> role \notin {"admin", "landlord"}
      [] OTHER              -> role \in {"staff", "tenant"}

\* The request has written the user and has not replaced the assignments since.
Rescoping(r) == r.pc \in {"refresh", "delete", "commit"}

OthersRescoping(w, u) ==
    \E v \in Workers \ {w} : req[v].user = u /\ Rescoping(req[v])

\* History: a request about to store the role and perhaps the scope of u.
Asking(w, u, list) ==
    [scope EXCEPT ![u] = [asked |-> list \cap Buildings,
                          disturbed |-> OthersRescoping(w, u)]]

\* The requests after w stored the body of r and moved on: a role that others
\* loaded may be out of date.
AfterPatch(w, r) ==
    [v \in Workers |-> IF v = w THEN [r EXCEPT !.pc = "refresh"]
                       ELSE IF req[v].user = r.user /\ r.body.role # Keep
                       THEN [req[v] EXCEPT !.fresh = FALSE]
                       ELSE req[v]]

\* Create: INSERT INTO users.  A manager's buildings follow, if they are the
\* organization's; if not the request fails and the user stays.
CreateUser(w) ==
    /\ Free(w)
    /\ \E u \in UserIds, n \in Scene.newUsers, a \in Scene.actors :
          /\ ~Exists(u) /\ ~EmailTaken(n.email, u) /\ Governs(a, n.role)
          /\ users' = [users EXCEPT ![u] =
                [NoUser EXCEPT !.status = n.status, !.role = n.role, !.email = n.email]]
          /\ LET replaces == n.role = "manager" /\ n.list \subseteq Buildings
             IN  /\ req' = [req EXCEPT ![w] =
                       IF replaces THEN [Idle EXCEPT !.op = "create", !.pc = "delete",
                                                     !.user = u, !.list = n.list]
                                   ELSE Idle]
                 /\ scope' = [scope EXCEPT ![u] = [asked |-> n.list \cap Buildings,
                                                   disturbed |-> ~replaces]]
          /\ stranded' = [stranded EXCEPT ![u] = TRUE]
    /\ UNCHANGED <<assignments, tokens, tenants>>

PatchLoadUnchecked(w) ==
    /\ Free(w)
    /\ \E u \in UserIds, p \in Scene.patches, a \in Scene.actors :
          /\ Exists(u)
          /\ p.role # Keep => Governs(a, p.role)
          /\ req' = [req EXCEPT ![w] =
                [Idle EXCEPT !.op = "patch", !.pc = "update", !.user = u, !.actor = a,
                             !.body = p, !.fresh = TRUE]]
    /\ UNCHANGED <<users, assignments, tokens, tenants, scope, stranded>>

\* Patch: load the target and check the actor against its role and against
\* the role in the body.  A body with no column to store ends here, even if
\* it has a list of buildings.
PatchLoad(w) ==
    /\ Free(w)
    /\ \E u \in UserIds, p \in Scene.patches, a \in Scene.actors :
          /\ Exists(u)
          /\ Governs(a, users[u].role)
          /\ p.role # Keep => Governs(a, p.role)
          /\ req' = [req EXCEPT ![w] =
                [Idle EXCEPT !.op = "patch", !.pc = "update", !.user = u, !.actor = a,
                             !.body = p, !.fresh = TRUE]]
    /\ UNCHANGED <<users, assignments, tokens, tenants, scope, stranded>>

\* Patch: UPDATE users; an address another user has is refused.
PatchUpdate(w) ==
    LET r == req[w]
        u == r.user
    IN  /\ r.op = "patch" /\ r.pc = "update"
        /\ IF EmailTaken(r.body.email, u)
           THEN /\ req' = [req EXCEPT ![w] = Idle]
                /\ UNCHANGED <<users, scope, stranded>>
           ELSE /\ users' = [users EXCEPT ![u].email = Set(@, r.body.email),
                                          ![u].role = Set(@, r.body.role),
                                          ![u].status = Set(@, r.body.status)]
                /\ req' = AfterPatch(w, r)
                /\ scope' = Asking(w, u, r.body.list)
                /\ stranded' = [stranded EXCEPT ![u] = @ \/ r.body.status # Keep]
        /\ UNCHANGED <<assignments, tokens, tenants>>

PatchRefreshKept(w) ==
    LET r == req[w]
        manager == users[r.user].role = "manager"
        list == IF r.body.listed THEN r.body.list ELSE assignments[r.user]
    IN  /\ r.pc = "refresh"
        /\ req' = [req EXCEPT ![w] =
              IF manager /\ list \subseteq Buildings
              THEN [r EXCEPT !.pc = "delete", !.list = list]
              ELSE Idle]
        /\ UNCHANGED <<users, assignments, tokens, tenants, scope, stranded>>

\* Patch: read the user again.  The assignments of a manager become those of
\* the body, none if it has no list; those of another user go only if the
\* body has a list.  A list with a building of another organization fails.
PatchRefresh(w) ==
    LET r == req[w]
        manager == users[r.user].role = "manager"
        list == IF manager THEN r.body.list ELSE {}
        valid == list \subseteq Buildings
    IN  /\ r.pc = "refresh"
        /\ req' = [req EXCEPT ![w] =
              IF (manager \/ r.body.listed) /\ valid
              THEN [r EXCEPT !.pc = "delete", !.list = list]
              ELSE Idle]
        /\ scope' = [scope EXCEPT ![r.user].disturbed = @ \/ ~valid]
        /\ UNCHANGED <<users, assignments, tokens, tenants, stranded>>

\* ReplaceManagerBuildingAssignments: the transaction's DELETE takes the rows
\* that are committed when it starts.
ReplaceDelete(w) ==
    /\ req[w].pc = "delete"
    /\ req' = [req EXCEPT ![w].pc = "commit", ![w].seen = assignments[req[w].user]]
    /\ UNCHANGED <<users, assignments, tokens, tenants, scope, stranded>>

ReplaceCommitAdds(w) ==
    LET r == req[w]
    IN  /\ r.pc = "commit"
        /\ assignments' = [assignments EXCEPT ![r.user] = @ \cup r.list]
        /\ req' = [req EXCEPT ![w] = Idle]
        /\ UNCHANGED <<users, tokens, tenants, scope, stranded>>

\* The INSERTs and COMMIT: rows another transaction has committed since stay,
\* and one for the same building is a duplicate that undoes the transaction.
\* A row that is deleted and inserted again is another row.
ReplaceCommit(w) ==
    LET r == req[w]
        remaining == assignments[r.user] \ r.seen
        Unseen(v) == IF req[v].user = r.user THEN [req[v] EXCEPT !.seen = @ \ r.seen]
                                             ELSE req[v]
    IN  /\ r.pc = "commit"
        /\ IF r.list \cap remaining # {}
           THEN /\ req' = [req EXCEPT ![w] = Idle]
                /\ UNCHANGED assignments
           ELSE /\ assignments' = [assignments EXCEPT ![r.user] = remaining \cup r.list]
                /\ req' = [v \in Workers |-> IF v = w THEN Idle ELSE Unseen(v)]
        /\ UNCHANGED <<users, tokens, tenants, scope, stranded>>

-----------------------------------------------------------------------------
(***************************************************************************)
(* Password setup.                                                         *)
(***************************************************************************)

\* StartPasswordSetup: find the user by address, whatever its status.
StartPasswordSetup(w) ==
    /\ Free(w)
    /\ \E t \in Scene.tokens : tokens[t].state = "absent"
    /\ \E u \in UserIds :
          /\ Exists(u)
          /\ req' = [req EXCEPT ![w] =
                [Idle EXCEPT !.op = "setup", !.pc = "token", !.user = u]]
    /\ UNCHANGED <<users, assignments, tokens, tenants, scope, stranded>>

\* CreatePasswordSetupToken; earlier tokens of the user stay good.
IssueToken(w) ==
    /\ req[w].pc = "token"
    /\ \E t \in Scene.tokens :
          /\ tokens[t].state = "absent"
          /\ tokens' = [tokens EXCEPT ![t].state = "live", ![t].user = req[w].user]
          /\ req' = [req EXCEPT ![w].pc = "mail", ![w].token = t]
    /\ UNCHANGED <<users, assignments, tenants, scope, stranded>>

SendInviteDropped(w) ==
    /\ req[w].pc = "mail"
    /\ req' = [req EXCEPT ![w] = IF @.op = "tenant" THEN [@ EXCEPT !.pc = "link"] ELSE Idle]
    /\ UNCHANGED <<users, assignments, tokens, tenants, scope, stranded>>

\* sendPasswordSetupInvite; an invited tenant is linked in a later statement.
SendInvite(w) ==
    /\ req[w].pc = "mail"
    /\ tokens' = [tokens EXCEPT ![req[w].token].mailed = TRUE]
    /\ req' = [req EXCEPT ![w] = IF @.op = "tenant" THEN [@ EXCEPT !.pc = "link"] ELSE Idle]
    /\ UNCHANGED <<users, assignments, tenants, scope, stranded>>

ExpireToken ==
    /\ \E t \in TokenIds :
          /\ tokens[t].state = "live"
          /\ tokens' = [tokens EXCEPT ![t].state = "expired"]
    /\ UNCHANGED <<users, assignments, tenants, req, scope, stranded>>

Confirming(t) == \E v \in Workers : req[v].op = "confirm" /\ req[v].token = t

ConfirmReadUsed(w) ==
    /\ Free(w)
    /\ \E t \in TokenIds :
          /\ tokens[t].state \in {"live", "used"}
          /\ req' = [req EXCEPT ![w] = [Idle EXCEPT !.op = "confirm", !.pc = "activate",
                                                    !.token = t, !.user = tokens[t].user]]
          /\ tokens' = [tokens EXCEPT ![t].excused = @ \/ Confirming(t)]
    /\ UNCHANGED <<users, assignments, tenants, scope, stranded>>

\* ConfirmPasswordSetup: the token must not be used and not be expired.
ConfirmRead(w) ==
    /\ Free(w)
    /\ \E t \in TokenIds :
          /\ tokens[t].state = "live"
          /\ req' = [req EXCEPT ![w] = [Idle EXCEPT !.op = "confirm", !.pc = "activate",
                                                    !.token = t, !.user = tokens[t].user]]
          /\ tokens' = [tokens EXCEPT ![t].excused = @ \/ Confirming(t)]
    /\ UNCHANGED <<users, assignments, tenants, scope, stranded>>

\* ConfirmPasswordSetup: the user gets the password and becomes active.
ConfirmActivate(w) ==
    LET r == req[w]
    IN  /\ r.pc = "activate"
        /\ users' = [users EXCEPT ![r.user].status = "active"]
        /\ tokens' = [tokens EXCEPT ![r.token].passwords = IF @ = 0 THEN 1 ELSE 2]
        /\ stranded' = [stranded EXCEPT ![r.user] = FALSE]
        /\ req' = [req EXCEPT ![w].pc = "mark"]
        /\ UNCHANGED <<assignments, tenants, scope>>

\* MarkPasswordSetupTokenUsed.
ConfirmMark(w) ==
    /\ req[w].pc = "mark"
    /\ tokens' = [tokens EXCEPT ![req[w].token].state = "used"]
    /\ req' = [req EXCEPT ![w] = Idle]
    /\ UNCHANGED <<users, assignments, tenants, scope, stranded>>

-----------------------------------------------------------------------------
(***************************************************************************)
(* A new tenant and its login (tenants Create, ProvisionTenantInvite).     *)
(***************************************************************************)

\* INSERT INTO tenants; the login follows, if the tenant has an address.
CreateTenant(w) ==
    /\ Free(w)
    /\ \E n \in Scene.tenants, e \in Scene.emails \cup {None} :
          /\ ~tenants[n].exists
          /\ tenants' = [tenants EXCEPT ![n] = [exists |-> TRUE, email |-> e, user |-> None]]
          /\ req' = [req EXCEPT ![w] = IF e = None THEN Idle
                        ELSE [Idle EXCEPT !.op = "tenant", !.pc = "find", !.tenant = n]]
    /\ UNCHANGED <<users, assignments, tokens, scope, stranded>>

\* Find the login by address; one that is no tenant's is refused and the
\* tenant stays without.
FindLogin(w) ==
    LET email == tenants[req[w].tenant].email
    IN  /\ req[w].pc = "find"
        /\ \/ /\ ~EmailTaken(email, None)
              /\ req' = [req EXCEPT ![w].pc = "insert"]
           \/ \E u \in UserIds :
                 /\ users[u].email = email
                 /\ req' = [req EXCEPT ![w] =
                       IF users[u].role = "tenant" THEN [@ EXCEPT !.pc = "invite", !.user = u]
                                                   ELSE Idle]
        /\ UNCHANGED <<users, assignments, tokens, tenants, scope, stranded>>

\* INSERT the login, invited and with a random password; refused by the
\* unique index if the address was taken since.
InsertLogin(w) ==
    LET n == req[w].tenant
    IN  /\ req[w].pc = "insert"
        /\ IF EmailTaken(tenants[n].email, None)
           THEN /\ req' = [req EXCEPT ![w] = Idle]
                /\ UNCHANGED <<users, stranded>>
           ELSE \E u \in UserIds :
                 /\ ~Exists(u)
                 /\ users' = [users EXCEPT ![u] = [status |-> "invited", role |-> "tenant",
                                                   email |-> tenants[n].email, tenant |-> n]]
                 /\ stranded' = [stranded EXCEPT ![u] = FALSE]
                 /\ req' = [req EXCEPT ![w].pc = "invite", ![w].user = u]
        /\ UNCHANGED <<assignments, tokens, tenants, scope>>

InviteLoginUntokened(w) ==
    LET r == req[w]
    IN  /\ r.pc = "invite"
        /\ users' = [users EXCEPT ![r.user].status = "invited", ![r.user].tenant = r.tenant]
        /\ stranded' = [stranded EXCEPT ![r.user] = FALSE]
        /\ req' = [req EXCEPT ![w].pc = "link"]
        /\ UNCHANGED <<assignments, tokens, tenants, scope>>

\* UPDATE the login, also one in use: it is this tenant's and invited again.
InviteLogin(w) ==
    LET r == req[w]
    IN  /\ r.pc = "invite"
        /\ users' = [users EXCEPT ![r.user].status = "invited", ![r.user].tenant = r.tenant]
        /\ stranded' = [stranded EXCEPT ![r.user] = FALSE]
        /\ req' = [req EXCEPT ![w].pc = "token"]
        /\ UNCHANGED <<assignments, tokens, tenants, scope>>

\* UPDATE tenants SET user_id, after the mail was handed over.
LinkTenant(w) ==
    /\ req[w].pc = "link"
    /\ tenants' = [tenants EXCEPT ![req[w].tenant].user = req[w].user]
    /\ req' = [req EXCEPT ![w] = Idle]
    /\ UNCHANGED <<users, assignments, tokens, scope, stranded>>

\* The request has an invitation under way whose token is not stored yet.
Inviting(r) == r.op = "tenant" /\ r.pc \in {"invite", "token"}

\* A statement or a mail fails, or the process stops: what was committed
\* stays, a transaction is undone, the rest of the handler does not happen.
Abort(w) ==
    LET r == req[w]
    IN  /\ Scene.failures
        /\ r.pc # "idle"
        /\ scope' = IF Rescoping(r) THEN [scope EXCEPT ![r.user].disturbed = TRUE] ELSE scope
        /\ stranded' = IF Inviting(r) THEN [stranded EXCEPT ![r.user] = TRUE] ELSE stranded
        /\ tokens' = IF r.op = "confirm" THEN [tokens EXCEPT ![r.token].excused = TRUE]
                                         ELSE tokens
        /\ req' = [req EXCEPT ![w] = Idle]
        /\ UNCHANGED <<users, assignments, tenants>>

Step(w) ==
    \/ CreateUser(w) \/ PatchLoad(w) \/ PatchUpdate(w) \/ PatchRefresh(w)
    \/ ReplaceDelete(w) \/ ReplaceCommit(w)
    \/ StartPasswordSetup(w) \/ IssueToken(w) \/ SendInvite(w)
    \/ ConfirmRead(w) \/ ConfirmActivate(w) \/ ConfirmMark(w)
    \/ CreateTenant(w) \/ FindLogin(w) \/ InsertLogin(w) \/ InviteLogin(w) \/ LinkTenant(w)
    \/ Abort(w)

Next ==
    /\ \/ \E w \in Workers : Step(w)
       \/ ExpireToken
    /\ UNCHANGED story

Spec == Init /\ [][Next]_vars

-----------------------------------------------------------------------------
(***************************************************************************)
(* Properties.                                                             *)
(***************************************************************************)

\* Password setup is one-time but for races and crashes: a token sets two
\* passwords only if two confirmations of it overlapped, or one of them was
\* given up between storing the password and marking the token.
TokenSetsOnePassword ==
    \A t \in TokenIds : tokens[t].passwords = 2 => tokens[t].excused

\* A login that was invited for a tenant can be taken up: as long as it shows
\* "invited" there is a token for it that has not been used, or one is about
\* to be stored, whatever confirmations of earlier tokens and further
\* invitations of the same address run at the same time.
InvitedLoginHasToken ==
    \A u \in UserIds :
        /\ users[u].status = "invited" /\ ~stranded[u]
        /\ ~\E w \in Workers : Inviting(req[w]) /\ req[w].user = u
        => \E t \in TokenIds : tokens[t].user = u /\ tokens[t].state \in {"live", "expired"}

\* A tenant is linked to its login last: a linked login has been sent a token,
\* and a tenant whose invitation failed anywhere stays without login.
LinkedLoginWasInvited ==
    \A n \in TenantIds : tenants[n].user # None =>
        \E t \in TokenIds : tokens[t].user = tenants[n].user /\ tokens[t].mailed

\* The scope of a manager is the list of the last request that wrote the user
\* (none, if it had no list), in full and nothing else; only a request that
\* overlapped another's, was refused half way or was given up leaves another.
ScopeIsAsAsked ==
    \A u \in UserIds :
        /\ Exists(u) /\ users[u].role = "manager" /\ ~scope[u].disturbed
        /\ ~\E w \in Workers : req[w].user = u /\ Rescoping(req[w])
        => assignments[u] = scope[u].asked

\* "Manager: may update staff only", handler.go of the users: what a request
\* stores in a user, it stores in one its actor may change, unless another
\* request set the role after this one had checked it.
PatchesAreGoverned ==
    [][\A w \in Workers :
          /\ req[w].op = "patch" /\ req[w].pc = "update" /\ req[w].fresh
          /\ users' # users /\ req'[w].pc = "refresh"
          => /\ Governs(req[w].actor, users[req[w].user].role)
             /\ Governs(req[w].actor, users'[req[w].user].role)]_vars

(***************************************************************************)
(* What comments and documentation say, and the code does not do.          *)
(***************************************************************************)

\* "ConfirmPasswordSetup consumes a one-time token", service.go of the auth
\* module: a token sets one password at most.
SetupTokenIsOneTime == \A t \in TokenIds : tokens[t].passwords <= 1

\* "PatchUserRequest updates a user. Omitted fields are unchanged.", dto.go of
\* the users: a body without a list leaves the assignments alone.
OmittedListIsUnchanged ==
    [][\A w \in Workers :
          /\ req[w].op = "patch" /\ ~req[w].body.listed
          /\ req[w].pc = "commit" /\ req'[w].pc = "idle"
          => assignments'[req[w].user] = assignments[req[w].user]]_vars
=============================================================================
