# Verification of rms-be

TLA+ models of the rental management backend in `src/`: Go, Gin for HTTP, GORM
over PostgreSQL. The server keeps organizations, buildings, units, tenants,
leases, payments and users in tables; a second process, the worker, sends
billing reminders once a day. The models say what requests and workers that run
beside each other may do to those tables, TLC checks them on small instances,
and TLAPS proves the main properties for every size.

## The system

### One fact that shapes everything

Almost every repository call is one SQL statement that commits by itself. There
are two transactions in the whole program: `auth.CreateOrganizationAndUser` and
`users.ReplaceManagerBuildingAssignments`, at PostgreSQL's default level, READ
COMMITTED. There is no row lock and no optimistic version. A handler is a
sequence of statements, and any other request may run between two of them; a
failed statement, a cancelled context or a stopped process leaves the first half
of a handler in the tables. `AutoMigrate` creates the unique indexes named in
the model tags and none of the CHECK, EXCLUDE and trigger constraints that the
comments of the models mention (`internal/app/migrate.go:22-25`).

### Components

| Component | State | Operations that write | What makes it correct |
|---|---|---|---|
| leases | `leases`, `lease_renewal_offers`, `lease_closeouts`; writes `units.status` | Create, Patch, End, Approve, Reject, Create/Accept/RejectRenewalOffer, Closeout | active primary leases of a unit do not overlap; dates are in order; a unit shows occupied exactly when it has an active lease; an offer renews once |
| payments | `payments`, `payment_reminders` | Initiate, RecordManual, IPN callback, status query, SendReminders, RegisterPesapalIPN | a payment's outcome is the order's, or the word of a public callback that nobody checks; nothing else makes one up |
| Pesapal client | none (a token per call) | SubmitOrder, GetTransactionStatus | an answer may be lost after the order was taken |
| users | `users`, `manager_building_assignments` | Create, Patch | roles govern whom one may change; a manager's scope is what was asked |
| auth | `auth_password_setup_tokens`; writes `users` | Register, StartPasswordSetup, ConfirmPasswordSetup, ProvisionTenantInvite | a token sets one password; an invited login can be taken up |
| tenants | `tenants` | Create (which invites), Patch, Delete | a tenant with leases stays |
| units | `units` | Create, Patch, Delete | a unit with an active lease stays; labels are unique in a building |
| buildings | `buildings` | Create, Patch, Delete | a building with units stays |
| billing worker | `notification_logs` | the daily run | nobody is reminded twice without a reason; the run forgets nobody it selected |
| notifications | none | Mailjet and no-op senders | |
| organizations | `organizations` | Create, Patch | slug unique; only its own |
| sessions (auth, JWT, middleware) | none on the server: a role and an organization in a signed token | Register, Login, Refresh, Me | a token's claims are wrong for a bounded time; a request touches its caller's scope |
| SMS, EgoSMS | none | Send, BulkSend, SendTemplate with retries | the counts of the answer are right; a message repeats only after a lost answer |
| rate limiter | buckets by address, under a mutex | the middleware | nobody gets more than the rate, although idle addresses are forgotten |
| API process | `shuttingDown`, `defaultNotificationID` | start, stop, crash | requests are answered before the process ends, and it does end |

Interactions: the lease service writes the units table; tenants call auth to
provision a login, which writes users and tokens and sends a mail; deletions of
buildings, units and tenants count rows of the next table; payments call
Pesapal and are called back by it; the worker reads charges, leases and tenants
and calls Mailjet. Everything meets in the database; the only state shared in a
process is the rate limiters' tables, a flag of the shutdown and one unguarded
field of the payments service (`defaultNotificationID`).

Hard behaviours: a check and the write it is for are two statements (overlap,
occupancy, deletion, one-time tokens, reminders); an answer of Pesapal is stored
after newer ones; callbacks are lost, repeated, reordered, and come by a public
route; errors of some
statements are dropped on purpose (`_ = s.repo...`), so that a handler goes on
without them; the worker may crash between a message and its record, and two of
them may run; a request decides by what a token says and by scopes it read some
statements ago; a stop waits for requests that wait for a provider.
`PROJECT.json` lists each at its line under `hazards`.

## The modules

| Module | Models | Checked by | Proved in |
|---|---|---|---|
| `Leases` | the lease service and unit occupancy | `MCLeases` | `LeasesProofs` |
| `UnitOccupancy` | what the lease service promises of a unit's status, abstractly | as a property of `Leases` | `LeasesProofs` |
| `Payments` | payments and the gateway around them | `MCPayments` | `PaymentsProofs` |
| `Inventory` | buildings, units, tenants, leases as rows that refer to each other and are soft-deleted | `MCInventory` | `InventoryProofs` |
| `Accounts` | users, assignments, setup tokens, tenant logins | `MCAccess` | `AccountsProofs` |
| `Endpoints` | what each of the 46 authenticated endpoints does, as data | through `Access` | `AccessProofs` |
| `Access` | sessions, middleware and the run of an endpoint, beside `Accounts` | `MCAccess` | `AccessProofs` |
| `Reminders` | the worker and its reminders | `MCReminders` | `RemindersProofs` |
| `CollectionDesk` | reminder candidates and reminders recorded by hand | `MCReminders` | `RemindersProofs` |
| `TokenBucket` | what the limiter promises an address, abstractly | as a property of `RateLimiter` | `RateLimiterProofs` |
| `RateLimiter` | the table of buckets | through `ApiServer` | `RateLimiterProofs` |
| `ApiServer` | the API process: start, requests for SMS, registrations and payments, stop, crash | `MCApiServer` | `ApiServerProofs` |

How they compose: `Access` EXTENDS `Accounts` and `Endpoints`, so that a request
runs between the statements of the requests that change users, assignments and
tenants. `ApiServer` EXTENDS `RateLimiter`: a request is one the limiter let
through, and a new process is a new table. `CollectionDesk` EXTENDS `Reminders`
for the charges both read. `UnitOccupancy` and `TokenBucket` are abstract
specifications that `Leases` and `RateLimiter` implement.

Each module of code has the tables as variables, and `req` (`proc` for the
worker): for each request in progress, the statement it issues next (`pc`) and
the local variables of the handler it still needs. One action is one statement,
or one call of an outside service, together with the computation up to the next
one. A request that is refused before its first statement with an effect changes
nothing and is no step. Requests carry no role or organization unless a property
is about them (`Accounts`, `Access`); the checks that precede a statement and only refuse
are left out where the models already allow a request not to happen.

A read is merged into another statement only when nothing can change what it
reads in between (a lease's unit and tenant; a row that no operation removes),
or when a unique index repeats the check at the write. Each merge is noted where
it is made.

Some fields are history: the program does not store them, no guard reads them,
and properties use them to name the one cause that excuses a bad state
(`trusted`, `datesChecked`, `overlapChecked`, `fresh`, `synced`, `unbacked`,
`raced`, `housed`, `known`, `disturbed`, `stranded`, `excused`, `lately`, `held`, `kept`, `linked`,
`admitted`, `hits`, `lost`). The properties are written this
way because the plain statements are false: the code has the races. What is
worth knowing, and could be wrong, is that nothing but those races breaks them.

A definition whose name extends another's (`SyncingSkipped` for `Syncing`) is a
faulty variant that no specification uses. Put in place of the original, it
makes the property listed with it in `PROJECT.json` fail, which shows that the
property can tell.

### Leases

`leases`, `offers`, `closeouts` and `unitStatus` are the tables. `CreateLease`
to `AcceptDecideOffer` are the handlers up to the statement they share;
`UpdateLease` and `InsertLease` write the row; `CountActiveLeasesOnUnit` and
`SetUnitStatus` are `syncUnitOccupancy`. `Abort` ends a request between any two
statements, `AcceptUpdateFails` is the dropped error in the middle of an
accepted renewal. `is_primary: false` is stored as true, as GORM does with a
zero value of a column that has a default. Dates count seconds, as the last day
of a renewed lease is one second before the new one begins.

### Payments

The gateway is external: an order per payment, moved by the customer and the
bank. `FindForNotice` and `UpdateFromIPN` are the callback. Its route is public
(`internal/app/router.go:79-80`, `payments/handler.go:339-361`), and the service
does not ask the gateway whether what it says is so: the model takes a callback of
any type with any reference and tracking id at any time, those of the gateway
among them, late, twice or not at all. `Says`, `Names`, `WasSo` and `IsSo` hold a
callback against the order it names, for the history only: `unbacked` marks a row
whose status was last written on the word of a callback that was never so, and
`fresh` and `synced` one that is so still. The reference `Initiate` makes up is one
of `Placeholders`, of which two payments may get the same; a manual payment may be
given a placeholder or the key of a payment (`ManualRefs`), as `external_ref` is
free. `AskGateway`, `FindForStatus`, `UpdateFromIPN` and `LinkPayment` are the
status query. The two places where the code drops an error are steps of their own.

What the code lets a callback do is thereby in the model and not in the
properties' way: they say that a callback which is not so reaches the rows it
names and no others, that nothing else makes up an outcome, and that an answer of
the gateway puts it right.

### Accounts

Users, their assignments, tokens and tenants of one organization. `Governs` is
the role rule for making and for changing a user. `ReplaceDelete` and
`ReplaceCommit` are the transaction at READ COMMITTED: its DELETE takes what is
committed when it starts, and what another transaction commits meanwhile stays
or is a duplicate.

### Endpoints and Access

A request of the authenticated API passes `JWTAuth`, for some routes
`RequireRoles` and `RequireOrganizationParam`, binds its body, and enters a
service function that checks the organization and the role again and then issues
its statements. Forty-six endpoints are written this way, each with its own
copies of the checks, and what differs is data: `Endpoints` has one plan for each,
the roles admitted and the statements in order, with the code a failing one is
answered with. `Access` runs the plans, one statement a step, with failures,
passing over the statements that are not for the caller's role (`PassOver`),
while `Accounts` changes users, a manager's buildings and a tenant's link.
A statement whose error the code drops is in the plan as one that may fail without
ending the request (`RowsUnheeded`, `StoreUnheeded`, `ReloadUnheeded`), and
`AnswersAreTrue` names the endpoints that have one. What
a statement stores is left to the other modules; here it matters that it stores,
and which row it was let through to. `Register`, `Login` and `Refresh` hand out
the token pairs; `Tick` ages them. Tokens carry the role of the row as it was;
`lately` remembers who stopped having which role, for as long as an access token
lives.

Invitations, the staff's scopes, edits of a manager, claims, an estate and a
tenant's tenancy want different inputs. `story`, a variable that never changes, selects
those of a behaviour: the actors, bodies, tokens, rows, endpoints and sessions
there are (`MCAccess`). A run checks all its stories.

### RateLimiter, TokenBucket and ApiServer

The address is the one a request claims (`clientIP` believes the header
`X-Forwarded-For`), and every bound is per such address. A request is one step
under the mutex: the sweep if the table is above its
limit, the lookup, and `Allow` of golang.org/x/time/rate, which fills the bucket
lazily. Levels count sixtieths of a token, so that integers are exact; the
library computes in floating point. `ApiServer` adds the life of the process
(`config.Load`, the database, the dependencies, the listener; signal,
`Shutdown` with its ten seconds, close, exit; `log.Fatalf` and crash) and what
its goroutines hold. An SMS request goes through its recipients and tries each
up to three times; the provider's answer may be lost after the message was
delivered. A Go string is two words: `StoreWord` stores them one by one, in either order, and
`LoadWord` loads them one by one, in either order too, so that a store may begin,
end or pass as a whole between the loads; `SubmitOrder` goes out with what was
loaded.

### Inventory

Existence checks before an insertion see soft-deleted rows, because they name
the table and not the GORM model. Deletions are a count and an UPDATE. A lease
here is its status and what it refers to; `Leases` has the statements.

### Reminders

A run computes its due day once, selects rows, and per row asks, sends and
records. `Stop` is SIGTERM: the context is cancelled and the loop goes on with
every statement failing, as the code does. `Crash` loses the process. Stops,
crashes and failures come from a bounded supply. Charges are written by no code
of the repository, so a selection returns any charges due on the day with any of
the preferences; SMS goes to the no-op sender, which always succeeds. Failure is
an empty count in `alreadySent`, hence a message more.

### CollectionDesk

`Candidates` is the query of `ReminderCandidates`: unpaid charges due before next
month, and live leases without an unpaid charge of this month (a lease whose
charge is settled is one of them). `SendReminders` reads them once and then
looks up, skips or inserts id by id. Nothing is sent, and nobody reads the
history before adding to it: naming an id twice records it twice. The desk and
the worker share no row either of them writes, so a behaviour tells of one of
them (`told`).

## The runs

| Run | Instance | Shows |
|---|---|---|
| `leases_concurrent` | 2 requests, 1 unit, 2 leases, 2 bodies each of POST and PATCH, failures, manual status | overlap, dates and occupancy break only along named causes; the service refines `UnitOccupancy` |
| `leases_serial` | 1 request at a time, 3 leases, 1 offer, closeouts, failures | the same over long sequences with renewals; an offer renews once |
| `payments` | 2 requests, 2 payments, callbacks of any content, 2 placeholders, manual references that name an order or none, failures | outcomes have causes unless a callback the gateway does not back wrote them; only stale or lost writes of what it does back are wrong; manual payments stay unless their reference is a placed order's |
| `access` | 6 stories: `setup` (2 requests, 2 tokens, 2 tenants, 1 address, failures), `staff` (2 requests, 2 users, 2 buildings and a foreign one, failures), `edits` (a manager's patches with and without a list, failures), `claims` (2 sessions, time), `estate` (all endpoints, all roles, 3 rows, failures), `tenancy` (2 tenancies, a tenant's endpoints) | one password per token; invited logins can be taken up; scope and role rules under overlapping patches; stale claims are bounded; nothing out of scope; answers are true |
| `inventory` | 2 deletions, 2 buildings, 2 units, 1 tenant, 2 leases, 2 labels | what is in use stays, but for what came after the count |
| `reminders` | the worker: 2 processes, 2 charges, 2 days, 1 fault; the desk: 2 clerks, 2 requests of up to 2 ids, 2 charges of 1 lease, 2 changes | duplicates have causes; runs forget nobody; records of emails are true; answers of the desk vouch for what is there |
| `api` | 2 requests at a time and three budgets: limits (4 requests of 2 addresses, 3 passages of time), messages (2 requests, a client that goes, a stop, a crash), ids (2 registrations, 2 payments, a restart) | the limiter implements token buckets; counts, ids and stops are right; calls and stops end |

Why the bounds are enough. The properties speak of one unit and at most two
leases, one payment, one user, one token, one reminder; two requests are the
smallest number that interleave, and every cause is one interference. A second
object of each kind is there for what crosses between objects: a misdirected
notice, the other lease of the unit, the second tenant with an address, the
second charge in a run. One fault in `reminders` may hit either of two workers or
clerks; failures during the recovery from another are left to the theorems, which
count no faults. `leases_concurrent` moves no start date by a PATCH and has no
move-out, so that the causes `CheckedDatesAreOrdered` excuses do not occur there,
and `leases_serial` has one request at a time, so that an accept repeated while the
first is in progress is not in it: there the theorems (`DatesCorrect`,
`RenewalsCorrect`) say more than the runs. In `api` an interval of 5 seconds is half a token and one
of 901 seconds outlives an idle bucket; a table limit of 0 makes every request
sweep. In `access` an access token lives for two ticks and a refresh token for
three, so that each may be used before and after the change of its user and
after the other's expiry; one request is followed at a time, since requests meet
only in the tables, and any request of `Accounts` may run beside it. The theorems
remove the bounds of every safety property that holds.

Deadlock is not checked: tables have a fixed number of keys, and a state in
which all are used and all requests are done is an end of the instance, not of
the system. Symmetry is used on identifiers only, in runs of safety properties.

### What documentation says and the code does not do

Five runs each check a sentence of a comment and find it violated; the
`findings` quote the sentences.

- `leases_overlap`: active primary leases of a unit do overlap, after approvals,
  renewals and creations that bypass the check; there is no EXCLUDE constraint.
- `leases_approval`: approval also reactivates leases that are not pending.
- `payments_sync`: a status query may take a payment that is in step with its paid
  order back to pending.
- `accounts_onetime`: two overlapping confirmations both use one token.
- `accounts_omitted`: an omitted building list empties a manager's scope.

### Fairness and liveness

The specifications of the database's requests are `Init /\ [][Next]_vars`: no
fairness is assumed there, and no liveness is claimed. Nothing in the code
promises any: a request that fails is not resumed, a lost notice is not asked for
again, a missed day's reminders are not made up for, and the stale occupancy of a
unit stays until the next lease write. "Finished" is stated as safety where it
means something: `CompletedRunReminds` says what a run owes when it has come to
its end.

`ApiServer` is different: it has loops that retry and a stop that waits. Its
fairness is weak, for the lifecycle of the process and for each request
(`Fairness`): Go schedules every goroutine that can run, timers fire, and every
call of a provider ends, since the HTTP clients have timeouts. The environment
(clients, signals, time, faults) has none. `EveryCallEnds` says that a request
taken on comes to its end whatever the providers do, `ShutdownCompletes` that a
process told to stop ends, by its requests, by its deadline or by a crash.

## The proofs

Each proof module EXTENDS the module it is about and proves, for arbitrary
constants under the assumptions that module declares, that an invariant holds
initially, is kept by every action, and implies the property. The assumptions
are the types of the request bodies and of the stories, special values that are
no identifiers, an access token that does not outlive its refresh token
(`TTLAssumption`), and finitely many requests, workers and clerks where they are
counted (`WorkersAssumption`, `BoundsAssumption`, `DeskAssumption`): a
process runs so many at a time, of whatever number.

`LeasesProofs`. Three invariants, each on top of the last. `BaseInv` says which
locals a request has at each statement and that rows once there stay. `LocalInv`
adds what a request whose reading is *fresh* may rely on (`FreshFor`): its count
is the number of active leases now, the merged row it validated is still what
the UPDATE will make, no other lease of the unit overlaps it. It is kept because
every write of a lease marks the other requests at the unit as not fresh
(`AfterLeaseWrite`) and changes nothing another unit's requests see
(`OnlyUnit`). `RulesInv` adds the overlap and the date rule, which are not
inductive alone: at the write they need what the request checked.
`OccupancyRefinement` shows every step to be a step or a stutter of
`UnitOccupancy`, by the variables it leaves alone, and `OccupancyCorrect` reads
the occupancy invariant off the abstract specification. `RenewInv` is beside
these and about one offer: the leases that came from it and the requests that
found it pending and have not finished are together at most the requests there
are, and while it is pending there is no such lease and no request has marked it.
`RenewalsBounded` alone is not inductive, since a request about to insert would
add to a full count. An INSERT moves one from the second number to the first;
a request can join the second only while the offer is pending, when the first is
zero.

`PaymentsProofs`. `AccountInv` has no assumption on what callbacks say or what
manual references are. It says which references a row may have (its own order's,
a placeholder, or a manual one), which rows a request may hold for which order,
and that what a request will store was so at some time, unless it is marked
unbacked, as the row then is. `CauseCorrect`, `LinkedCorrect` and `ManualCorrect`
are read off it. `CurrentInv` adds, for `SyncedCorrect`, that a fresh
answer agrees with the order, which every move of the order revokes.

`InventoryProofs`. `HomeInv`: a reference that was safe when it was made is to a
live row that no deletion is past the count of. The properties alone are not
inductive, since a deletion past its count could still store.

`RateLimiterProofs`. Beside types, times and the bound on the table, `LimiterInv`
relates what an address was given since a
mark to what its bucket holds now: credits spent plus credits left are at most a
full bucket and the inflow. The lemma the sweep needs is `FullFillsInTime`: a
bucket nobody used for fifteen minutes is full, so a forgotten one and a fresh
one are the same. It holds for a burst no larger than `max(5, rpm/6)`, which is
the assumption on the constants and what the routes use. The refinement maps the
level of an address that is not in the table to a full bucket.

`ApiServerProofs`. `ServerImplementsLimiter` carries the three results over to
the process by showing each of its steps to be a step of the limiter or none.
`CallsInv` is about one request (calls delivered and answers lost agree until
the recipient is done with); `IdsInv` says which ids the two words of the field
may come from while stores are under way, and, for a payment between its two loads
or after them, what the loaded words may be: a length without data only if a store
was under way at a load or the field changed between them.

`RemindersProofs`. `RunInv` says what each worker holds at its statement and what
it still owes of the charges it selected; records and runs follow from it.
`CountInv` is the argument for duplicates: of one reminder, the messages received
and those still on their way are at most the excuses, and one more if it is
recorded or some worker has it in hand. A step moves one worker and balances the
two sides (`CountStep`), so that the sum over the workers never appears; it needs
the set of workers to be finite, which is an assumption of `Reminders`. The desk
shares nothing with the workers (`DeskRunsWorker`: its behaviours are the
worker's too). `VouchInv` is for the answers: a clerk vouches for all
it has recorded at once, long after the rows were written, so the number answered
so far is compared with the table only after adding the entries of all requests
in progress (`Unanswered`, pairs of a clerk and a position in its list, since an
id may be named twice). A row written adds one to both sides, an answer moves a
request's entries from one term to the other.

`AccountsProofs`. The theorems are about `AccessSpec`, so whoever is logged in.
`BaseInv` has the locals of a request at each statement, and that rows stay. On
it stand four invariants, each about one race. `SetupInv`: a token that is not
excused has one confirmation at a time, and has set a password only if that one
is about to mark it. `GovernInv`: a patch whose reading is fresh may still do
what it was checked for, as only another patch writes a role. `InviteInv`: a
login waits with a token that no confirmation is about to mark; a user becomes
active by the very step after which its token may be gone. `ScopeInv`: of an
undisturbed user one request at a time replaces the buildings, its list is what
was asked, and its DELETE has seen all rows there are, so that the COMMIT leaves
exactly the list. `StepKin` says what a step changes of the other requests.

`AccessProofs`. `ClaimsInv`: a token whose access part has not expired names a
role its user has, or `lately` remembers one given up no earlier than the token
was issued; time ages both alike. What a request does after the middleware leaves
its claims alone (`RecentInv`).

The other theorems of this module are about what the endpoints touch and answer,
and their proof is in two halves. The first is about `Endpoints` alone. `Ordered`
says when a plan is safe to run while scopes change: the row it names is found,
and checked against the caller's scope, before anything tells of it; the last
query of rows is narrowed to the scope that was read; nothing refuses after the
first store; an error is dropped only in the endpoints `AnswersAreTrue` excepts.
A lemma for each of the 46 handlers and `RoutesOK` show that all keep it, for the
roles each admits. The second half knows of the plans only that they are
`Ordered`. The properties speak of answers and are far from inductive; `AskInv`
adds what the statements that ran have established (`Serving`): the caller was
let in (`Caller`), each check that ran holds of the named row (`Passed`), the
rows found by a narrowed query are in scope and, for the complete lists, miss
none of it (`Seen`), and something was stored or dropped only by a statement that
does so (`Noted`). It is stated with the history (`held` and `linked` grow, `kept`
shrinks), so that any step of `Accounts` keeps it, although what was checked need
not be so any more. `AccessTypeCorrect` needs `AgesInv` besides: nothing in
`sessions` or `lately` is past its time.

Only model-checked: `EveryCallEnds` and `ShutdownCompletes`, the liveness of
`ApiServer` (fairness is out of the prover's reach), and the five findings, which
are counterexamples.

## What is not modelled

Charges, reports and audit: tables no code writes, sums over them, and rows
written best effort. Amounts, names, addresses and texts appear in no property
and in no model, nor do filters and paging; a Patch of a profile is its
statements, not its columns. Signatures, password hashes and the floating point
of the limiter's library are taken as sound. Wiring is modelled as the order of
the start and as the table of routes; CORS, request ids, health probes, logging
and the generated documentation (`docs/docs.go`, a third of the lines) are left
out.

## Plan

Done, in this order: Leases with its abstract occupancy, Payments, Accounts,
Inventory, Reminders; proofs for Leases, Payments, Inventory; RateLimiter with
its abstract buckets, ApiServer and their proofs; Endpoints, Access,
CollectionDesk; proofs for Reminders, CollectionDesk, Accounts and the sessions
of Access; then the counts, `RenewalsBounded` and `AnsweredIsRecorded`, and the
scopes and answers of the endpoints (`RowsWereInScope`, `AnswersAreTrue`).

1. A lease's life in `Leases` shown to implement the lease of `Inventory`, so that
   its row there is not only an abstraction by intention.
2. The transaction of `ReplaceManagerBuildingAssignments` shown to implement an
   atomic replacement for the users no other request disturbs.
