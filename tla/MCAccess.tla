------------------------------ MODULE MCAccess ------------------------------
(***************************************************************************)
(* Instances of Accounts and Access for TLC, told as stories.              *)
(***************************************************************************)
EXTENDS Access, TLC

CONSTANTS w1, w2, u1, u2, t1, t2, n1, n2, e1, e2, b1, b2

New(e, r, st, bs) == [email |-> e, role |-> r, status |-> st, list |-> bs]
Body(e, r, st) == [email |-> e, role |-> r, status |-> st, listed |-> FALSE, list |-> {}]
Listed(e, r, st, bs) == [email |-> e, role |-> r, status |-> st, listed |-> TRUE, list |-> bs]

Quiet == [actors |-> {"admin"}, newUsers |-> {}, patches |-> {}, tokens |-> {},
          tenants |-> {}, emails |-> {e1}, serial |-> FALSE, failures |-> FALSE,
          rows |-> {}, endpoints |-> {}, sessions |-> 0, clock |-> FALSE, founders |-> {}]

\* Invitations: a login may be disabled and made one of the staff's.
setup == [Quiet EXCEPT !.patches = {Body(Keep, "staff", "disabled")},
                       !.tokens = {t1, t2}, !.tenants = {n1, n2}, !.failures = TRUE]

\* Scopes: managers come, go and are renamed, with and without a list.
staff == [Quiet EXCEPT
    !.actors = {"landlord", "manager"},
    !.newUsers = {New(e1, "manager", "active", {b1}), New(e2, "staff", "active", {})},
    !.patches = {Body(Keep, "staff", Keep), Listed(Keep, "manager", Keep, {b2}),
                 Listed(e1, Keep, Keep, {b1, Elsewhere})},
    !.emails = {e1, e2}, !.failures = TRUE]

\* Edits of a manager that leave its buildings out, and edits that do not.
edits == [Quiet EXCEPT
    !.newUsers = {New(e1, "manager", "active", {b1})},
    !.patches = {Body(Keep, Keep, Keep), Listed(Keep, "manager", Keep, {b2}),
                 Listed(e1, Keep, Keep, {b1, Elsewhere})},
    !.failures = TRUE]

\* Sessions: users are disabled, enabled and given another role as time passes.
claims == [Quiet EXCEPT
    !.patches = {Body(Keep, Keep, "disabled"), Body(Keep, "staff", "active")},
    !.serial = TRUE, !.endpoints = {"Me"}, !.sessions = 2, !.clock = TRUE,
    !.founders = {"admin", "manager", "tenant"}]

\* Every endpoint called by every role, while a manager's buildings change.
estate == [Quiet EXCEPT
    !.newUsers = {New(e1, r, "active", {b1}) : r \in UserRole},
    !.patches = {Listed(Keep, "manager", Keep, {b2})},
    !.serial = TRUE, !.failures = TRUE, !.endpoints = DOMAIN Routes, !.sessions = 1,
    !.rows = {[building |-> b1, tenant |-> None], [building |-> b2, tenant |-> None],
              [building |-> Elsewhere, tenant |-> None]}]

\* A tenant calls what it may, while it is linked to one tenancy and another.
tenancy == [Quiet EXCEPT
    !.tokens = {t1, t2}, !.tenants = {n1, n2}, !.serial = TRUE, !.sessions = 1,
    !.endpoints = {e \in DOMAIN Routes : "tenant" \in Routes[e].plan.admits},
    !.rows = {[building |-> b1, tenant |-> n1], [building |-> b1, tenant |-> n2]}]

Told == [setup |-> setup, staff |-> staff, edits |-> edits, claims |-> claims,
         estate |-> estate, tenancy |-> tenancy]

\* Two confirmations of one token.
Twice == [setup |-> [setup EXCEPT !.patches = {}, !.failures = FALSE,
                                        !.tokens = {t1}, !.tenants = {n1}]]

\* One manager, one request at a time.
Renaming == [edits |-> [edits EXCEPT !.failures = FALSE, !.serial = TRUE]]

AccessSymmetry == Permutations({w1, w2}) \cup Permutations({u1, u2}) \cup Permutations({t1, t2})
    \cup Permutations({n1, n2})
=============================================================================
