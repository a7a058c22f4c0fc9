---------------------------- MODULE MCReminders ----------------------------
(***************************************************************************)
(* An instance of Reminders and CollectionDesk for TLC.                    *)
(***************************************************************************)
EXTENDS CollectionDesk, TLC

CONSTANTS w1, w2, c1, c2, k1, k2, l1

\* Both charges on day 7, and one of them again, put off to day 8.
MCKeys == {<<c1, 7>>, <<c2, 7>>, <<c1, 8>>}

\* By email, as the lease says against the tenant's wish; by SMS, as the
\* tenant has opted in.
MCPreferences ==
    {[lease |-> "email", tenant |-> "sms", smsOptIn |-> TRUE, phone |-> TRUE, email |-> TRUE],
     [lease |-> "", tenant |-> "", smsOptIn |-> TRUE, phone |-> TRUE, email |-> TRUE]}

MCLeaseOf == [c \in {c1, c2} |-> l1]

Symmetry == Permutations({w1, w2}) \cup Permutations({k1, k2})
=============================================================================
