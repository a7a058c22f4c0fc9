---------------------------- MODULE MCApiServer ----------------------------
(***************************************************************************)
(* An instance of ApiServer for TLC.  Three kinds of behaviour share it:   *)
(* many requests of two addresses over half an hour (limits), few with   *)
(* long lists, clients that go, a stop and a crash (messages), and         *)
(* registrations beside payments over a restart (ids).                     *)
(***************************************************************************)
EXTENDS ApiServer

CONSTANTS s1, s2, a1, a2, r1, i1, i2

\* Half a token flows in in five seconds, more than a full bucket in 901.
MCDurations == {5, 901}

NoneOf == [from |-> {a1}, bodies |-> {}, sms |-> 0, register |-> 0, initiate |-> 0,
           leave |-> 0, time |-> 0, observe |-> 0, start |-> 1, stop |-> 0, fault |-> 0]

Limits   == [NoneOf EXCEPT !.from = {a1, a2}, !.bodies = {<<Invalid>>},
                           !.sms = 4, !.time = 3, !.observe = 1]
Messages == [NoneOf EXCEPT !.bodies = {<<r1, Invalid>>},
                           !.sms = 2, !.leave = 1, !.stop = 1, !.fault = 1]
Ids      == [NoneOf EXCEPT !.register = 2, !.initiate = 2, !.start = 2, !.fault = 1]

MCBudgets == {Limits, Messages, Ids}

MCBodies == {<<Invalid>>, <<r1, Invalid>>}
=============================================================================
