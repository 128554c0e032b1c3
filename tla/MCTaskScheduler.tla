-------------------------- MODULE MCTaskScheduler --------------------------
(***************************************************************************)
(* Instances of TaskScheduler for TLC.                                      *)
(***************************************************************************)
EXTENDS TaskScheduler

CONSTANTS a1, a2, a3

Two == [active |-> 2, hard |-> 3]
Three == [active |-> 3, hard |-> 3]

MakePlan(order, deps, mutating, general, policy) ==
    [order |-> order, deps |-> deps, mutating |-> mutating, general |-> general,
     bound |-> {order[i] : i \in DOMAIN order}, policies |-> {policy}]

Free == [a \in Assignments |-> {}]

\* Plans that compete for the slots of one guard: two waves, the second with a
\* read-only and a mutating assignment; a read-only pair under another policy; a
\* General child.
MCPlans ==
    {MakePlan(<<a1, a2, a3>>, [Free EXCEPT ![a2] = {a1}, ![a3] = {a1}], {a3}, {}, Two),
     MakePlan(<<a1, a2>>, Free, {}, {}, Three),
     MakePlan(<<a1>>, Free, {}, {a1}, Two)}

=============================================================================
