--------------------------- MODULE DeliveryPromise ---------------------------
(***************************************************************************)
(* What a consumer group promises for the topics it reads: the messages of *)
(* a topic are settled in order, each one kept (handled, or put where it   *)
(* can be looked at) or given up; the group's committed offset only grows  *)
(* and never passes a message that is not settled (at-least-once).  Every  *)
(* message that is published is settled in the end, and the committed      *)
(* offset gets past it.  A protected group gives nothing up.               *)
(***************************************************************************)
EXTENDS Naturals

CONSTANTS Topics

VARIABLES protected,   \* whether the group keeps all it settles
          published,   \* messages of every topic: offsets 0 .. published - 1
          settled,     \* how many of them, the oldest ones, are settled
          lost,        \* the settled ones of every topic that were given up
          committed    \* the group's committed offset

promiseVars == <<protected, published, settled, lost, committed>>

Init ==
    /\ protected \in BOOLEAN
    /\ published = [t \in Topics |-> 0]
    /\ settled = [t \in Topics |-> 0]
    /\ lost = [t \in Topics |-> {}]
    /\ committed = [t \in Topics |-> 0]

Publish(t) ==
    /\ published' = [published EXCEPT ![t] = @ + 1]
    /\ UNCHANGED <<protected, settled, lost, committed>>

Keep(t) ==
    /\ settled[t] < published[t]
    /\ settled' = [settled EXCEPT ![t] = @ + 1]
    /\ UNCHANGED <<protected, published, lost, committed>>

GiveUp(t) ==
    /\ ~ protected
    /\ settled[t] < published[t]
    /\ settled' = [settled EXCEPT ![t] = @ + 1]
    /\ lost' = [lost EXCEPT ![t] = @ \cup {settled[t]}]
    /\ UNCHANGED <<protected, published, committed>>

\* What one replica gave up another one, delivered it again, keeps.
Recover(t) ==
    /\ \E o \in lost[t] : lost' = [lost EXCEPT ![t] = @ \ {o}]
    /\ UNCHANGED <<protected, published, settled, committed>>

Commit(t) ==
    /\ \E o \in committed[t] + 1 .. settled[t] :
        committed' = [committed EXCEPT ![t] = o]
    /\ UNCHANGED <<protected, published, settled, lost>>

Next == \E t \in Topics : Publish(t) \/ Keep(t) \/ GiveUp(t) \/ Recover(t) \/ Commit(t)

Spec ==
    /\ Init
    /\ [][Next]_promiseVars
    /\ \A t \in Topics : /\ WF_promiseVars(Keep(t) \/ GiveUp(t))
                         /\ WF_promiseVars(Commit(t))
=============================================================================
