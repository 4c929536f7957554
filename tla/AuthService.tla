----------------------------- MODULE AuthService -----------------------------
(***************************************************************************)
(* auth-service: Signup, Login and Validate on several pods, with the      *)
(* table users (PostgreSQL), the blacklist of revoked tokens (Redis) and   *)
(* the cache every pod keeps for when Redis does not answer.               *)
(*                                                                         *)
(* A token is its jti.  Redis may fail any single lookup: it is away, or   *)
(* slower than 500 ms.  It may also lose an entry: its policy evicts any   *)
(* key, and it syncs its log to the disk once a second.  Nothing in the    *)
(* repository writes the blacklist; an operator does.                      *)
(***************************************************************************)
EXTENDS Naturals, FiniteSets

CONSTANTS Requests, AuthPods, Users, Tokens,
          None   \* no pod, no user, no token

VARIABLES
    users,      \* the rows of the table users
    owner,      \* whom every token was issued to, or None
    expired,    \* the tokens whose fifteen minutes are over
    blacklist,  \* the entry bl:<jti> of every token in Redis: absent, "1" or another
    cache,      \* localCache: what a pod remembers of a token
    auth,       \* the handler of every request
    cleared,    \* history: tokens Redis had no entry for, by a pod since it started
    learned     \* history: tokens a pod has learned to be revoked (StoreRevoked),
                \* until Redis tells this pod otherwise

store == <<users, owner, expired, blacklist>>
history == <<cleared, learned>>
authVars == <<users, owner, expired, blacklist, cache, auth, cleared, learned>>

Idle == [pc |-> "idle", pod |-> None, user |-> None, token |-> None, status |-> 0]

Issued == {t \in Tokens : owner[t] # None}

Init ==
    /\ users \in SUBSET Users
    /\ owner \in [Tokens -> users \cup {None}]
    /\ expired = {}
    /\ blacklist = [t \in Tokens |-> "absent"]
    /\ cache = [p \in AuthPods |-> [t \in Tokens |-> "absent"]]
    /\ auth = [q \in Requests |-> Idle]
    /\ cleared = [p \in AuthPods |-> {}]
    /\ learned = [p \in AuthPods |-> {}]

\* Handler q goes on to pc; it answers and is done.
Goto(q, pc) == auth' = [auth EXCEPT ![q].pc = pc]
Answer(q, status) ==
    auth' = [auth EXCEPT ![q] = [Idle EXCEPT !.pc = "done", !.status = status]]

\* The caller takes the answer.
Collect(q) ==
    /\ auth[q].pc = "done"
    /\ auth' = [auth EXCEPT ![q] = [Idle EXCEPT !.pc = "done"]]

Begin(q, p, pc, u, t) ==
    /\ auth[q] = Idle
    /\ auth' = [auth EXCEPT ![q] = [pc |-> pc, pod |-> p, user |-> u,
                                    token |-> t, status |-> 0]]
    /\ UNCHANGED <<store, cache, history>>

-----------------------------------------------------------------------------
(* Signup.                                                                 *)

Signup(q, p, u) == Begin(q, p, "insert", u, None)

InsertUser(q) ==
    /\ auth[q].pc = "insert"
    /\ auth[q].user \notin users
    /\ users' = users \cup {auth[q].user}
    /\ Goto(q, "signed")
    /\ UNCHANGED <<owner, expired, blacklist, cache, history>>

\* The name is taken, or the database failed, before or after the insert.
InsertFails(q) ==
    /\ auth[q].pc = "insert"
    /\ users' \in {users, users \cup {auth[q].user}}
    /\ Answer(q, 409)
    /\ UNCHANGED <<owner, expired, blacklist, cache, history>>

\* emitEvent returns, with or without an event, and nobody looks which.
SignupDone(q) ==
    /\ auth[q].pc = "signed"
    /\ Answer(q, 201)
    /\ UNCHANGED <<store, cache, history>>

-----------------------------------------------------------------------------
(* Login.                                                                  *)

\* Bound: a login is begun only while there is a token left for it.
Login(q, p, u) ==
    /\ Cardinality({r \in Requests : auth[r].pc \in {"query", "issue"}})
         < Cardinality(Tokens \ Issued)
    /\ Begin(q, p, "query", u, None)

\* The row with this name and password is there.
QueryFinds(q) ==
    /\ auth[q].pc = "query"
    /\ auth[q].user \in users
    /\ Goto(q, "issue")
    /\ UNCHANGED <<store, cache, history>>

\* No such name, a wrong password, or the database failed.
QueryFails(q) ==
    /\ auth[q].pc = "query"
    /\ Answer(q, 401)
    /\ UNCHANGED <<store, cache, history>>

\* The token is signed; the event and the answer follow.
IssueToken(q) ==
    /\ auth[q].pc = "issue"
    /\ \E t \in Tokens \ Issued : owner' = [owner EXCEPT ![t] = auth[q].user]
    /\ Answer(q, 200)
    /\ UNCHANGED <<users, expired, blacklist, cache, history>>

-----------------------------------------------------------------------------
(* Validate.                                                               *)

\* The signature and the expiry are checked first.
Validate(q, p, t) ==
    /\ t \in Issued \ expired
    /\ Begin(q, p, "lookup", None, t)

RejectToken(q, t) ==
    /\ t \notin Issued \ expired
    /\ auth[q] = Idle
    /\ Answer(q, 401)
    /\ UNCHANGED <<store, cache, history>>

\* redis.Get answers: there is no entry (redis.Nil), it says "1", or it says
\* something else.
RedisGet(q) ==
    LET p == auth[q].pod
        t == auth[q].token IN
    /\ auth[q].pc = "lookup"
    /\ \/ /\ blacklist[t] = "1"
          /\ Goto(q, "revoked")
          /\ UNCHANGED history
       \/ /\ blacklist[t] = "absent"
          /\ Goto(q, "valid")
          /\ cleared' = [cleared EXCEPT ![p] = @ \cup {t}]
          /\ learned' = [learned EXCEPT ![p] = @ \ {t}]
       \/ /\ blacklist[t] = "other"
          /\ Goto(q, "other")
          /\ learned' = [learned EXCEPT ![p] = @ \ {t}]
          /\ UNCHANGED cleared
    /\ UNCHANGED <<store, cache>>

RedisFails(q) ==
    /\ auth[q].pc = "lookup"
    /\ Goto(q, "fallback")
    /\ UNCHANGED <<store, cache, history>>

\* The answer of Redis may be old by now.
StoreValid(q) ==
    /\ auth[q].pc = "valid"
    /\ cache' = [cache EXCEPT ![auth[q].pod][auth[q].token] = "valid"]
    /\ Answer(q, 200)
    /\ UNCHANGED <<store, history>>

\* Neither "1" nor an error: the token is accepted, and nothing is remembered.
AcceptOther(q) ==
    /\ auth[q].pc = "other"
    /\ Answer(q, 200)
    /\ UNCHANGED <<store, cache, history>>

\* A handler of pod p holds an answer of Redis that does not revoke token t.
HoldsAcceptance(p, t) ==
    \E r \in Requests : auth[r].pod = p /\ auth[r].token = t /\ auth[r].pc \in {"valid", "other"}

\* Mutant of StoreRevoked: the revocation is not remembered.
StoreRevokedForgotten(q) ==
    LET p == auth[q].pod
        t == auth[q].token IN
    /\ auth[q].pc = "revoked"
    /\ Answer(q, 401)
    /\ learned' = IF HoldsAcceptance(p, t) THEN learned
                  ELSE [learned EXCEPT ![p] = @ \cup {t}]
    /\ UNCHANGED <<store, cache, cleared>>

\* A pod has learned of a revocation once it stored it while no handler of its
\* own holds another answer.
StoreRevoked(q) ==
    LET p == auth[q].pod
        t == auth[q].token IN
    /\ auth[q].pc = "revoked"
    /\ cache' = [cache EXCEPT ![p][t] = "revoked"]
    /\ Answer(q, 401)
    /\ learned' = IF HoldsAcceptance(p, t) THEN learned
                  ELSE [learned EXCEPT ![p] = @ \cup {t}]
    /\ UNCHANGED <<store, cleared>>

\* What the cache of the pod makes of the token when Redis does not answer.
FallbackStatus == [absent |-> 503, valid |-> 200, revoked |-> 401]

\* Mutant of Fallback: only a token known to be revoked is rejected.
FallbackOpen(q) ==
    /\ auth[q].pc = "fallback"
    /\ Answer(q, IF cache[auth[q].pod][auth[q].token] = "revoked" THEN 401 ELSE 200)
    /\ UNCHANGED <<store, cache, history>>

Fallback(q) ==
    /\ auth[q].pc = "fallback"
    /\ Answer(q, FallbackStatus[cache[auth[q].pod][auth[q].token]])
    /\ UNCHANGED <<store, cache, history>>

-----------------------------------------------------------------------------
(* The environment.                                                        *)

\* An operator writes an entry, "1" or not.
Blacklist(t) ==
    /\ t \in Issued
    /\ \E value \in {"1", "other"} : blacklist' = [blacklist EXCEPT ![t] = value]
    /\ UNCHANGED <<users, owner, expired, cache, auth, history>>

\* Redis evicts an entry, or comes back without the last second of its log.
LoseEntry(t) ==
    /\ blacklist[t] # "absent"
    /\ blacklist' = [blacklist EXCEPT ![t] = "absent"]
    /\ UNCHANGED <<users, owner, expired, cache, auth, history>>

Expire(t) ==
    /\ t \in Issued \ expired
    /\ expired' = expired \cup {t}
    /\ UNCHANGED <<users, owner, blacklist, cache, auth, history>>

Running(q) == auth[q].pc \notin {"idle", "done"}

\* A pod dies with its cache and its handlers, and comes back; the gateway
\* answers 502 for it.
CrashAuth(p) ==
    /\ auth' = [q \in Requests |-> IF auth[q].pod = p /\ Running(q)
                                   THEN [Idle EXCEPT !.pc = "done", !.status = 502]
                                   ELSE auth[q]]
    /\ cache' = [cache EXCEPT ![p] = [t \in Tokens |-> "absent"]]
    /\ cleared' = [cleared EXCEPT ![p] = {}]
    /\ learned' = [learned EXCEPT ![p] = {}]
    /\ UNCHANGED store

HandlerStep(q) ==
    \/ InsertUser(q) \/ InsertFails(q) \/ SignupDone(q)
    \/ QueryFinds(q) \/ QueryFails(q) \/ IssueToken(q)
    \/ RedisGet(q) \/ RedisFails(q) \/ StoreValid(q) \/ AcceptOther(q)
    \/ StoreRevoked(q) \/ Fallback(q)

Environment ==
    \/ \E t \in Tokens : Blacklist(t) \/ LoseEntry(t) \/ Expire(t)
    \/ \E p \in AuthPods : CrashAuth(p)

\* What callers do; Storefront is one of them.
Caller(q) ==
    \/ \E p \in AuthPods : \/ \E u \in Users : Signup(q, p, u) \/ Login(q, p, u)
                          \/ \E t \in Tokens : Validate(q, p, t)
    \/ \E t \in Tokens : RejectToken(q, t)
    \/ Collect(q) /\ UNCHANGED <<store, cache, history>>

Next ==
    \/ \E q \in Requests : Caller(q) \/ HandlerStep(q)
    \/ Environment

Spec == Init /\ [][Next]_authVars

-----------------------------------------------------------------------------
(* Properties.                                                             *)

TypeOK ==
    /\ users \in SUBSET Users
    /\ owner \in [Tokens -> Users \cup {None}]
    /\ expired \in SUBSET Issued
    /\ blacklist \in [Tokens -> {"absent", "1", "other"}]
    /\ cache \in [AuthPods -> [Tokens -> {"absent", "valid", "revoked"}]]
    /\ auth \in [Requests -> [pc : {"idle", "insert", "signed", "query", "issue",
                                    "lookup", "valid", "other", "revoked", "fallback", "done"},
                              pod : AuthPods \cup {None},
                              user : Users \cup {None},
                              token : Tokens \cup {None},
                              status : {0, 200, 201, 401, 409, 502, 503}]]
    /\ cleared \in [AuthPods -> SUBSET Tokens]
    /\ learned \in [AuthPods -> SUBSET Tokens]

\* Request q accepts its token in this step.
Accepts(q) ==
    /\ auth[q].pc \in {"lookup", "valid", "other", "fallback"}
    /\ auth'[q].status = 200

\* "Redis blacklist check ... (Fail-Closed)": however Redis fails in between, a
\* pod accepts a token only if Redis has just answered this very request with an
\* entry that is not "1", or has had no entry for it when this very pod asked,
\* since the pod started.
FailsClosed ==
    [][\A q \in Requests : Accepts(q) =>
        auth[q].pc = "other" \/ auth[q].token \in cleared[auth[q].pod]]_authVars

\* A pod that has learned of a revocation does not accept the token again as
\* long as it runs, whether Redis answers or not, and even where Redis has lost
\* the entry meanwhile: not before Redis has told this very pod so.  It has not
\* learned it while one of its handlers still holds another answer of Redis:
\* that one may store it over the newer one.
RevocationSticks ==
    [][\A q \in Requests : Accepts(q) => auth[q].token \notin learned[auth[q].pod]]_authVars

-----------------------------------------------------------------------------
(* The inductive invariant.                                                *)

\* A handler knows what it was asked for.
AskedInv ==
    \A q \in Requests :
        /\ auth[q].pc \in {"insert", "query", "issue"} => auth[q].user \in Users
        /\ auth[q].pc \in {"lookup", "valid", "other", "revoked", "fallback"} =>
            auth[q].pod \in AuthPods /\ auth[q].token \in Tokens

\* There is no answer before the end.
AnswerInv == \A q \in Requests : auth[q].pc # "done" => auth[q].status = 0

\* Whatever says "valid", a handler or a cache, has it from Redis.
ClearedInv ==
    /\ \A q \in Requests : auth[q].pc = "valid" => auth[q].token \in cleared[auth[q].pod]
    /\ \A p \in AuthPods, t \in Tokens : cache[p][t] = "valid" => t \in cleared[p]

\* A pod that has learned of a revocation remembers it, and none of its
\* handlers knows better.
LearnedInv ==
    \A p \in AuthPods : \A t \in learned[p] : cache[p][t] = "revoked" /\ ~ HoldsAcceptance(p, t)

IInv == TypeOK /\ AskedInv /\ AnswerInv /\ ClearedInv /\ LearnedInv
=============================================================================
